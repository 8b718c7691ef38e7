---------------------------- MODULE RetrySchedule ----------------------------
(***************************************************************************)
(* The retry engine with a clock: which policy the environment gives a     *)
(* consumer worker, when its ticker retries a row, and what the limit of   *)
(* PendingRetries does to the rows that have to queue.                     *)
(*                                                                         *)
(* Times are milliseconds since the worker started. Calls take no time and *)
(* do not fail here: ConsumerWorker has the interleavings and the faults,  *)
(* without times.                                                          *)
(***************************************************************************)
EXTENDS Integers, Sequences, FiniteSets

CONSTANTS
    Events,         \* poison events; numbers are those of DemoGenerator
    Environments,   \* environments the worker may be started in
    BatchLimit,     \* LIMIT of PendingRetries
    Grain,          \* bound: how finely time passes
    MaxTime,        \* bound: last instant
    MaxRows         \* bound: rows that failed deliveries add to each table

\* DEMO_MODE and three numbers; <<>> is a variable that is unset or no number.
Environment == [demo : BOOLEAN, maxAttempts : Seq(Int), initialMs : Seq(Int), maxMs : Seq(Int)]

ASSUME ConstantsAssumption ==
    /\ Environments \subseteq Environment /\ Environments # {}
    /\ \A v \in Environments : \A f \in {"maxAttempts", "initialMs", "maxMs"} :
        v[f] = <<>> \/ Len(v[f]) = 1
    /\ {BatchLimit, Grain} \subseteq Nat \ {0} /\ 2000 % Grain = 0 \* no tick is stepped over
    /\ {MaxTime, MaxRows} \subseteq Nat

VARIABLES
    environ,    \* environment of the worker
    now,        \* clock
    retries,    \* retries table
    dlq,        \* dead_letter_messages: events and their attempts
    letters     \* number of its rows, equal ones included

vars == <<environ, now, retries, dlq, letters>>

\* updated is updated_at; missed is history: the ticks that left the row out
\* although it was due.
Row == [event : Events \cup Nat, attempt : Nat, next : Int, updated : Nat,
        status : {"pending", "failed"}, missed : Nat]

-----------------------------------------------------------------------------
(* The policy *)

envInt(v, fallback) == IF v = <<>> THEN fallback ELSE v[1]

\* Without DEMO_MODE the cap cannot be configured.
DefaultRetryPolicy(v) ==
    IF v.demo
    THEN [MaxAttempts |-> envInt(v.maxAttempts, 3), InitialBackoff |-> envInt(v.initialMs, 2000),
          MaxBackoff |-> envInt(v.maxMs, 8000)]
    ELSE [MaxAttempts |-> envInt(v.maxAttempts, 5), InitialBackoff |-> envInt(v.initialMs, 1000),
          MaxBackoff |-> 300000]

policy == DefaultRetryPolicy(environ)

\* Period of the worker's ticker.
retryInterval == IF environ.demo THEN 2000 ELSE 10000

\* Mutant of backoff: linear instead of exponential.
backoffLinear(attempt) ==
    LET delay == policy.InitialBackoff * (attempt + 1) IN
    IF delay > policy.MaxBackoff THEN policy.MaxBackoff ELSE delay

\* Mutant of backoff: without the cap.
backoffUncapped(attempt) == policy.InitialBackoff * 2^attempt

\* In floating point in the code, where a power of two loses nothing.
backoff(attempt) ==
    LET delay == policy.InitialBackoff * 2^attempt IN
    IF delay > policy.MaxBackoff THEN policy.MaxBackoff ELSE delay

\* The environment asks for no negative wait; envInt accepts any number.
Delays == policy.InitialBackoff >= 0 /\ policy.MaxBackoff >= 0

-----------------------------------------------------------------------------
(* The engine *)

Init ==
    /\ environ \in Environments
    /\ now = 0
    /\ retries = <<>>
    /\ dlq = {} /\ letters = 0

\* GetMaxRetryAttempt of the consumer's handler.
MaxAttempt(e) ==
    LET attempts == {0} \cup {retries[i].attempt : i \in {j \in DOMAIN retries : retries[j].event = e}}
    IN CHOOSE a \in attempts : \A b \in attempts : b <= a

\* A delivery of e fails: a new row, or the DLQ once the attempts are used up.
Schedule(e) ==
    LET attempt == MaxAttempt(e) IN
    /\ IF attempt >= policy.MaxAttempts
       THEN /\ letters < MaxRows /\ letters' = letters + 1
            /\ dlq' = dlq \cup {<<e, attempt>>} /\ UNCHANGED retries
       ELSE /\ Len(retries) < MaxRows
            /\ retries' = Append(retries, [event |-> e, attempt |-> attempt + 1,
                                           next |-> now + backoff(attempt), updated |-> now,
                                           status |-> "pending", missed |-> 0])
            /\ UNCHANGED <<dlq, letters>>
    /\ UNCHANGED <<environ, now>>

Due(t) == {i \in DOMAIN retries : retries[i].status = "pending" /\ retries[i].next <= t}

Lesser(a, b) == IF a < b THEN a ELSE b

\* Mutant of PendingRetries: latest first.
PendingRetriesLatest(t) ==
    {b \in SUBSET Due(t) :
        /\ Cardinality(b) = Lesser(BatchLimit, Cardinality(Due(t)))
        /\ \A i \in b, j \in Due(t) \ b : retries[i].next >= retries[j].next}

\* The first BatchLimit due rows by next_retry_at; PostgreSQL breaks ties as it likes.
PendingRetries(t) ==
    {b \in SUBSET Due(t) :
        /\ Cardinality(b) = Lesser(BatchLimit, Cardinality(Due(t)))
        /\ \A i \in b, j \in Due(t) \ b : retries[i].next <= retries[j].next}

\* The worker's handler always returns "still failing".
Retried(r, t) ==
    IF r.attempt + 1 >= policy.MaxAttempts
    THEN [r EXCEPT !.attempt = @ + 1, !.updated = t, !.status = "failed"]
    ELSE [r EXCEPT !.attempt = @ + 1, !.updated = t, !.missed = 0,
                   !.next = t + backoff(r.attempt + 1)]

ProcessPending(t) ==
    \E batch \in PendingRetries(t) :
    LET lost == {j \in batch : retries[j].attempt + 1 >= policy.MaxAttempts} IN
    /\ retries' = [i \in DOMAIN retries |->
                    IF i \in batch THEN Retried(retries[i], t)
                    ELSE IF i \in Due(t) THEN [retries[i] EXCEPT !.missed = @ + 1]
                    ELSE retries[i]]
    /\ dlq' = dlq \cup {<<retries[i].event, retries[i].attempt + 1>> : i \in lost}
    /\ letters' = letters + Cardinality(lost)

\* GET /retries: a limit that is no number is 0, and 0 is 50.
Limit(q) == IF q = <<>> \/ q[1] <= 0 THEN 50 ELSE q[1]

\* Its answer for an event: the newest rows by created_at.
ListRetries(e, limit) ==
    LET of == {i \in DOMAIN retries : retries[i].event = e} IN
    {i \in of : Cardinality({j \in of : j > i}) < limit}

\* Time passes; at the end of its period the ticker fires.
Tick ==
    /\ now < MaxTime /\ now' = now + Grain
    /\ IF now' % retryInterval = 0 THEN ProcessPending(now') ELSE UNCHANGED <<retries, dlq, letters>>
    /\ UNCHANGED environ

Next == Tick \/ \E e \in Events : Schedule(e)

Spec == Init /\ [][Next]_vars

-----------------------------------------------------------------------------
(* Properties *)

\* No wait exceeds the cap of the policy, and no row counts more attempts than
\* the policy has, one more for the failure that made the row.
TypeOK ==
    /\ environ \in Environments
    /\ now \in Nat
    /\ retries \in Seq(Row)
    /\ \A i \in DOMAIN retries :
        /\ retries[i].next - retries[i].updated <= policy.MaxBackoff
        /\ retries[i].attempt <= policy.MaxAttempts + 1
    /\ dlq \subseteq (Events \cup Nat) \X Nat /\ letters \in Nat

\* The delay the documentation promises before retry n: doubled n - 1 times
\* and capped on the way.
Promised[n \in Nat] ==
    LET d == IF n <= 1 THEN policy.InitialBackoff ELSE 2 * Promised[n - 1] IN
    IF d > policy.MaxBackoff THEN policy.MaxBackoff ELSE d

\* Retries back off exponentially: retry n of an event comes no earlier after
\* the failure before it than the documented delay, capped, unless the
\* environment makes a delay negative.
Spacing ==
    [][\A i \in DOMAIN retries : Delays /\ retries'[i].attempt # retries[i].attempt =>
        now' - retries[i].updated >= Promised[retries[i].attempt]]_vars

\* The limit of PendingRetries starves nobody: among n rows a due row is passed
\* over by at most (n - 1) / BatchLimit ticks, and it is tried within that many
\* intervals and one after it fell due. Negative delays are excepted: they put a
\* row that was just tried ahead of those that wait.
NoStarvation ==
    \A i \in DOMAIN retries : Delays /\ retries[i].status = "pending" =>
        /\ retries[i].missed * BatchLimit <= Len(retries) - 1
        /\ now - retries[i].next <= (retries[i].missed + 1) * retryInterval

=============================================================================
