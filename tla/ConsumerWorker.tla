--------------------------- MODULE ConsumerWorker ---------------------------
(***************************************************************************)
(* The consumer workers of one partition: the poll loop of                 *)
(* pkg/kafka/consumer.go with the handler of cmd/consumer-worker, and the  *)
(* retry engine of internal/retry that every worker also drives from a     *)
(* ticker. The two goroutines of a worker and the goroutines of the other  *)
(* workers of the group share the committed offset in Kafka and the        *)
(* retries, dead_letter_messages and consumer_offsets tables.              *)
(*                                                                         *)
(* An event is its offset, counted from 1. Kafka's committed offset and    *)
(* the position of the assigned consumer are the number of the last event  *)
(* they cover.                                                             *)
(***************************************************************************)
EXTENDS Naturals, Sequences, FiniteSets

CONSTANTS
    Workers,        \* consumer-worker processes of the group
    NoWorker,       \* the partition is assigned to nobody
    MaxLog,         \* bound: events published
    Poison,         \* events whose payload processEvent rejects
    Purchases,      \* events of type ShipPurchased
    Audited,        \* poison events whose INSERT into events may succeed
    MaxAttempts,    \* RetryPolicy.MaxAttempts
    BatchLimit,     \* LIMIT of PendingRetries
    RetryMayPass,   \* the handler given to ProcessPending may succeed
    StoreMayFail,   \* PostgreSQL calls may return an error
    ApiMayFail,     \* HTTP calls to the gateway may fail
    CommitMayFail,  \* CommitMessage may fail for the assigned consumer
    FaultKinds,     \* kinds of fault that may happen
    MaxFaults       \* bound: faults in all

Log == 1..MaxLog

ASSUME LogAssumption ==
    /\ MaxLog \in Nat
    /\ Poison \subseteq Log
    /\ Purchases \subseteq Log \ Poison
    /\ Audited \subseteq Poison

ASSUME PolicyAssumption ==
    /\ MaxAttempts \in Nat \ {0}
    /\ BatchLimit \in Nat \ {0}

ASSUME WorkersAssumption ==
    /\ NoWorker \notin Workers
    /\ {RetryMayPass, StoreMayFail, ApiMayFail, CommitMayFail} \subseteq BOOLEAN
    /\ FaultKinds \subseteq {"crash", "shutdown", "fatal", "rebalance"}
    /\ MaxFaults \in Nat

VARIABLES
    published,  \* events in the partition
    stored,     \* poison events whose row is in the events table
    committed,  \* the group's committed offset
    owner,      \* the consumer the partition is assigned to
    position,   \* the last event the assigned consumer has fetched
    cancelled,  \* workers whose context is cancelled (SIGTERM)
    cpc,        \* where the consumer goroutine of each worker is
    cur,        \* the message its handler works on
    seen,       \* attempt, as GetMaxRetryAttempt returned it
    tpc,        \* where the ticker goroutine of each worker is
    batch,      \* records of ProcessPending it still has to visit
    job,        \* the exhausted record it is about to dead-letter
    retries,    \* the retries table, in order of insertion
    dlq,        \* the dead_letter_messages table, in order of insertion
    pgOffset,   \* the consumer_offsets row
    handled,    \* good events for which the handler returned nil
    created,    \* GalacticCommerce workflows created for an event
    started,    \* ... of which the run request was accepted
    tries,      \* failed attempts at a poison event, by consumer or retry
    faults,     \* faults so far
    died        \* a worker process has been replaced

kafka    == <<published, committed, owner, position>>
consumer == <<cpc, cur, seen>>
ticker   == <<tpc, batch, job>>
effects  == <<handled, created, started>>
faulty   == <<faults, died>>
vars     == <<kafka, stored, cancelled, consumer, ticker, retries, dlq,
              pgOffset, effects, tries, faulty>>

-----------------------------------------------------------------------------
(* Types *)

RetryRow == [event : Poison, attempt : Nat, due : BOOLEAN,
             status : {"pending", "failed", "completed"}]

DLQRow == [event : Poison, attempts : Nat, full : BOOLEAN]

\* A record as ProcessPending holds it: which row, and the attempt it read.
Record == [id : Nat, attempt : Nat]

NoRecord == [id |-> 0, attempt |-> 0]

CPC == {"poll", "attempt", "schedule", "offset", "create", "start", "commit", "dead"}

TPC == {"idle", "retry", "dlq"}

TypeOK ==
    /\ published \in 0..MaxLog
    /\ stored \subseteq Poison
    /\ committed \in 0..published
    /\ owner \in Workers \cup {NoWorker}
    /\ position \in 0..published
    /\ cancelled \subseteq Workers
    /\ cpc \in [Workers -> CPC]
    /\ cur \in [Workers -> 0..published]
    /\ seen \in [Workers -> Nat]
    /\ tpc \in [Workers -> TPC]
    /\ batch \in [Workers -> SUBSET Record]
    /\ job \in [Workers -> Record]
    /\ retries \in Seq(RetryRow)
    /\ dlq \in Seq(DLQRow)
    /\ pgOffset \in 0..published
    /\ handled \subseteq Log \ Poison
    /\ created \in [Purchases -> Nat]
    /\ started \in [Purchases -> Nat]
    /\ tries \in [Poison -> Nat]
    /\ faults \in 0..MaxFaults
    /\ died \in BOOLEAN
    /\ \A w \in Workers :
         /\ cpc[w] \in {"attempt", "schedule"} => cur[w] \in Poison
         /\ cpc[w] \in {"offset", "commit"} => cur[w] \in Log \ Poison
         /\ cpc[w] \in {"create", "start"} => cur[w] \in Purchases
         /\ \A b \in batch[w] : b.id \in DOMAIN retries
         /\ tpc[w] = "dlq" => job[w].id \in DOMAIN retries

Init ==
    /\ published = 0
    /\ stored = {}
    /\ committed = 0
    /\ owner = NoWorker
    /\ position = 0
    /\ cancelled = {}
    /\ cpc = [w \in Workers |-> "poll"]
    /\ cur = [w \in Workers |-> 0]
    /\ seen = [w \in Workers |-> 0]
    /\ tpc = [w \in Workers |-> "idle"]
    /\ batch = [w \in Workers |-> {}]
    /\ job = [w \in Workers |-> NoRecord]
    /\ retries = <<>>
    /\ dlq = <<>>
    /\ pgOffset = 0
    /\ handled = {}
    /\ created = [e \in Purchases |-> 0]
    /\ started = [e \in Purchases |-> 0]
    /\ tries = [e \in Poison |-> 0]
    /\ faults = 0
    /\ died = FALSE

-----------------------------------------------------------------------------
(* Helpers *)

\* A call that is given a cancelled context always returns an error.
StoreOK(w) == w \notin cancelled
StoreError(w) == StoreMayFail \/ w \in cancelled
ApiOK(w) == w \notin cancelled
ApiError(w) == ApiMayFail \/ w \in cancelled

\* processEvent accepts the payload: it is JSON and asks for no failure.
ProcessEvent(e) == e \notin Poison

Goto(w, l) == cpc' = [cpc EXCEPT ![w] = l]

\* Back to the head of pollLoop; the locals of the iteration are gone.
NextMessage(w) ==
    /\ Goto(w, "poll")
    /\ cur' = [cur EXCEPT ![w] = 0]
    /\ seen' = [seen EXCEPT ![w] = 0]

Attempts(e) == {retries[i].attempt : i \in {j \in DOMAIN retries : retries[j].event = e}}

\* COALESCE(MAX(attempt), 0): the one number of this set.
MaxAttempt(e) == {a \in Attempts(e) \cup {0} : \A b \in Attempts(e) : b <= a}

DeadLetter(e, n, full) ==
    dlq' = Append(dlq, [event |-> e, attempts |-> n, full |-> full])

Occurs(k) ==
    /\ k \in FaultKinds
    /\ faults < MaxFaults
    /\ faults' = faults + 1

-----------------------------------------------------------------------------
(* The producer's side, as far as the worker sees it *)

\* Kafka has acknowledged the message.
Publish ==
    /\ published < MaxLog
    /\ published' = published + 1
    /\ UNCHANGED <<committed, owner, position, stored, cancelled, consumer, ticker,
                   retries, dlq, pgOffset, effects, tries, faulty>>

\* The gateway inserts the event after the acknowledgement; an error of the
\* INSERT is ignored, so this may never happen. Only the rows of poison events
\* are ever read.
StoreEvent(e) ==
    /\ e \in Audited \ stored
    /\ e <= published
    /\ stored' = stored \cup {e}
    /\ UNCHANGED <<kafka, cancelled, consumer, ticker, retries, dlq, pgOffset,
                   effects, tries, faulty>>

-----------------------------------------------------------------------------
(* The group coordinator *)

\* The assigned consumer starts from the committed offset.
Assign(w) ==
    /\ owner = NoWorker
    /\ cpc[w] # "dead"
    /\ owner' = w
    /\ position' = committed
    /\ UNCHANGED <<published, committed, stored, cancelled, consumer, ticker,
                   retries, dlq, pgOffset, effects, tries, faulty>>

\* A rebalance does not wait for a handler in progress.
Rebalance ==
    /\ owner # NoWorker
    /\ Occurs("rebalance")
    /\ owner' = NoWorker
    /\ UNCHANGED <<published, committed, position, stored, cancelled, consumer,
                   ticker, retries, dlq, pgOffset, effects, tries, died>>

-----------------------------------------------------------------------------
(* The consumer goroutine: pollLoop and the handler *)

\* Mutant: enable.auto.commit, the offset is committed as it is fetched.
PollAutoCommit(w) ==
    /\ cpc[w] = "poll"
    /\ w \notin cancelled
    /\ owner = w
    /\ position < published
    /\ position' = position + 1
    /\ committed' = position + 1
    /\ cur' = [cur EXCEPT ![w] = position + 1]
    /\ \/ /\ position + 1 \in Poison
          /\ Goto(w, "attempt")
          /\ tries' = [tries EXCEPT ![position + 1] = @ + 1]
       \/ /\ position + 1 \notin Poison
          /\ Goto(w, "offset")
          /\ UNCHANGED tries
    /\ UNCHANGED <<published, owner, stored, cancelled, seen, ticker,
                   retries, dlq, pgOffset, effects, faulty>>

\* Poll delivers the next message and processEvent accepts or rejects it. The
\* position advances either way: a failure is not followed by a seek.
Poll(w) ==
    /\ cpc[w] = "poll"
    /\ w \notin cancelled
    /\ owner = w
    /\ position < published
    /\ position' = position + 1
    /\ cur' = [cur EXCEPT ![w] = position + 1]
    /\ \/ /\ ~ProcessEvent(position + 1)
          /\ Goto(w, "attempt")
          /\ tries' = [tries EXCEPT ![position + 1] = @ + 1]
       \/ /\ ProcessEvent(position + 1)
          /\ Goto(w, "offset")
          /\ UNCHANGED tries
    /\ UNCHANGED <<published, committed, owner, stored, cancelled, seen, ticker,
                   retries, dlq, pgOffset, effects, faulty>>

\* The error is discarded and the attempt then is 0.
GetMaxRetryAttempt(w) ==
    /\ cpc[w] = "attempt"
    /\ \/ StoreOK(w) /\ \E a \in MaxAttempt(cur[w]) : seen' = [seen EXCEPT ![w] = a]
       \/ StoreError(w) /\ seen' = [seen EXCEPT ![w] = 0]
    /\ Goto(w, "schedule")
    /\ UNCHANGED <<kafka, stored, cancelled, cur, ticker, retries, dlq, pgOffset,
                   effects, tries, faulty>>

\* Mutant: ">" for ">=".
ScheduleOneMore(w) ==
    /\ cpc[w] = "schedule"
    /\ \/ /\ StoreOK(w)
          /\ seen[w] > MaxAttempts
          /\ DeadLetter(cur[w], seen[w], FALSE)
          /\ UNCHANGED retries
       \/ /\ StoreOK(w)
          /\ seen[w] <= MaxAttempts
          /\ retries' = Append(retries, [event |-> cur[w], attempt |-> seen[w] + 1,
                                         due |-> FALSE, status |-> "pending"])
          /\ UNCHANGED dlq
       \/ StoreError(w) /\ UNCHANGED <<retries, dlq>>
    /\ NextMessage(w)
    /\ UNCHANGED <<kafka, stored, cancelled, ticker, pgOffset, effects,
                   tries, faulty>>

\* Mutant: the attempt just made is counted twice.
ScheduleEarly(w) ==
    /\ cpc[w] = "schedule"
    /\ StoreOK(w)
    /\ \/ /\ seen[w] + 1 >= MaxAttempts
          /\ DeadLetter(cur[w], seen[w] + 1, FALSE)
          /\ UNCHANGED retries
       \/ /\ seen[w] + 1 < MaxAttempts
          /\ retries' = Append(retries, [event |-> cur[w], attempt |-> seen[w] + 2,
                                         due |-> FALSE, status |-> "pending"])
          /\ UNCHANGED dlq
    /\ NextMessage(w)
    /\ UNCHANGED <<kafka, stored, cancelled, ticker, pgOffset, effects, tries, faulty>>

\* Mutant: pollLoop ends at a failed handler ("return" for "continue").
ScheduleStopsLoop(w) ==
    /\ cpc[w] = "schedule"
    /\ StoreOK(w)
    /\ seen[w] < MaxAttempts
    /\ retries' = Append(retries, [event |-> cur[w], attempt |-> seen[w] + 1,
                                   due |-> FALSE, status |-> "pending"])
    /\ Goto(w, "dead")
    /\ UNCHANGED <<kafka, stored, cancelled, cur, seen, ticker, dlq, pgOffset, effects,
                   tries, faulty>>

\* Mutant: the handler lacks the "return err" and goes on as after a success.
ScheduleFallsThrough(w) ==
    /\ cpc[w] = "schedule"
    /\ StoreOK(w)
    /\ seen[w] < MaxAttempts
    /\ retries' = Append(retries, [event |-> cur[w], attempt |-> seen[w] + 1,
                                   due |-> FALSE, status |-> "pending"])
    /\ Goto(w, "offset")
    /\ UNCHANGED <<kafka, stored, cancelled, cur, seen, ticker, dlq, pgOffset, effects,
                   tries, faulty>>

\* Schedule: a new retries row, or the DLQ once the attempts are used up, in
\* that case without the payload. The handler only logs an error, and pollLoop
\* goes on without committing.
Schedule(w) ==
    /\ cpc[w] = "schedule"
    /\ \/ /\ StoreOK(w)
          /\ seen[w] >= MaxAttempts
          /\ DeadLetter(cur[w], seen[w], FALSE)
          /\ UNCHANGED retries
       \/ /\ StoreOK(w)
          /\ seen[w] < MaxAttempts
          /\ retries' = Append(retries, [event |-> cur[w], attempt |-> seen[w] + 1,
                                         due |-> FALSE, status |-> "pending"])
          /\ UNCHANGED dlq
       \/ StoreError(w) /\ UNCHANGED <<retries, dlq>>
    /\ NextMessage(w)
    /\ UNCHANGED <<kafka, stored, cancelled, ticker, pgOffset, effects,
                   tries, faulty>>

\* Mutant: the next offset is written, as Kafka's own commits do.
UpsertOffsetNext(w) ==
    /\ cpc[w] = "offset"
    /\ pgOffset' = cur[w] + 1
    /\ Goto(w, IF cur[w] \in Purchases THEN "create" ELSE "commit")
    /\ handled' = IF cur[w] \in Purchases THEN handled ELSE handled \cup {cur[w]}
    /\ UNCHANGED <<kafka, stored, cancelled, cur, seen, ticker, retries, dlq,
                   created, started, tries, faulty>>

\* The row is overwritten, also by a lower offset; an error is ignored.
UpsertOffset(w) ==
    /\ cpc[w] = "offset"
    /\ \/ StoreOK(w) /\ pgOffset' = cur[w]
       \/ StoreError(w) /\ UNCHANGED pgOffset
    /\ \/ /\ cur[w] \in Purchases
          /\ Goto(w, "create")
          /\ UNCHANGED handled
       \/ /\ cur[w] \notin Purchases
          /\ Goto(w, "commit")
          /\ handled' = handled \cup {cur[w]}
    /\ UNCHANGED <<kafka, stored, cancelled, cur, seen, ticker, retries, dlq,
                   created, started, tries, faulty>>

\* triggerGalacticWorkflow: POST /workflows. On an error (the workflow may exist
\* nevertheless) it returns, and the handler succeeds all the same.
PostWorkflow(w) ==
    /\ cpc[w] = "create"
    /\ \/ /\ ApiOK(w)
          /\ created' = [created EXCEPT ![cur[w]] = @ + 1]
          /\ Goto(w, "start")
          /\ UNCHANGED handled
       \/ /\ ApiError(w)
          /\ handled' = handled \cup {cur[w]}
          /\ Goto(w, "commit")
          /\ \/ UNCHANGED created
             \/ created' = [created EXCEPT ![cur[w]] = @ + 1]
    /\ UNCHANGED <<kafka, stored, cancelled, cur, seen, ticker, retries, dlq,
                   pgOffset, started, tries, faulty>>

\* ... and POST /workflows/:id/run, whose error is ignored too.
PostRun(w) ==
    /\ cpc[w] = "start"
    /\ \/ ApiOK(w) /\ started' = [started EXCEPT ![cur[w]] = @ + 1]
       \/ ApiError(w) /\ UNCHANGED started
    /\ handled' = handled \cup {cur[w]}
    /\ Goto(w, "commit")
    /\ UNCHANGED <<kafka, stored, cancelled, cur, seen, ticker, retries, dlq,
                   pgOffset, created, tries, faulty>>

\* CommitMessage; its error is ignored. The coordinator checks membership, not
\* assignment, so a consumer that has lost the partition may still get its
\* commit accepted, and move the committed offset back.
CommitMessage(w) ==
    /\ cpc[w] = "commit"
    /\ \/ committed' = cur[w]
       \/ (CommitMayFail \/ owner # w) /\ UNCHANGED committed
    /\ NextMessage(w)
    /\ UNCHANGED <<published, owner, position, stored, cancelled, ticker,
                   retries, dlq, pgOffset, effects, tries, faulty>>

-----------------------------------------------------------------------------
(* The ticker goroutine: ProcessPending *)

\* next_retry_at of row i is reached.
BecomeDue(i) ==
    /\ retries[i].status = "pending"
    /\ ~retries[i].due
    /\ retries' = [retries EXCEPT ![i].due = TRUE]
    /\ UNCHANGED <<kafka, stored, cancelled, consumer, ticker, dlq, pgOffset,
                   effects, tries, faulty>>

DueRows == {i \in DOMAIN retries : retries[i].status = "pending" /\ retries[i].due}

\* The ticker fires: the due rows are read, and not claimed, so that another
\* worker may read them as well.
PendingRetries(w) ==
    /\ tpc[w] = "idle"
    /\ StoreOK(w)
    /\ DueRows # {}
    /\ \E S \in SUBSET DueRows :
         /\ S # {}
         /\ Cardinality(S) <= BatchLimit
         /\ Cardinality(S) < BatchLimit => S = DueRows
         /\ batch' = [batch EXCEPT ![w] = {[id |-> i, attempt |-> retries[i].attempt] : i \in S}]
    /\ tpc' = [tpc EXCEPT ![w] = "retry"]
    /\ UNCHANGED <<kafka, stored, cancelled, consumer, job, retries, dlq, pgOffset,
                   effects, tries, faulty>>

\* UpdateRetry writes the whole record by id; its error is ignored.
UpdateRetry(w, b, a, st) ==
    \/ /\ StoreOK(w)
       /\ retries' = [retries EXCEPT ![b.id].attempt = a, ![b.id].status = st,
                                     ![b.id].due = FALSE]
    \/ StoreError(w) /\ UNCHANGED retries

\* On to the next record of the batch, or back to waiting for the ticker.
NextRecord(w, rest) ==
    /\ batch' = [batch EXCEPT ![w] = rest]
    /\ tpc' = [tpc EXCEPT ![w] = IF rest = {} THEN "idle" ELSE "retry"]

\* Mutant: the exhausted record is marked and forgotten.
RetryFailsForgets(w, b) ==
    /\ tpc[w] = "retry"
    /\ b \in batch[w]
    /\ tries' = [tries EXCEPT ![retries[b.id].event] = @ + 1]
    /\ UpdateRetry(w, b, b.attempt + 1,
                   IF b.attempt + 1 >= MaxAttempts THEN "failed" ELSE "pending")
    /\ NextRecord(w, batch[w] \ {b})
    /\ UNCHANGED <<kafka, stored, cancelled, consumer, job, dlq, pgOffset, effects, faulty>>

\* The retry handler returns an error: the record's own attempt counts, which
\* may be stale by now.
RetryFails(w, b) ==
    /\ tpc[w] = "retry"
    /\ b \in batch[w]
    /\ tries' = [tries EXCEPT ![retries[b.id].event] = @ + 1]
    /\ \/ /\ b.attempt + 1 >= MaxAttempts
          /\ UpdateRetry(w, b, b.attempt + 1, "failed")
          /\ job' = [job EXCEPT ![w] = [b EXCEPT !.attempt = @ + 1]]
          /\ batch' = [batch EXCEPT ![w] = @ \ {b}]
          /\ tpc' = [tpc EXCEPT ![w] = "dlq"]
       \/ /\ b.attempt + 1 < MaxAttempts
          /\ UpdateRetry(w, b, b.attempt + 1, "pending")
          /\ NextRecord(w, batch[w] \ {b})
          /\ UNCHANGED job
    /\ UNCHANGED <<kafka, stored, cancelled, consumer, dlq, pgOffset, effects, faulty>>

RetrySucceeds(w, b) ==
    /\ RetryMayPass
    /\ tpc[w] = "retry"
    /\ b \in batch[w]
    /\ UpdateRetry(w, b, b.attempt, "completed")
    /\ NextRecord(w, batch[w] \ {b})
    /\ UNCHANGED <<kafka, stored, cancelled, consumer, job, dlq, pgOffset, effects,
                   tries, faulty>>

\* The row of the event, if the gateway has stored it.
GetEventByID(e) == e \in stored

\* Without the event's row, or when the query fails, the payload is {}. The
\* error of StoreDLQ is ignored.
MoveToDLQ(w) ==
    LET e == retries[job[w].id].event IN
    /\ tpc[w] = "dlq"
    /\ \/ StoreOK(w) /\ DeadLetter(e, job[w].attempt, GetEventByID(e))
       \/ StoreOK(w) /\ StoreError(w) /\ DeadLetter(e, job[w].attempt, FALSE)
       \/ StoreError(w) /\ UNCHANGED dlq
    /\ NextRecord(w, batch[w])
    /\ job' = [job EXCEPT ![w] = NoRecord]
    /\ UNCHANGED <<kafka, stored, cancelled, consumer, retries, pgOffset, effects,
                   tries, faulty>>

-----------------------------------------------------------------------------
(* Process faults *)

\* The process is gone, with both goroutines, and its replacement starts.
Restart(w) ==
    /\ NextMessage(w)
    /\ tpc' = [tpc EXCEPT ![w] = "idle"]
    /\ batch' = [batch EXCEPT ![w] = {}]
    /\ job' = [job EXCEPT ![w] = NoRecord]
    /\ cancelled' = cancelled \ {w}
    /\ owner' = IF owner = w THEN NoWorker ELSE owner
    /\ died' = TRUE
    /\ UNCHANGED <<published, committed, position, stored, retries, dlq, pgOffset,
                   effects, tries>>

Crash(w) ==
    /\ Occurs("crash")
    /\ Restart(w)

\* SIGTERM: main cancels the context under both goroutines.
Shutdown(w) ==
    /\ w \notin cancelled
    /\ Occurs("shutdown")
    /\ cancelled' = cancelled \cup {w}
    /\ UNCHANGED <<kafka, stored, consumer, ticker, retries, dlq, pgOffset,
                   effects, tries, died>>

\* Stop waits for pollLoop to see the cancelled context, not for the ticker.
Exit(w) ==
    /\ w \in cancelled
    /\ cpc[w] \in {"poll", "dead"}
    /\ Restart(w)
    /\ UNCHANGED faults

\* pollLoop returns on a fatal Kafka error. The process, its ticker and its
\* health check stay up; the group drops the consumer.
FatalError(w) ==
    /\ cpc[w] = "poll"
    /\ w \notin cancelled
    /\ Occurs("fatal")
    /\ Goto(w, "dead")
    /\ owner' = IF owner = w THEN NoWorker ELSE owner
    /\ UNCHANGED <<published, committed, position, stored, cancelled, cur, seen, ticker,
                   retries, dlq, pgOffset, effects, tries, died>>

-----------------------------------------------------------------------------

ConsumerStep(w) ==
    \/ Poll(w)
    \/ GetMaxRetryAttempt(w) \/ Schedule(w)
    \/ UpsertOffset(w) \/ PostWorkflow(w) \/ PostRun(w) \/ CommitMessage(w)
    \/ Exit(w)

TickerStep(w) ==
    \/ PendingRetries(w)
    \/ \E b \in batch[w] : RetryFails(w, b) \/ RetrySucceeds(w, b)
    \/ MoveToDLQ(w)

Next ==
    \/ Publish
    \/ \E e \in Poison : StoreEvent(e)
    \/ \E w \in Workers : Assign(w)
    \/ Rebalance
    \/ \E w \in Workers : ConsumerStep(w) \/ TickerStep(w)
    \/ \E i \in DOMAIN retries : BecomeDue(i)
    \/ \E w \in Workers : Crash(w) \/ Shutdown(w) \/ FatalError(w)

Spec == Init /\ [][Next]_vars

\* Goroutines keep running and their calls return, the coordinator hands the
\* partition to somebody, and time passes. Producers, the INSERT into events
\* and faults are under no obligation.
Fairness ==
    /\ \A w \in Workers : WF_vars(ConsumerStep(w)) /\ WF_vars(TickerStep(w))
    /\ WF_vars(\E w \in Workers : Assign(w))
    /\ WF_vars(\E i \in DOMAIN retries : BecomeDue(i))

FairSpec == Spec /\ Fairness

-----------------------------------------------------------------------------
(* Safety *)

InDLQ(e) == \E i \in DOMAIN dlq : dlq[i].event = e

InRetries(e) == \E i \in DOMAIN retries : retries[i].event = e

\* Dealt with once and for all: the handler succeeded, or the failure is on
\* record in one of the tables.
Covered(e) == e \in handled \/ InRetries(e) \/ InDLQ(e)

\* At-least-once: no event at or below the committed offset (which Kafka will
\* not deliver again) is unaccounted for, although pollLoop fetches past a
\* failed message and the commit of a later one covers it.
CommittedCovered == \A e \in 1..committed : Covered(e)

\* The same of the audit copy: consumer_offsets names the event the handler is
\* at, which may not be finished, but every event below it is accounted for.
OffsetRowCovered == \A e \in Log : e < pgOffset => Covered(e)

\* The handler is at work on cur[w], or its offset is about to be committed.
Busy(w) == cpc[w] \notin {"poll", "dead"}

\* Everything before the message in a worker's hands is accounted for.
BehindMessage(w) == Busy(w) => \A e \in Log : e < cur[w] => Covered(e)

\* Only what the handler finished is offered for commit.
CommitsHandled(w) == cpc[w] = "commit" => cur[w] \in handled

\* The assigned consumer has left nothing behind its position but the message
\* in its hands, unless it is shutting down and will not poll again.
BehindPosition(w) ==
    owner = w /\ w \notin cancelled =>
        \A e \in Log : e <= position => Covered(e) \/ (Busy(w) /\ cur[w] = e)

\* Inductive strengthening of the two, while PostgreSQL answers. The part on
\* BehindMessage holds of every worker, in or out of the group: a consumer
\* that has lost the partition may still commit.
DeliveryInvariant ==
    /\ CommittedCovered
    /\ OffsetRowCovered
    /\ \A w \in Workers : BehindMessage(w) /\ CommitsHandled(w) /\ BehindPosition(w)

\* However often a message is redelivered while its rows are being retried,
\* no attempt counter passes MaxAttempts by more than one.
AttemptsBounded ==
    /\ \A i \in DOMAIN retries : retries[i].attempt <= MaxAttempts + 1
    /\ \A i \in DOMAIN dlq : dlq[i].attempts <= MaxAttempts + 1

\* A message is dead-lettered only after MaxAttempts attempts that really took
\* place: neither several rows for one event nor workers that retry the same
\* row from stale copies make the counters run ahead of the attempts.
DLQEarned ==
    \A i \in DOMAIN dlq :
        /\ dlq[i].attempts >= MaxAttempts
        /\ tries[dlq[i].event] >= dlq[i].attempts

\* A committed ShipPurchased event has started its saga: the offset moves on
\* only after both HTTP calls, whatever is redelivered in between. That is so
\* while the gateway answers and no worker is sent SIGTERM: an error of either
\* call is only logged, and the shutdown cancels the context of the calls but not
\* the commit after them.
CommittedPurchaseStarted ==
    \A e \in Purchases : e <= committed => started[e] > 0

\* An event whose payload is in the events table takes it to the DLQ.
DLQKeepsPayload ==
    [][\A i \in DOMAIN dlq' \ DOMAIN dlq :
          dlq'[i].event \in stored => dlq'[i].full]_vars

-----------------------------------------------------------------------------
(* Liveness *)

\* Every good event is committed in the end, past poison messages, rebalances
\* and crashes.
GoodCommitted ==
    \A e \in Log \ Poison : published >= e ~> committed >= e

\* Every poison message ends up in the DLQ.
PoisonReachesDLQ ==
    \A e \in Poison : published >= e ~> InDLQ(e)

\* The same, as long as no worker process dies.
PoisonReachesDLQUnlessRestart ==
    \A e \in Poison :
        published >= e ~> (InDLQ(e) \/ died)

=============================================================================
