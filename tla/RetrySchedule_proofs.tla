------------------------ MODULE RetrySchedule_proofs ------------------------
(***************************************************************************)
(* Proofs about RetrySchedule and DemoGenerator, for every retry policy,   *)
(* every number of events and rows, every batch limit and every command    *)
(* line of the generator.                                                  *)
(***************************************************************************)
EXTENDS DemoGenerator, FiniteSetTheorems, WellFoundedInduction, TLAPS

-----------------------------------------------------------------------------
(* Numbers *)

\* The order of the naturals is well-founded, so that a set of them has a least element.
LEMMA Minimum ==
    ASSUME NEW S \in SUBSET Nat, S # {}
    PROVE  \E m \in S : \A n \in S : m <= n
  <1> DEFINE Less == OpToRel(<, Nat)
  <1>1. PICK m \in S : \A n \in S : <<n, m>> \notin Less
    <2>1. IsWellFoundedOn(Less, Nat)
      BY NatLessThanWellFounded
    <2> HIDE DEF Less
    <2> QED
      BY <2>1, WFMin
  <1>2. \A n \in S : ~(n < m)
    BY <1>1 DEF OpToRel
  <1> QED
    BY <1>2

\* A bounded one has a greatest element.
LEMMA Maximum ==
    ASSUME NEW S \in SUBSET Nat, S # {}, NEW b \in Nat, \A n \in S : n <= b
    PROVE  \E m \in S : \A n \in S : n <= m
  <1> DEFINE T == {b - n : n \in S}
  <1>0. \A n \in S : n \in Nat /\ b - n \in Nat
    OBVIOUS
  <1>1. T \in SUBSET Nat /\ T # {}
    BY <1>0
  <1>2. PICK d \in T : \A c \in T : d <= c
    BY <1>1, Minimum
  <1>3. PICK m \in S : d = b - m
    BY <1>2
  <1>4. \A n \in S : d <= b - n
    BY <1>2
  <1> QED
    BY <1>0, <1>3, <1>4

\* Powers of two count the subsets of an interval.
LEMMA PowerCounts ==
    ASSUME NEW n \in Nat
    PROVE  IsFiniteSet(SUBSET (1..n)) /\ 2^n = Cardinality(SUBSET (1..n))
  <1>1. IsFiniteSet(1..n) /\ Cardinality(1..n) = n
    BY FS_Interval
  <1> QED
    BY <1>1, FS_SUBSET

LEMMA PowerPositive ==
    ASSUME NEW n \in Nat PROVE 2^n \in Nat \ {0}
  <1>1. Cardinality(SUBSET (1..n)) \in Nat
    BY PowerCounts, FS_CardinalityType
  <1>2. SUBSET (1..n) # {}
    OBVIOUS
  <1>3. Cardinality(SUBSET (1..n)) # 0
    BY <1>2, PowerCounts, FS_EmptySet
  <1> QED
    BY <1>1, <1>3, PowerCounts

\* Half of the subsets contain the last number.
LEMMA PowerDoubles ==
    ASSUME NEW n \in Nat PROVE 2^(n + 1) = 2 * 2^n
  <1> DEFINE A == SUBSET (1..n)
             B == {s \in SUBSET (1..(n + 1)) : n + 1 \in s}
             f == [s \in A |-> s \cup {n + 1}]
  <1>1. SUBSET (1..(n + 1)) = A \cup B /\ A \cap B = {}
    <2>1. ASSUME NEW s \in SUBSET (1..(n + 1)), n + 1 \notin s PROVE s \in A
      BY <2>1
    <2>2. \A s \in A : n + 1 \notin s /\ s \in SUBSET (1..(n + 1))
      OBVIOUS
    <2> QED
      BY <2>1, <2>2
  <1>2. f \in Bijection(A, B)
    <2>1. f \in [A -> B]
      OBVIOUS
    <2>2. \A s \in A : s = f[s] \ {n + 1}
      OBVIOUS
    <2>3. ASSUME NEW s \in A, NEW t \in A, f[s] = f[t] PROVE s = t
      BY <2>2, <2>3
    <2>4. ASSUME NEW t \in B PROVE \E s \in A : f[s] = t
      <3>1. t \ {n + 1} \in A /\ t = (t \ {n + 1}) \cup {n + 1}
        BY <2>4
      <3> QED
        BY <3>1
    <2> HIDE DEF f, A, B
    <2> QED
      BY <2>1, <2>3, <2>4 DEF Bijection, Injection, Surjection, IsInjective
  <1>3. IsFiniteSet(A) /\ Cardinality(A) = 2^n
    BY PowerCounts
  <1>4. ExistsBijection(A, B)
    BY <1>2 DEF ExistsBijection
  <1> HIDE DEF A, B, f
  <1>5. IsFiniteSet(B) /\ Cardinality(B) = 2^n
    BY <1>3, <1>4, FS_Bijection
  <1>6. Cardinality(A \cup B) = 2^n + 2^n - 0
    <2>1. Cardinality(A \cup B) = Cardinality(A) + Cardinality(B) - Cardinality(A \cap B)
      BY <1>3, <1>5, FS_Union
    <2>2. Cardinality(A \cap B) = 0
      BY <1>1, FS_EmptySet
    <2> QED
      BY <1>3, <1>5, <2>1, <2>2
  <1>7. n + 1 \in Nat /\ 2^n \in Nat
    BY PowerPositive
  <1> QED
    BY <1>1, <1>6, <1>7, PowerCounts

-----------------------------------------------------------------------------
(* The clock *)

LEMMA Division ==
    ASSUME NEW a \in Nat, NEW b \in Nat \ {0}
    PROVE  /\ a \div b \in Nat /\ a % b \in 0..(b - 1)
           /\ a = b * (a \div b) + (a % b)
  BY SMT

LEMMA Remainder ==
    ASSUME NEW q \in Nat, NEW b \in Nat \ {0}, NEW r \in 0..(b - 1)
    PROVE  (b * q + r) % b = r
  <1> DEFINE a == b * q + r
             k == a \div b
             s == a % b
  <1>1. a \in Nat
    OBVIOUS
  <1>2. k \in Nat /\ s \in 0..(b - 1) /\ b * q + r = b * k + s
    BY <1>1, Division
  <1> HIDE DEF k, s
  <1>3. b * (q - k) = s - r
    BY <1>2
  <1>4. q - k >= 1 => b * (q - k) >= b
    BY <1>2
  <1>5. q - k <= -1 => b * (q - k) <= -b
    BY <1>2
  <1>6. q = k
    BY <1>2, <1>3, <1>4, <1>5
  <1> QED
    BY <1>2, <1>6 DEF s

\* The step from instant n by g for a ticker with period p: it fires at most
\* once, and if it does it is one period after the last time.
TickFacts(n, g, p) ==
    /\ n + g \in Nat /\ (n + g) % g = 0
    /\ (n + g) % p = 0 => n + g = (n - (n % p)) + p
    /\ (n + g) % p # 0 => (n + g) - ((n + g) % p) = n - (n % p)

LEMMA TickTime ==
    ASSUME NEW n \in Nat, NEW g \in Nat \ {0}, g = Grain, n % g = 0, NEW p \in {2000, 10000}
    PROVE  TickFacts(n, g, p)
  <1> DEFINE k == n \div g
             m == p \div g
             q == n \div p
             r == n % p
  <1>1. g \in Nat \ {0} /\ 2000 % g = 0 /\ p \in Nat \ {0}
    BY ConstantsAssumption, SMT
  <1>2. k \in Nat /\ n = g * k
    BY <1>1, Division, SMT
  <1>3. m \in Nat /\ p = g * m
    <2>1. 2000 = g * (2000 \div g) /\ 2000 \div g \in Nat
      BY <1>1, Division, SMT
    <2>2. 10000 = g * (5 * (2000 \div g)) + 0 /\ 5 * (2000 \div g) \in Nat
      BY <1>1, <2>1, SMT
    <2>3. 10000 % g = 0
      BY <1>1, <2>2, Remainder, SMT
    <2> QED
      BY <1>1, <2>3, Division, SMT
  <1>4. q \in Nat /\ r \in 0..(p - 1) /\ n = p * q + r
    BY <1>1, Division, SMT
  <1> HIDE DEF k, m, q, r
  <1>5. r + g <= p
    <2>1. r = g * (k - m * q)
      BY <1>1, <1>2, <1>3, <1>4, SMT
    <2>2. k - m * q < m
      <3>1. g * (m - (k - m * q)) > 0
        BY <1>1, <1>2, <1>3, <1>4, <2>1, SMT
      <3> QED
        BY <1>1, <1>2, <1>3, <1>4, <3>1, SMT
    <2>3. k - m * q + 1 <= m /\ k - m * q \in Int
      BY <1>2, <1>3, <1>4, <2>2, SMT
    <2>4. g * (m - (k - m * q)) >= g
      BY <1>1, <1>3, <2>3, SMT
    <2> QED
      BY <1>1, <1>2, <1>3, <1>4, <2>1, <2>3, <2>4, SMT
  <1>6. n + g \in Nat /\ (n + g) % g = 0
    <2>1. n + g = g * (k + 1) + 0
      BY <1>1, <1>2, SMT
    <2> QED
      BY <1>1, <1>2, <2>1, Remainder, SMT
  <1>7. CASE r + g = p
    <2>1. n + g = p * (q + 1) + 0
      BY <1>1, <1>4, <1>7, SMT
    <2>2. (n + g) % p = 0
      BY <1>1, <1>4, <2>1, Remainder, SMT
    <2> QED
      BY <1>1, <1>4, <1>6, <1>7, <2>2, SMT DEF r, TickFacts
  <1>8. CASE r + g < p
    <2>0. PICK s \in 0..(p - 1) : s = r + g
      BY <1>1, <1>4, <1>8, SMT
    <2>1. n + g = p * q + s
      BY <1>1, <1>4, <2>0, SMT
    <2>2. (n + g) % p = s
      BY <1>1, <1>4, <2>1, Remainder, SMT
    <2>3. s # 0 /\ (n + g) - s = n - r
      BY <1>1, <1>4, <2>0, SMT
    <2> QED
      BY <1>6, <2>2, <2>3, SMT DEF r, TickFacts
  <1> QED
    BY <1>1, <1>4, <1>5, <1>7, <1>8, SMT

-----------------------------------------------------------------------------
(* The policy *)

LEMMA PolicyType ==
    ASSUME environ \in Environments
    PROVE  /\ policy.MaxAttempts \in Int /\ policy.InitialBackoff \in Int /\ policy.MaxBackoff \in Int
           /\ environ.demo \in BOOLEAN /\ retryInterval \in {2000, 10000}
  <1>1. /\ environ \in Environment
        /\ environ.maxAttempts = <<>> \/ Len(environ.maxAttempts) = 1
        /\ environ.initialMs = <<>> \/ Len(environ.initialMs) = 1
        /\ environ.maxMs = <<>> \/ Len(environ.maxMs) = 1
    BY ConstantsAssumption
  <1>2. ASSUME NEW v \in Seq(Int), v = <<>> \/ Len(v) = 1, NEW d \in Nat
        PROVE  envInt(v, d) \in Int
    BY <1>2 DEF envInt
  <1>3. /\ environ.maxAttempts \in Seq(Int) /\ environ.initialMs \in Seq(Int)
        /\ environ.maxMs \in Seq(Int) /\ environ.demo \in BOOLEAN
    BY <1>1 DEF Environment
  <1>4. \A d \in Nat : /\ envInt(environ.maxAttempts, d) \in Int
                       /\ envInt(environ.initialMs, d) \in Int
                       /\ envInt(environ.maxMs, d) \in Int
    BY <1>1, <1>2, <1>3
  <1>5. retryInterval \in {2000, 10000}
    BY SMT DEF retryInterval
  <1>6. CASE environ.demo
    <2>1. policy = [MaxAttempts |-> envInt(environ.maxAttempts, 3),
                    InitialBackoff |-> envInt(environ.initialMs, 2000),
                    MaxBackoff |-> envInt(environ.maxMs, 8000)]
      BY <1>6, SMT DEF policy, DefaultRetryPolicy
    <2> QED
      BY <1>3, <1>4, <1>5, <2>1, SMT
  <1>7. CASE ~environ.demo
    <2>1. policy = [MaxAttempts |-> envInt(environ.maxAttempts, 5),
                    InitialBackoff |-> envInt(environ.initialMs, 1000), MaxBackoff |-> 300000]
      BY <1>7, SMT DEF policy, DefaultRetryPolicy
    <2> QED
      BY <1>3, <1>4, <1>5, <2>1, SMT
  <1> QED
    BY <1>6, <1>7, SMT

\* A worker waits no longer than the cap and, unless a delay is negative, no
\* shorter after more attempts, and either always or never.
LEMMA Backoff ==
    ASSUME environ \in Environments, NEW n \in Nat
    PROVE  /\ backoff(n) \in Int /\ backoff(n) <= policy.MaxBackoff
           /\ Delays => /\ backoff(n) \in Nat /\ backoff(n) <= backoff(n + 1)
                        /\ backoff(n) = 0 <=> (policy.InitialBackoff = 0 \/ policy.MaxBackoff = 0)
  <1> DEFINE I == policy.InitialBackoff
             M == policy.MaxBackoff
             p == 2^n
             q == 2^(n + 1)
  <1>1. I \in Int /\ M \in Int
    BY PolicyType
  <1>2. p \in Nat \ {0} /\ q = 2 * p
    BY PowerPositive, PowerDoubles
  <1>3. /\ backoff(n) = IF I * p > M THEN M ELSE I * p
        /\ backoff(n + 1) = IF I * q > M THEN M ELSE I * q
    BY DEF backoff
  <1>0. Delays <=> I >= 0 /\ M >= 0
    BY DEF Delays
  <1> HIDE DEF I, M, p, q
  <1>4. I * p \in Int /\ I * q = 2 * (I * p)
    BY <1>1, <1>2
  <1>5. backoff(n) \in Int /\ backoff(n) <= M
    BY <1>1, <1>3, <1>4
  <1>6. ASSUME Delays
        PROVE  /\ backoff(n) \in Nat /\ backoff(n) <= backoff(n + 1)
               /\ backoff(n) = 0 <=> (I = 0 \/ M = 0)
    <2>1. I \in Nat /\ M \in Nat
      BY <1>0, <1>1, <1>6
    <2>2. I * p \in Nat /\ (I * p = 0 <=> I = 0)
      BY <1>2, <2>1
    <2> QED
      BY <1>3, <1>4, <2>1, <2>2
  <1> QED
    BY <1>5, <1>6 DEF I, M

\* The documented delay before retry n is the one the code computes for n - 1,
\* although the documented one is capped on the way and the computed one at the end.
LEMMA PromisedIs ==
    ASSUME environ \in Environments, Delays, NEW n \in Nat \ {0}
    PROVE  Promised[n] = backoff(n - 1)
  <1> DEFINE Cap(d) == IF d > policy.MaxBackoff THEN policy.MaxBackoff ELSE d
             Step(f, k) == Cap(IF k <= 1 THEN policy.InitialBackoff ELSE 2 * f[k - 1])
             g == [k \in Nat |-> backoff(IF k = 0 THEN 0 ELSE k - 1)]
  <1>1. policy.InitialBackoff \in Nat /\ policy.MaxBackoff \in Nat
    BY PolicyType DEF Delays
  <1>2. backoff(0) = Cap(policy.InitialBackoff)
    <2>1. 2^0 = 1
      OBVIOUS
    <2> QED
      BY <1>1, <2>1 DEF backoff
  <1>3. ASSUME NEW k \in Nat PROVE backoff(k + 1) = Cap(2 * backoff(k))
    <2> DEFINE I == policy.InitialBackoff
               p == 2^k
    <2>1. p \in Nat /\ 2^(k + 1) = 2 * p
      BY PowerPositive, PowerDoubles
    <2>2. backoff(k) = Cap(I * p) /\ backoff(k + 1) = Cap(I * (2 * p))
      BY <2>1 DEF backoff
    <2> HIDE DEF p
    <2>3. I * p \in Nat /\ I * (2 * p) = 2 * (I * p)
      BY <1>1, <2>1
    <2> QED
      BY <1>1, <2>2, <2>3
  <1>4. ASSUME NEW k \in Nat PROVE g[k] = Step(g, k)
    <2>1. CASE k <= 1
      BY <1>2, <2>1
    <2>2. CASE k > 1
      <3>1. k - 1 \in Nat /\ k - 2 \in Nat /\ g[k] = backoff(k - 1) /\ g[k - 1] = backoff(k - 2)
        BY <2>2
      <3>2. backoff((k - 2) + 1) = Cap(2 * backoff(k - 2))
        BY <1>3, <3>1
      <3>3. (k - 2) + 1 = k - 1
        OBVIOUS
      <3> QED
        BY <2>2, <3>1, <3>2, <3>3
    <2> QED
      BY <2>1, <2>2
  <1>5. g = [k \in Nat |-> Step(g, k)]
    BY <1>4
  <1>6. Promised = [k \in Nat |-> Step(Promised, k)]
    <2>1. Promised = CHOOSE f : f = [k \in Nat |-> Step(f, k)]
      BY DEF Promised
    <2> HIDE DEF g, Step
    <2> QED
      BY <1>5, <2>1
  <1>7. ASSUME NEW k \in Nat PROVE Promised[k] = g[k]
    <2> DEFINE Bad == {m \in Nat : Promised[m] # g[m]}
    <2> SUFFICES ASSUME k \in Bad PROVE FALSE
      OBVIOUS
    <2>1. PICK m \in Bad : \A j \in Bad : m <= j
      <3>1. Bad \in SUBSET Nat /\ Bad # {}
        OBVIOUS
      <3> QED
        BY <3>1, Minimum
    <2>2. Promised[m] = Step(Promised, m) /\ g[m] = Step(g, m)
      BY <1>5, <1>6
    <2>3. m > 1 => m - 1 \in Nat /\ m - 1 \notin Bad
      BY <2>1
    <2>4. m > 1 => Promised[m - 1] = g[m - 1]
      BY <2>3
    <2> HIDE DEF g
    <2> QED
      BY <2>1, <2>2, <2>4
  <1>8. g[n] = backoff(n - 1)
    OBVIOUS
  <1> QED
    BY <1>7, <1>8

-----------------------------------------------------------------------------
(* The invariant *)

\* When the ticker has fired last.
LastTick == now - (now % retryInterval)

\* The rows that PendingRetries may prefer to row i.
Ahead(i) ==
    {j \in DOMAIN retries \ {i} : retries[j].status = "pending" /\ retries[j].next <= retries[i].next}

\* No delay between retries.
NoWait == policy.InitialBackoff = 0 \/ policy.MaxBackoff = 0

\* A pending row has waited since its last attempt for the delay of the attempt
\* before, has been passed over once per tick since it fell due, and every time
\* BatchLimit rows that were ahead of it went behind it.
Waiting(i) ==
    /\ retries[i].next >= retries[i].updated + backoff(retries[i].attempt - 1)
    /\ NoWait => retries[i].next <= now
    /\ LastTick - retries[i].next <= retries[i].missed * retryInterval
    /\ retries[i].missed * BatchLimit + Cardinality(Ahead(i)) <= Len(retries) - 1

RowInv(i) ==
    /\ retries[i].attempt >= 1 /\ retries[i].updated <= now
    /\ retries[i].status = "pending" =>
         retries[i].attempt <= policy.MaxAttempts /\ (Delays => Waiting(i))

\* The inductive invariant of the retry engine.
ScheduleInvariant ==
    /\ TypeOK
    /\ now % Grain = 0
    /\ \A i \in DOMAIN retries : RowInv(i)

\* A step of the engine, whoever publishes the event that fails.
EngineStep == Tick \/ \E e \in Events \cup Nat : Schedule(e)

LEMMA SamePolicy ==
    ASSUME environ' = environ
    PROVE  /\ policy' = policy /\ retryInterval' = retryInterval
           /\ NoWait' = NoWait /\ Delays' = Delays
           /\ \A n : backoff(n)' = backoff(n)
  <1>1. policy' = policy /\ retryInterval' = retryInterval
    BY SMT DEF policy, DefaultRetryPolicy, retryInterval
  <1> QED
    BY <1>1 DEF NoWait, Delays, backoff

LEMMA Positive == BatchLimit \in Nat \ {0} /\ Grain \in Nat \ {0}
  BY ConstantsAssumption, SMT

\* The numbers of a state.
LEMMA Numbers ==
    ASSUME TypeOK
    PROVE  /\ environ \in Environments /\ now \in Nat
           /\ policy.MaxAttempts \in Int /\ policy.MaxBackoff \in Int
           /\ retryInterval \in {2000, 10000} /\ retryInterval \in Nat
           /\ \A n \in Nat : backoff(n) \in Int /\ backoff(n) <= policy.MaxBackoff
           /\ Delays => \A n \in Nat : /\ backoff(n) \in Nat /\ backoff(n) <= backoff(n + 1)
                                       /\ (backoff(n) = 0 <=> NoWait)
           /\ \A i \in DOMAIN retries :
                /\ retries[i] \in Row /\ retries[i].attempt \in Nat /\ retries[i].next \in Int
                /\ retries[i].updated \in Nat /\ retries[i].missed \in Nat
  <1>1. environ \in Environments /\ now \in Nat /\ \A i \in DOMAIN retries : retries[i] \in Row
    BY DEF TypeOK
  <1>2. /\ \A n \in Nat : backoff(n) \in Int /\ backoff(n) <= policy.MaxBackoff
        /\ Delays => \A n \in Nat : /\ backoff(n) \in Nat /\ backoff(n) <= backoff(n + 1)
                                    /\ (backoff(n) = 0 <=> NoWait)
    BY <1>1, Backoff DEF NoWait
  <1>3. /\ policy.MaxAttempts \in Int /\ policy.MaxBackoff \in Int
        /\ retryInterval \in {2000, 10000} /\ retryInterval \in Nat
    BY <1>1, PolicyType, SMT
  <1> QED
    BY <1>1, <1>2, <1>3, SMT DEF Row

\* The ticker has fired within the last interval.
LEMMA LastTickIs ==
    ASSUME ScheduleInvariant
    PROVE  LastTick \in Nat /\ LastTick <= now /\ now < LastTick + retryInterval
  <1>1. now \in Nat /\ now % Grain = 0 /\ retryInterval \in {2000, 10000}
    BY Numbers DEF ScheduleInvariant
  <1>2. PICK n \in Nat, p \in {2000, 10000} : n = now /\ p = retryInterval
    BY <1>1, SMT
  <1>3. n % p \in 0..(p - 1) /\ n - (n % p) \in Nat
    <2>1. p \in Nat \ {0}
      BY SMT
    <2>2. n \div p \in Nat /\ n % p \in 0..(p - 1) /\ n = p * (n \div p) + (n % p)
      BY <2>1, Division, SMT
    <2> QED
      BY <2>1, <2>2, SMT
  <1>4. LastTick = n - (n % p) /\ p \in Nat
    BY <1>2, SMT DEF LastTick
  <1>5. n - (n % p) <= n /\ n < n - (n % p) + p
    BY <1>3, <1>4, SMT
  <1> QED
    BY <1>2, <1>3, <1>4, <1>5, SMT

\* The table and any part of it are finite.
LEMMA FewRows ==
    ASSUME TypeOK, NEW S \in SUBSET (DOMAIN retries)
    PROVE  /\ IsFiniteSet(S) /\ Cardinality(S) \in Nat /\ Cardinality(S) <= Len(retries)
           /\ \A i \in DOMAIN retries \ S : Cardinality(S) <= Len(retries) - 1
  <1>1. DOMAIN retries = 1..Len(retries) /\ Len(retries) \in Nat
    BY DEF TypeOK
  <1>2. IsFiniteSet(DOMAIN retries) /\ Cardinality(DOMAIN retries) = Len(retries)
    BY <1>1, FS_Interval
  <1>3. IsFiniteSet(S) /\ Cardinality(S) \in Nat /\ Cardinality(S) <= Len(retries)
    BY <1>2, FS_Subset, FS_CardinalityType
  <1>4. ASSUME NEW i \in DOMAIN retries \ S PROVE Cardinality(S) <= Len(retries) - 1
    <2>1. Cardinality(S) # Cardinality(DOMAIN retries)
      BY <1>2, <1>4, FS_Subset
    <2> QED
      BY <1>1, <1>2, <1>3, <2>1
  <1> QED
    BY <1>3, <1>4

\* GetMaxRetryAttempt returns the attempt of a row of the event, or 0.
LEMMA MaxAttemptIn ==
    ASSUME TypeOK, NEW e
    PROVE  /\ MaxAttempt(e) \in Nat
           /\ MaxAttempt(e) > 0 =>
                \E i \in DOMAIN retries : retries[i].event = e /\ retries[i].attempt = MaxAttempt(e)
           /\ \A i \in DOMAIN retries : retries[i].event = e => retries[i].attempt <= MaxAttempt(e)
  <1> DEFINE S == {0} \cup {retries[i].attempt : i \in {j \in DOMAIN retries : retries[j].event = e}}
             b == IF policy.MaxAttempts + 1 > 0 THEN policy.MaxAttempts + 1 ELSE 0
  <1>2. b \in Nat /\ policy.MaxAttempts \in Int
    BY PolicyType DEF TypeOK
  <1>3. \A i \in DOMAIN retries : retries[i].attempt \in Nat
    BY Numbers
  <1>1. \A i \in DOMAIN retries : retries[i].attempt <= b
    <2>1. \A i \in DOMAIN retries : retries[i].attempt <= policy.MaxAttempts + 1
      BY DEF TypeOK
    <2> QED
      BY <1>2, <1>3, <2>1
  <1>4. S \in SUBSET Nat /\ S # {} /\ \A n \in S : n <= b
    BY <1>1, <1>2, <1>3
  <1>5. \E m \in S : \A n \in S : n <= m
    BY <1>2, <1>4, Maximum
  <1>6. MaxAttempt(e) \in S /\ \A n \in S : n <= MaxAttempt(e)
    BY <1>5 DEF MaxAttempt
  <1>7. MaxAttempt(e) \in Nat
    BY <1>4, <1>6
  <1>8. \A i \in DOMAIN retries : retries[i].event = e => retries[i].attempt \in S
    OBVIOUS
  <1>9. MaxAttempt(e) > 0 => MaxAttempt(e) \in S \ {0}
    BY <1>6, <1>7
  <1> HIDE DEF b
  <1> QED
    BY <1>6, <1>7, <1>8, <1>9

LEMMA InitHolds ==
    ASSUME Init PROVE ScheduleInvariant
  <1>1. now = 0 /\ retries = <<>> /\ environ \in Environments /\ dlq = {} /\ letters = 0
    BY DEF Init
  <1>3. 0 % Grain = 0
    BY Positive, SMT
  <1>4. DOMAIN retries = {} /\ retries \in Seq(Row)
    BY <1>1
  <1> QED
    BY <1>1, <1>3, <1>4 DEF ScheduleInvariant, TypeOK

\* A new row goes behind nobody who had to wait before.
LEMMA NewRowStep ==
    ASSUME ScheduleInvariant, NEW e \in Events \cup Nat, NEW a \in Nat, a < policy.MaxAttempts,
           retries' = Append(retries, [event |-> e, attempt |-> a + 1, next |-> now + backoff(a),
                                       updated |-> now, status |-> "pending", missed |-> 0]),
           UNCHANGED <<environ, now, dlq, letters>>
    PROVE  ScheduleInvariant'
  <1> DEFINE row == [event |-> e, attempt |-> a + 1, next |-> now + backoff(a),
                        updated |-> now, status |-> "pending", missed |-> 0]
  <1>k. PICK k : k = Len(retries) + 1
    OBVIOUS
  <1>1. /\ TypeOK /\ environ \in Environments /\ now \in Nat /\ retries \in Seq(Row)
        /\ now % Grain = 0 /\ \A i \in DOMAIN retries : RowInv(i)
    BY DEF ScheduleInvariant, TypeOK
  <1>2. /\ policy.MaxAttempts \in Int /\ policy.MaxBackoff \in Int /\ retryInterval \in Nat
        /\ backoff(a) \in Int /\ backoff(a) <= policy.MaxBackoff
        /\ Delays => backoff(a) \in Nat /\ (NoWait => backoff(a) = 0)
        /\ BatchLimit \in Nat
    BY <1>1, Numbers, Positive
  <1>3. /\ policy' = policy /\ retryInterval' = retryInterval
        /\ NoWait' = NoWait /\ Delays' = Delays
        /\ \A n : backoff(n)' = backoff(n)
    BY SamePolicy
  <1>4. row \in Row
    BY <1>1, <1>2 DEF Row
  <1>5. /\ retries' \in Seq(Row) /\ Len(retries') = Len(retries) + 1
        /\ DOMAIN retries' = DOMAIN retries \cup {k} /\ k \notin DOMAIN retries
        /\ \A i \in DOMAIN retries : retries'[i] = retries[i]
        /\ retries'[k] = row /\ Len(retries) \in Nat /\ DOMAIN retries = 1..Len(retries)
    BY <1>k, <1>1, <1>4
  <1> HIDE DEF row
  <1>6. TypeOK'
    <2>1. retries'[k].next - retries'[k].updated <= policy.MaxBackoff
      BY <1>1, <1>2, <1>5 DEF row
    <2>2. retries'[k].attempt <= policy.MaxAttempts + 1
      BY <1>2, <1>5 DEF row
    <2> QED
      BY <1>1, <1>3, <1>5, <2>1, <2>2 DEF TypeOK
  <1>7. LastTick' = LastTick /\ LastTick <= now /\ LastTick \in Nat
    BY <1>3, LastTickIs DEF LastTick
  <1>8. ASSUME NEW i \in DOMAIN retries PROVE RowInv(i)'
    <2>0. RowInv(i) /\ retries'[i] = retries[i] /\ retries[i] \in Row
      BY <1>1, <1>5
    <2> SUFFICES ASSUME retries[i].status = "pending", Delays PROVE Waiting(i)'
      BY <1>3, <2>0 DEF RowInv
    <2>1. Waiting(i)
      BY <2>0 DEF RowInv
    <2>2. Ahead(i)' \subseteq Ahead(i) \cup {k}
      BY <1>5, <2>0 DEF Ahead
    <2>3. IsFiniteSet(Ahead(i)) /\ Cardinality(Ahead(i)) \in Nat
      BY <1>1, FewRows DEF Ahead
    <2>4. /\ IsFiniteSet(Ahead(i) \cup {k})
          /\ Cardinality(Ahead(i) \cup {k}) <= Cardinality(Ahead(i)) + 1
      <3>1. IsFiniteSet(Ahead(i) \cup {k}) /\ Cardinality(Ahead(i) \cup {k})
                = IF k \in Ahead(i) THEN Cardinality(Ahead(i)) ELSE Cardinality(Ahead(i)) + 1
        BY <2>3, FS_AddElement
      <3> QED
        BY <2>3, <3>1
    <2>5. Cardinality(Ahead(i)') \in Nat /\ Cardinality(Ahead(i)') <= Cardinality(Ahead(i)) + 1
      <3>1. IsFiniteSet(Ahead(i)') /\ Cardinality(Ahead(i)') <= Cardinality(Ahead(i) \cup {k})
        BY <2>2, <2>4, FS_Subset
      <3> QED
        BY <2>3, <2>4, <3>1, FS_CardinalityType
    <2>6. retries[i].missed \in Nat /\ retries[i].missed * BatchLimit \in Nat
      BY <1>2, <2>0 DEF Row
    <2>7. (retries[i].missed * BatchLimit + Cardinality(Ahead(i)) <= Len(retries) - 1)'
      BY <1>5, <2>0, <2>1, <2>3, <2>5, <2>6 DEF Waiting
    <2> QED
      BY <1>3, <1>7, <2>0, <2>1, <2>7 DEF Waiting
  <1>9. RowInv(k)'
    <2> SUFFICES ASSUME Delays PROVE Waiting(k)'
      BY <1>1, <1>2, <1>3, <1>5 DEF RowInv, row
    <2>1. Ahead(k)' \in SUBSET (DOMAIN retries)
      BY <1>5 DEF Ahead
    <2>2. Cardinality(Ahead(k)') \in Nat /\ Cardinality(Ahead(k)') <= Len(retries)
      BY <1>1, <2>1, FewRows
    <2>3. (retries[k].missed * BatchLimit + Cardinality(Ahead(k)) <= Len(retries) - 1)'
      BY <1>2, <1>5, <2>2 DEF row
    <2>4. (LastTick - retries[k].next <= retries[k].missed * retryInterval)'
      BY <1>1, <1>2, <1>3, <1>5, <1>7 DEF row
    <2>5. (retries[k].next >= retries[k].updated + backoff(retries[k].attempt - 1))'
      <3>1. (a + 1) - 1 = a
        OBVIOUS
      <3> QED
        BY <1>1, <1>2, <1>3, <1>5, <3>1 DEF row
    <2> QED
      BY <1>1, <1>2, <1>3, <1>5, <2>3, <2>4, <2>5 DEF Waiting, row
  <1> QED
    BY <1>1, <1>5, <1>6, <1>8, <1>9 DEF ScheduleInvariant

\* The clock between two ticks and at a tick.
LEMMA ClockStep ==
    ASSUME ScheduleInvariant, now' = now + Grain, environ' = environ
    PROVE  /\ now' \in Nat /\ now < now' /\ now' % Grain = 0
           /\ now' % retryInterval = 0 => now' = LastTick + retryInterval /\ LastTick' = now'
           /\ now' % retryInterval # 0 => LastTick' = LastTick
  <1>1. now \in Nat /\ now % Grain = 0 /\ retryInterval \in {2000, 10000}
    BY Numbers DEF ScheduleInvariant
  <1>2. PICK n \in Nat, p \in {2000, 10000} : n = now /\ p = retryInterval
    BY <1>1, SMT
  <1>3. PICK g \in Nat \ {0} : g = Grain
    BY Positive, SMT
  <1>4. n % g = 0 /\ now' = n + g /\ retryInterval' = p
    BY <1>1, <1>2, <1>3, SamePolicy, SMT
  <1>5. LastTick = n - (n % p) /\ LastTick' = (n + g) - ((n + g) % p)
    BY <1>2, <1>4, SMT DEF LastTick
  <1>6. TickFacts(n, g, p)
    BY <1>3, <1>4, TickTime, SMT
  <1>7. /\ n + g \in Nat /\ (n + g) % g = 0
        /\ (n + g) % p = 0 => n + g = (n - (n % p)) + p
        /\ (n + g) % p # 0 => (n + g) - ((n + g) % p) = n - (n % p)
    BY <1>6 DEF TickFacts
  <1>8. n < n + g /\ ((n + g) % p = 0 => (n + g) - ((n + g) % p) = n + g)
    BY SMT
  <1> QED
    BY <1>2, <1>3, <1>4, <1>5, <1>7, <1>8, SMT

\* Between two ticks nothing but the clock moves.
LEMMA QuietStep ==
    ASSUME ScheduleInvariant, now' = now + Grain, now' % retryInterval # 0,
           UNCHANGED <<environ, retries, dlq, letters>>
    PROVE  ScheduleInvariant'
  <1>1. now' \in Nat /\ now < now' /\ now' % Grain = 0 /\ LastTick' = LastTick
    BY ClockStep
  <1>2. /\ policy' = policy /\ retryInterval' = retryInterval
        /\ NoWait' = NoWait /\ Delays' = Delays
        /\ \A n : backoff(n)' = backoff(n)
    BY SamePolicy
  <1>3. TypeOK /\ now \in Nat /\ \A i \in DOMAIN retries : RowInv(i)
    BY DEF ScheduleInvariant, TypeOK
  <1>4. TypeOK'
    BY <1>1, <1>2, <1>3 DEF TypeOK
  <1>5. ASSUME NEW i \in DOMAIN retries PROVE RowInv(i)'
    <2>1. RowInv(i) /\ retries[i].next \in Int /\ retries[i].updated \in Nat
      BY <1>3, Numbers
    <2>2. Ahead(i)' = Ahead(i)
      BY DEF Ahead
    <2> QED
      BY <1>1, <1>2, <1>3, <2>1, <2>2 DEF RowInv, Waiting
  <1> QED
    BY <1>1, <1>4, <1>5 DEF ScheduleInvariant

\* What a tick at t that selects batch does to the rows.
Fired(t, batch) ==
    /\ DOMAIN retries' = DOMAIN retries
    /\ batch \subseteq Due(t)
    /\ Cardinality(batch) = Lesser(BatchLimit, Cardinality(Due(t)))
    /\ \A i \in batch, j \in Due(t) \ batch : retries[i].next <= retries[j].next
    /\ \A i \in DOMAIN retries :
        /\ i \in batch => retries'[i] = Retried(retries[i], t)
        /\ i \in Due(t) \ batch => retries'[i] = [retries[i] EXCEPT !.missed = @ + 1]
        /\ i \notin Due(t) => retries'[i] = retries[i]

LEMMA FiredBy ==
    ASSUME NEW t, ProcessPending(t)
    PROVE  \E batch : /\ Fired(t, batch)
                      /\ retries' = [i \in DOMAIN retries |-> retries'[i]]
                      /\ dlq' = dlq \cup {<<retries[i].event, retries[i].attempt + 1>> :
                            i \in {j \in batch : retries[j].attempt + 1 >= policy.MaxAttempts}}
                      /\ letters' = letters + Cardinality(
                            {j \in batch : retries[j].attempt + 1 >= policy.MaxAttempts})
  <1>1. PICK batch \in PendingRetries(t) :
            /\ retries' = [i \in DOMAIN retries |->
                    IF i \in batch THEN Retried(retries[i], t)
                    ELSE IF i \in Due(t) THEN [retries[i] EXCEPT !.missed = @ + 1]
                    ELSE retries[i]]
            /\ dlq' = dlq \cup {<<retries[i].event, retries[i].attempt + 1>> :
                            i \in {j \in batch : retries[j].attempt + 1 >= policy.MaxAttempts}}
            /\ letters' = letters + Cardinality(
                            {j \in batch : retries[j].attempt + 1 >= policy.MaxAttempts})
    BY DEF ProcessPending
  <1>2. Fired(t, batch)
    BY <1>1 DEF Fired, PendingRetries
  <1>3. retries' = [i \in DOMAIN retries |-> retries'[i]]
    BY <1>1
  <1> QED
    BY <1>1, <1>2, <1>3

\* Row by row: a selected row is given up or waits anew.
LEMMA FiredRow ==
    ASSUME TypeOK, NEW t \in Nat, NEW batch, Fired(t, batch), NEW i \in DOMAIN retries
    PROVE  /\ retries'[i] \in Row
           /\ retries'[i].event = retries[i].event
           /\ i \in Due(t) => retries[i].status = "pending" /\ retries[i].next <= t
           /\ i \notin Due(t) /\ retries[i].status = "pending" => retries[i].next > t
           /\ i \in batch => retries'[i].attempt = retries[i].attempt + 1 /\ retries'[i].updated = t
           /\ i \in batch /\ retries[i].attempt + 1 >= policy.MaxAttempts =>
                retries'[i].status = "failed" /\ retries'[i].next = retries[i].next
           /\ i \in batch /\ retries[i].attempt + 1 < policy.MaxAttempts =>
                /\ retries'[i].status = "pending" /\ retries'[i].missed = 0
                /\ retries'[i].next = t + backoff(retries[i].attempt + 1)
           /\ i \notin batch =>
                /\ retries'[i].attempt = retries[i].attempt /\ retries'[i].status = retries[i].status
                /\ retries'[i].next = retries[i].next /\ retries'[i].updated = retries[i].updated
           /\ i \in Due(t) \ batch => retries'[i].missed = retries[i].missed + 1
           /\ i \notin Due(t) => retries'[i].missed = retries[i].missed
  <1> DEFINE r == retries[i]
  <1>1. r \in Row /\ policy.MaxAttempts \in Int /\ \A n \in Nat : backoff(n) \in Int
    BY Numbers
  <1>2. /\ r = [event |-> r.event, attempt |-> r.attempt, next |-> r.next, updated |-> r.updated,
                status |-> r.status, missed |-> r.missed]
        /\ r.event \in Events \cup Nat /\ r.attempt \in Nat /\ r.next \in Int /\ r.updated \in Nat
        /\ r.status \in {"pending", "failed"} /\ r.missed \in Nat
    BY <1>1 DEF Row
  <1>3. batch \subseteq Due(t)
    BY DEF Fired
  <1>4. /\ i \in Due(t) => r.status = "pending" /\ r.next <= t
        /\ i \notin Due(t) /\ r.status = "pending" => r.next > t
    BY <1>2 DEF Due
  <1>5. CASE i \in batch
    <2>1. retries'[i] = Retried(r, t)
      BY <1>5 DEF Fired
    <2>2. CASE r.attempt + 1 >= policy.MaxAttempts
      <3>1. retries'[i] = [event |-> r.event, attempt |-> r.attempt + 1, next |-> r.next,
                           updated |-> t, status |-> "failed", missed |-> r.missed]
        BY <1>1, <1>2, <2>1, <2>2 DEF Retried, Row
      <3> QED
        BY <1>1, <1>2, <1>3, <1>4, <1>5, <2>2, <3>1 DEF Row
    <2>3. CASE r.attempt + 1 < policy.MaxAttempts
      <3>0. retries'[i] = [r EXCEPT !.attempt = @ + 1, !.updated = t, !.missed = 0,
                                    !.next = t + backoff(r.attempt + 1)]
        BY <1>1, <1>2, <2>1, <2>3 DEF Retried
      <3>1. retries'[i] = [event |-> r.event, attempt |-> r.attempt + 1,
                           next |-> t + backoff(r.attempt + 1),
                           updated |-> t, status |-> r.status, missed |-> 0]
        BY <1>1, <3>0 DEF Row
      <3>2. r.attempt + 1 \in Nat /\ t + backoff(r.attempt + 1) \in Int
        BY <1>1, <1>2
      <3> QED
        BY <1>1, <1>2, <1>3, <1>4, <1>5, <2>3, <3>1, <3>2 DEF Row
    <2> QED
      BY <1>1, <1>2, <2>2, <2>3
  <1>6. CASE i \in Due(t) \ batch
    <2>1. retries'[i] = [r EXCEPT !.missed = @ + 1]
      BY <1>6 DEF Fired
    <2>2. retries'[i] = [event |-> r.event, attempt |-> r.attempt, next |-> r.next,
                         updated |-> r.updated, status |-> r.status, missed |-> r.missed + 1]
      BY <1>1, <1>2, <2>1 DEF Row
    <2> QED
      BY <1>2, <1>4, <1>6, <2>2 DEF Row
  <1>7. CASE i \notin Due(t)
    <2>1. retries'[i] = r
      BY <1>7 DEF Fired
    <2> QED
      BY <1>1, <1>3, <1>4, <1>7, <2>1
  <1> QED
    BY <1>3, <1>5, <1>6, <1>7

\* A tick takes rows from the front of the queue and puts them at its end, so that
\* a row which has to wait has BatchLimit rows fewer ahead of it.
LEMMA FireStep ==
    ASSUME ScheduleInvariant, now' = now + Grain, now' % retryInterval = 0,
           UNCHANGED environ, ProcessPending(now')
    PROVE  ScheduleInvariant'
  <1>t. PICK t \in Nat : t = now'
    BY ClockStep
  <1>1. /\ now < t /\ t % Grain = 0 /\ t = LastTick + retryInterval /\ LastTick' = t
        /\ LastTick \in Nat /\ now \in Nat /\ retryInterval \in Nat
    BY <1>t, ClockStep, LastTickIs, Numbers DEF ScheduleInvariant
  <1>2. /\ policy' = policy /\ retryInterval' = retryInterval
        /\ NoWait' = NoWait /\ Delays' = Delays
        /\ \A n : backoff(n)' = backoff(n)
    BY SamePolicy
  <1>3. TypeOK /\ \A i \in DOMAIN retries : RowInv(i)
    BY DEF ScheduleInvariant
  <1>4. /\ policy.MaxAttempts \in Int /\ policy.MaxBackoff \in Int /\ BatchLimit \in Nat \ {0}
        /\ \A n \in Nat : backoff(n) \in Int /\ backoff(n) <= policy.MaxBackoff
        /\ Delays => \A n \in Nat : /\ backoff(n) \in Nat /\ backoff(n) <= backoff(n + 1)
                                    /\ (backoff(n) = 0 <=> NoWait)
        /\ \A i \in DOMAIN retries :
             /\ retries[i] \in Row /\ retries[i].attempt \in Nat /\ retries[i].next \in Int
             /\ retries[i].updated \in Nat /\ retries[i].missed \in Nat
    BY <1>3, Numbers, Positive
  <1>5. PICK batch : /\ Fired(t, batch)
                     /\ retries' = [i \in DOMAIN retries |-> retries'[i]]
                     /\ dlq' = dlq \cup {<<retries[i].event, retries[i].attempt + 1>> :
                            i \in {j \in batch : retries[j].attempt + 1 >= policy.MaxAttempts}}
                     /\ letters' = letters + Cardinality(
                            {j \in batch : retries[j].attempt + 1 >= policy.MaxAttempts})
    BY <1>t, FiredBy
  <1>6. batch \subseteq Due(t) /\ Due(t) \subseteq DOMAIN retries
    BY <1>5 DEF Fired, Due
  <1>7. /\ retries' \in Seq(Row) /\ Len(retries') = Len(retries) /\ DOMAIN retries' = DOMAIN retries
        /\ Len(retries) \in Nat
    <2>1. retries \in Seq(Row) /\ DOMAIN retries = 1..Len(retries) /\ Len(retries) \in Nat
      BY <1>3 DEF TypeOK
    <2>2. \A i \in 1..Len(retries) : retries'[i] \in Row
      BY <1>3, <1>5, <2>1, FiredRow
    <2>3. retries' = [i \in 1..Len(retries) |-> retries'[i]]
      BY <1>5, <2>1
    <2> QED
      BY <2>1, <2>2, <2>3
  <1>8. \A i \in batch : retries'[i].status = "pending" =>
            /\ retries'[i].next = t + backoff(retries[i].attempt + 1)
            /\ Delays => retries'[i].next >= t
    BY <1>3, <1>4, <1>5, <1>6, FiredRow
  <1>9. ASSUME NEW i \in DOMAIN retries
        PROVE  /\ (retries[i].next - retries[i].updated <= policy.MaxBackoff)'
               /\ (retries[i].attempt <= policy.MaxAttempts + 1)'
    <2>1. /\ retries[i].next - retries[i].updated <= policy.MaxBackoff
          /\ retries[i].attempt <= policy.MaxAttempts + 1
          /\ retries[i].status = "pending" => retries[i].attempt <= policy.MaxAttempts
          /\ retries[i].updated <= now
      BY <1>3 DEF TypeOK, RowInv
    <2>2. CASE i \in batch
      <3>1. /\ retries'[i].attempt = retries[i].attempt + 1 /\ retries'[i].updated = t
            /\ retries[i].status = "pending" /\ retries[i].next <= t
            /\ \/ retries'[i].next = retries[i].next
               \/ retries'[i].next = t + backoff(retries[i].attempt + 1)
        BY <1>3, <1>4, <1>5, <1>6, <2>2, FiredRow
      <3> QED
        BY <1>1, <1>2, <1>4, <2>1, <3>1
    <2>3. CASE i \notin batch
      BY <1>2, <1>3, <1>5, <2>1, <2>3, FiredRow
    <2> QED
      BY <2>2, <2>3
  <1>10. TypeOK'
    <2>1. dlq' \subseteq (Events \cup Nat) \X Nat
      <3>1. \A i \in batch : retries[i].event \in Events \cup Nat /\ retries[i].attempt + 1 \in Nat
        BY <1>4, <1>6 DEF Row
      <3> QED
        BY <1>3, <1>5, <3>1 DEF TypeOK
    <2>2. letters' \in Nat
      <3>1. {j \in batch : retries[j].attempt + 1 >= policy.MaxAttempts} \in SUBSET (DOMAIN retries)
        BY <1>6
      <3>2. Cardinality({j \in batch : retries[j].attempt + 1 >= policy.MaxAttempts}) \in Nat
        BY <1>3, <3>1, FewRows
      <3> QED
        BY <1>3, <1>5, <3>2 DEF TypeOK
    <2> QED
      BY <1>t, <1>3, <1>7, <1>9, <2>1, <2>2 DEF TypeOK
  <1>11. ASSUME NEW i \in DOMAIN retries, retries'[i].status = "pending", Delays PROVE Waiting(i)'
    <2>0. /\ retries[i].attempt \in Nat /\ retries[i].next \in Int /\ retries[i].updated \in Nat
          /\ retries[i].missed \in Nat /\ BatchLimit \in Nat
      BY <1>4
    <2>d. \A n \in Nat : /\ backoff(n) \in Nat /\ backoff(n) <= backoff(n + 1)
                         /\ (backoff(n) = 0 <=> NoWait)
      BY <1>4, <1>11
    <2>1. CASE i \in batch
      <3>1. /\ retries[i].attempt + 1 < policy.MaxAttempts /\ retries'[i].missed = 0
            /\ retries'[i].attempt = retries[i].attempt + 1 /\ retries'[i].updated = t
            /\ retries'[i].next = t + backoff(retries[i].attempt + 1)
        BY <1>3, <1>4, <1>5, <1>11, <2>1, FiredRow
      <3>2. Ahead(i)' \in SUBSET (DOMAIN retries) /\ i \notin Ahead(i)'
        BY <1>7 DEF Ahead
      <3>3. Cardinality(Ahead(i)') \in Nat /\ Cardinality(Ahead(i)') <= Len(retries) - 1
        BY <1>3, <3>2, FewRows
      <3>4. retries'[i].next >= t + backoff(retries'[i].attempt - 1)
        <4>1. (retries[i].attempt + 1) - 1 = retries[i].attempt
          BY <1>4
        <4> QED
          BY <1>4, <2>d, <3>1, <4>1
      <3>5. retries'[i].next \in Nat /\ retries'[i].next >= t /\ (NoWait => retries'[i].next = t)
        <4>1. retries[i].attempt + 1 \in Nat
          BY <2>0
        <4>2. PICK d \in Nat : d = backoff(retries[i].attempt + 1) /\ (NoWait => d = 0)
          BY <2>d, <4>1
        <4> QED
          BY <3>1, <4>2
      <3>6. (retries[i].next >= retries[i].updated + backoff(retries[i].attempt - 1))'
        BY <1>2, <3>1, <3>4
      <3>7. (NoWait => retries[i].next <= now)'
        BY <1>t, <1>2, <1>4, <2>0, <3>1, <3>5
      <3>8. (retries[i].missed * BatchLimit + Cardinality(Ahead(i)) <= Len(retries) - 1)'
        BY <1>7, <2>0, <3>1, <3>3
      <3>9. (LastTick - retries[i].next <= retries[i].missed * retryInterval)'
        BY <1>1, <1>2, <3>1, <3>5
      <3> QED
        BY <3>6, <3>7, <3>8, <3>9 DEF Waiting
    <2>2. ASSUME i \notin batch
          PROVE  /\ retries'[i].attempt = retries[i].attempt /\ retries'[i].next = retries[i].next
                 /\ retries'[i].updated = retries[i].updated /\ retries[i].status = "pending"
                 /\ Waiting(i) /\ Ahead(i)' \subseteq Ahead(i)
                 /\ IsFiniteSet(Ahead(i)) /\ Cardinality(Ahead(i)) \in Nat
                 /\ (retries[i].next >= retries[i].updated + backoff(retries[i].attempt - 1))'
                 /\ (NoWait => retries[i].next <= now)'
      <3>1. /\ retries'[i].attempt = retries[i].attempt /\ retries'[i].next = retries[i].next
            /\ retries'[i].updated = retries[i].updated /\ retries[i].status = "pending"
        BY <1>3, <1>5, <1>11, <2>2, FiredRow
      <3>2. Waiting(i)
        BY <1>3, <1>11, <3>1 DEF RowInv
      <3>3. ASSUME NEW j \in Ahead(i)' PROVE j \in Ahead(i)
        <4>1. /\ j \in DOMAIN retries \ {i} /\ retries'[j].status = "pending"
              /\ retries'[j].next <= retries[i].next
          BY <1>7, <3>1, <3>3 DEF Ahead
        <4>2. CASE j \notin batch
          BY <1>3, <1>5, <4>1, <4>2, FiredRow DEF Ahead
        <4>3. CASE j \in batch
          <5>1. retries[j].status = "pending" /\ retries[j].next <= t /\ t <= retries'[j].next
            BY <1>3, <1>5, <1>6, <1>8, <1>11, <4>1, <4>3, FiredRow
          <5>2. retries'[j].next \in Int
            BY <1>4, <1>8, <4>1, <4>3
          <5> QED
            BY <1>4, <4>1, <5>1, <5>2 DEF Ahead
        <4> QED
          BY <4>2, <4>3
      <3>4. IsFiniteSet(Ahead(i)) /\ Cardinality(Ahead(i)) \in Nat
        BY <1>3, FewRows DEF Ahead
      <3>6. (retries[i].next >= retries[i].updated + backoff(retries[i].attempt - 1))'
        BY <1>2, <3>1, <3>2 DEF Waiting
      <3>7. (NoWait => retries[i].next <= now)'
        BY <1>t, <1>1, <1>2, <2>0, <3>1, <3>2 DEF Waiting
      <3> QED
        BY <3>1, <3>2, <3>3, <3>4, <3>6, <3>7
    <2>3. CASE i \notin Due(t)
      <3>1. i \notin batch /\ retries'[i].missed = retries[i].missed /\ retries[i].next > t
        BY <1>3, <1>5, <1>6, <2>2, <2>3, FiredRow
      <3>2. IsFiniteSet(Ahead(i)') /\ Cardinality(Ahead(i)') <= Cardinality(Ahead(i))
        BY <2>2, <3>1, FS_Subset
      <3>3. Cardinality(Ahead(i)') \in Nat
        BY <3>2, FS_CardinalityType
      <3>4. retries[i].missed * BatchLimit \in Nat /\ retries[i].missed * retryInterval \in Nat
        BY <1>1, <1>4
      <3>5. (retries[i].missed * BatchLimit + Cardinality(Ahead(i)) <= Len(retries) - 1)'
        BY <1>7, <2>2, <3>1, <3>2, <3>3, <3>4 DEF Waiting
      <3>6. (LastTick - retries[i].next <= retries[i].missed * retryInterval)'
        BY <1>1, <1>2, <1>4, <2>2, <3>1, <3>4
      <3> QED
        BY <2>2, <3>1, <3>5, <3>6 DEF Waiting
    <2>4. CASE i \in Due(t) \ batch
      <3>1. i \notin batch /\ retries'[i].missed = retries[i].missed + 1 /\ retries[i].next <= t
        BY <1>3, <1>5, <2>4, FiredRow
      <3>2. NoWait => retries[i].next < t
        BY <1>1, <2>0, <2>2, <3>1 DEF Waiting
      <3>3. Cardinality(batch) = BatchLimit
        <4>1. IsFiniteSet(Due(t)) /\ Cardinality(Due(t)) \in Nat
          BY <1>3, <1>6, FewRows
        <4>2. Cardinality(batch) # Cardinality(Due(t))
          BY <1>6, <2>4, <4>1, FS_Subset
        <4> QED
          BY <1>5, <4>2 DEF Fired, Lesser
      <3>4. batch \subseteq Ahead(i)
        BY <1>3, <1>5, <1>6, <2>4, FiredRow DEF Fired, Ahead
      <3>5. ASSUME NEW j \in batch, j \in Ahead(i)' PROVE FALSE
        <4>1. /\ retries'[j].next <= retries[i].next
              /\ retries'[j].next = t + backoff(retries[j].attempt + 1)
          BY <1>8, <2>2, <3>1, <3>5 DEF Ahead
        <4>2. retries[j].attempt + 1 \in Nat
          BY <1>4, <1>6
        <4>3. PICK d \in Nat : d = backoff(retries[j].attempt + 1) /\ (d = 0 => NoWait)
          BY <2>d, <4>2
        <4> QED
          BY <2>0, <3>1, <3>2, <4>1, <4>3
      <3>6. Ahead(i)' \subseteq Ahead(i) \ batch
        BY <2>2, <3>1, <3>5
      <3>7. /\ IsFiniteSet(Ahead(i) \ batch)
            /\ Cardinality(Ahead(i) \ batch) = Cardinality(Ahead(i)) - BatchLimit
        <4>1. Ahead(i) \cap batch = batch
          BY <3>4
        <4>2. IsFiniteSet(Ahead(i))
          BY <2>2, <3>1
        <4>3. /\ IsFiniteSet(Ahead(i) \ batch)
              /\ Cardinality(Ahead(i) \ batch) = Cardinality(Ahead(i)) - Cardinality(Ahead(i) \cap batch)
          BY <4>2, FS_Difference
        <4> QED
          BY <3>3, <4>1, <4>3
      <3>8. IsFiniteSet(Ahead(i)') /\ Cardinality(Ahead(i)') <= Cardinality(Ahead(i) \ batch)
        BY <3>6, <3>7, FS_Subset
      <3>9. Cardinality(Ahead(i)') \in Nat /\ Cardinality(Ahead(i)') <= Cardinality(Ahead(i)) - BatchLimit
        BY <3>7, <3>8, FS_CardinalityType
      <3>10. PICK m \in Nat, b \in Nat, p \in Nat, c \in Nat :
                /\ m = retries[i].missed /\ b = BatchLimit /\ p = retryInterval
                /\ c = Cardinality(Ahead(i))
        BY <1>1, <2>0, <2>2, <3>1
      <3>11. PICK x \in Nat, y \in Nat :
                x = m * b /\ y = m * p /\ (m + 1) * b = x + b /\ (m + 1) * p = y + p
        OBVIOUS
      <3>12. x + c <= Len(retries) - 1 /\ LastTick - retries[i].next <= y
        BY <2>2, <3>1, <3>10, <3>11 DEF Waiting
      <3>13. (retries[i].missed * BatchLimit + Cardinality(Ahead(i)) <= Len(retries) - 1)'
        <4>1. retries'[i].missed * BatchLimit = x + b
          BY <3>1, <3>10, <3>11
        <4>2. PICK d \in Nat : d = Cardinality(Ahead(i)') /\ d <= c - b
          BY <3>9, <3>10
        <4>3. (x + b) + d <= Len(retries) - 1
          BY <1>7, <3>12, <4>2
        <4> QED
          BY <1>7, <4>1, <4>2, <4>3
      <3>14. (LastTick - retries[i].next <= retries[i].missed * retryInterval)'
        <4>1. retries'[i].missed * retryInterval = y + p
          BY <3>1, <3>10, <3>11
        <4>2. t = LastTick + p
          BY <1>1, <3>10
        <4>a. LastTick \in Nat /\ retries[i].next \in Int
          BY <2>0, LastTickIs
        <4>b. PICK l \in Nat, n \in Int : l = LastTick /\ n = retries[i].next
          BY <4>a
        <4>c. t = l + p /\ l - n <= y
          BY <3>12, <4>2, <4>b
        <4>3. t - retries[i].next <= y + p
          <5>1. t - n <= y + p
            BY <4>c
          <5> QED
            BY <4>b, <5>1
        <4>4. retries'[i].next = retries[i].next
          BY <2>2, <3>1
        <4> QED
          BY <1>1, <1>2, <4>1, <4>3, <4>4
      <3> QED
        BY <2>2, <3>1, <3>13, <3>14 DEF Waiting
    <2> QED
      BY <1>6, <2>1, <2>3, <2>4
  <1>12. ASSUME NEW i \in DOMAIN retries
         PROVE  (retries[i].attempt >= 1 /\ retries[i].updated <= now)'
    <2>1. retries[i].attempt >= 1 /\ retries[i].updated <= now
      BY <1>3 DEF RowInv
    <2> QED
      BY <1>t, <1>1, <1>3, <1>4, <1>5, <2>1, FiredRow
  <1>13. ASSUME NEW i \in DOMAIN retries, retries'[i].status = "pending"
         PROVE  (retries[i].attempt <= policy.MaxAttempts)'
    <2>1. retries[i].attempt \in Nat /\ policy.MaxAttempts \in Int
      BY <1>4
    <2>2. CASE i \in batch
      <3>1. retries'[i].attempt = retries[i].attempt + 1 /\ retries[i].attempt + 1 < policy.MaxAttempts
        BY <1>3, <1>5, <1>13, <2>1, <2>2, FiredRow
      <3> QED
        BY <1>2, <2>1, <3>1
    <2>3. CASE i \notin batch
      <3>1. retries'[i].attempt = retries[i].attempt /\ retries[i].status = "pending"
        BY <1>3, <1>5, <1>13, <2>3, FiredRow
      <3> QED
        BY <1>2, <1>3, <3>1 DEF RowInv
    <2> QED
      BY <2>2, <2>3
  <1> QED
    BY <1>t, <1>1, <1>2, <1>7, <1>10, <1>11, <1>12, <1>13 DEF ScheduleInvariant, RowInv

\* Every step of the engine keeps the invariant.
LEMMA EngineNext ==
    ASSUME ScheduleInvariant, EngineStep \/ UNCHANGED vars
    PROVE  ScheduleInvariant'
  <1>1. CASE Tick
    BY <1>1, QuietStep, FireStep DEF Tick
  <1>2. ASSUME NEW e \in Events \cup Nat, Schedule(e) PROVE ScheduleInvariant'
    <2>1. MaxAttempt(e) \in Nat /\ policy.MaxAttempts \in Int
      BY MaxAttemptIn, Numbers DEF ScheduleInvariant
    <2>2. CASE MaxAttempt(e) >= policy.MaxAttempts
      <3>1. /\ dlq' = dlq \cup {<<e, MaxAttempt(e)>>} /\ letters' = letters + 1
            /\ UNCHANGED <<retries, environ, now>>
        BY <1>2, <2>2 DEF Schedule
      <3>2. /\ policy' = policy /\ retryInterval' = retryInterval
            /\ NoWait' = NoWait /\ Delays' = Delays
            /\ \A n : backoff(n)' = backoff(n)
        BY <3>1, SamePolicy
      <3>3. TypeOK'
        BY <2>1, <3>1, <3>2 DEF ScheduleInvariant, TypeOK
      <3>4. LastTick' = LastTick /\ \A i : Ahead(i)' = Ahead(i)
        BY <3>1, <3>2 DEF LastTick, Ahead
      <3>5. \A i \in DOMAIN retries : RowInv(i)'
        BY <3>1, <3>2, <3>4 DEF ScheduleInvariant, RowInv, Waiting
      <3> QED
        BY <3>1, <3>3, <3>5 DEF ScheduleInvariant
    <2>3. CASE MaxAttempt(e) < policy.MaxAttempts
      BY <1>2, <2>1, <2>3, NewRowStep DEF Schedule
    <2> QED
      BY <2>1, <2>2, <2>3
  <1>3. CASE UNCHANGED vars
    <2>1. /\ policy' = policy /\ retryInterval' = retryInterval
          /\ NoWait' = NoWait /\ Delays' = Delays
          /\ \A n : backoff(n)' = backoff(n)
      BY <1>3, SamePolicy DEF vars
    <2>2. LastTick' = LastTick /\ \A i : Ahead(i)' = Ahead(i)
      BY <1>3, <2>1 DEF vars, LastTick, Ahead
    <2> QED
      BY <1>3, <2>1, <2>2 DEF vars, ScheduleInvariant, TypeOK, RowInv, Waiting
  <1> QED
    BY <1>1, <1>2, <1>3 DEF EngineStep

\* What a step of the engine may do to a row: nothing, or a retry at a tick, which
\* gives the row up or makes it wait anew.
LEMMA RowMoves ==
    ASSUME ScheduleInvariant, EngineStep \/ UNCHANGED vars, NEW i \in DOMAIN retries
    PROVE  /\ i \in DOMAIN retries' /\ retries'[i].event = retries[i].event
           /\ \/ /\ retries'[i].attempt = retries[i].attempt
                 /\ retries'[i].status = retries[i].status /\ retries'[i].next = retries[i].next
              \/ /\ retries[i].status = "pending" /\ retries[i].next <= now'
                 /\ now' = LastTick + retryInterval
                 /\ retries'[i].attempt = retries[i].attempt + 1
                 /\ retries[i].attempt + 1 >= policy.MaxAttempts =>
                        <<retries[i].event, retries[i].attempt + 1>> \in dlq'
                 /\ retries[i].attempt + 1 < policy.MaxAttempts =>
                        /\ retries'[i].status = "pending"
                        /\ retries'[i].next = now' + backoff(retries[i].attempt + 1)
  <1>1. CASE Tick /\ now' % retryInterval = 0
    <2>1. now' = now + Grain /\ environ' = environ /\ ProcessPending(now')
      BY <1>1 DEF Tick
    <2>2. PICK t \in Nat : t = now' /\ t = LastTick + retryInterval
      BY <1>1, <2>1, ClockStep
    <2>3. PICK batch : /\ Fired(t, batch)
                       /\ dlq' = dlq \cup {<<retries[j].event, retries[j].attempt + 1>> :
                            j \in {k \in batch : retries[k].attempt + 1 >= policy.MaxAttempts}}
      BY <2>1, <2>2, FiredBy
    <2>4. TypeOK /\ retries[i].attempt \in Nat /\ policy.MaxAttempts \in Int
      BY Numbers DEF ScheduleInvariant
    <2>5. i \in DOMAIN retries' /\ retries'[i].event = retries[i].event
      BY <2>3, <2>4, FiredRow DEF Fired
    <2>6. CASE i \notin batch
      BY <2>3, <2>4, <2>5, <2>6, FiredRow
    <2>7. CASE i \in batch
      <3>1. i \in Due(t)
        BY <2>3, <2>7 DEF Fired
      <3>2. /\ retries[i].status = "pending" /\ retries[i].next <= t
            /\ retries'[i].attempt = retries[i].attempt + 1
            /\ retries[i].attempt + 1 < policy.MaxAttempts =>
                   /\ retries'[i].status = "pending"
                   /\ retries'[i].next = t + backoff(retries[i].attempt + 1)
        BY <2>3, <2>4, <2>7, <3>1, FiredRow
      <3>3. retries[i].attempt + 1 >= policy.MaxAttempts =>
                <<retries[i].event, retries[i].attempt + 1>> \in dlq'
        BY <2>3, <2>7
      <3> QED
        BY <2>2, <2>5, <3>2, <3>3
    <2> QED
      BY <2>6, <2>7
  <1>2. CASE (Tick /\ now' % retryInterval # 0) \/ UNCHANGED vars
    BY <1>2 DEF Tick, vars
  <1>3. ASSUME NEW e \in Events \cup Nat, Schedule(e)
        PROVE  i \in DOMAIN retries' /\ retries'[i] = retries[i]
    <2>1. retries \in Seq(Row)
      BY DEF ScheduleInvariant, TypeOK
    <2>2. CASE UNCHANGED retries
      BY <2>2
    <2>3. ASSUME NEW r \in Row, retries' = Append(retries, r)
          PROVE  i \in DOMAIN retries' /\ retries'[i] = retries[i]
      BY <2>1, <2>3
    <2>4. MaxAttempt(e) \in Nat /\ policy.MaxAttempts \in Int
      BY MaxAttemptIn, Numbers DEF ScheduleInvariant
    <2>5. now + backoff(MaxAttempt(e)) \in Int /\ now \in Nat
      BY <2>4, Numbers DEF ScheduleInvariant
    <2>6. [event |-> e, attempt |-> MaxAttempt(e) + 1, next |-> now + backoff(MaxAttempt(e)),
           updated |-> now, status |-> "pending", missed |-> 0] \in Row
      BY <2>4, <2>5 DEF Row
    <2> QED
      BY <1>3, <2>2, <2>3, <2>6 DEF Schedule
  <1> QED
    BY <1>1, <1>2, <1>3 DEF EngineStep

\* The clock and the tables only grow.
LEMMA EngineGrows ==
    ASSUME ScheduleInvariant, EngineStep \/ UNCHANGED vars
    PROVE  /\ environ' = environ /\ now' \in Nat /\ now <= now' /\ dlq \subseteq dlq'
           /\ Len(retries) <= Len(retries') /\ letters <= letters'
  <1>0. ScheduleInvariant'
    BY EngineNext
  <1>1. /\ retries \in Seq(Row) /\ retries' \in Seq(Row) /\ now \in Nat /\ now' \in Nat
    BY <1>0 DEF ScheduleInvariant, TypeOK
  <1>2. DOMAIN retries \subseteq DOMAIN retries'
    BY RowMoves
  <1>3. Len(retries) <= Len(retries')
    <2>1. /\ Len(retries) \in Nat /\ Len(retries') \in Nat
          /\ DOMAIN retries = 1..Len(retries) /\ DOMAIN retries' = 1..Len(retries')
      BY <1>1
    <2>2. Len(retries) > 0 => Len(retries) \in DOMAIN retries
      BY <2>1
    <2> QED
      BY <1>2, <2>1, <2>2
  <1>4. environ' = environ /\ now <= now' /\ dlq \subseteq dlq'
    <2>1. CASE Tick
      <3>1. environ' = environ /\ now' = now + Grain
        BY <2>1 DEF Tick
      <3>2. dlq \subseteq dlq'
        BY <2>1 DEF Tick, ProcessPending
      <3> QED
        BY <3>1, <3>2, <1>1, Positive
    <2>2. ASSUME NEW e \in Events \cup Nat, Schedule(e)
          PROVE  environ' = environ /\ now' = now /\ dlq \subseteq dlq'
      BY <2>2 DEF Schedule
    <2>3. CASE UNCHANGED vars
      BY <1>1, <2>3 DEF vars
    <2> QED
      BY <1>1, <2>1, <2>2, <2>3 DEF EngineStep
  <1>5. letters <= letters'
    <2>0. letters \in Nat /\ letters' \in Nat
      BY <1>0 DEF ScheduleInvariant, TypeOK
    <2>1. CASE Tick
      <3>1. CASE UNCHANGED letters
        BY <2>0, <3>1
      <3>2. CASE ProcessPending(now')
        <4>1. PICK batch : /\ Fired(now', batch)
                           /\ letters' = letters + Cardinality(
                                {j \in batch : retries[j].attempt + 1 >= policy.MaxAttempts})
          BY <3>2, FiredBy
        <4>2. {j \in batch : retries[j].attempt + 1 >= policy.MaxAttempts} \in SUBSET (DOMAIN retries)
          BY <4>1 DEF Fired, Due
        <4>3. Cardinality({j \in batch : retries[j].attempt + 1 >= policy.MaxAttempts}) \in Nat
          BY <4>2, FewRows DEF ScheduleInvariant
        <4> QED
          BY <2>0, <4>1, <4>3
      <3> QED
        BY <2>1, <3>1, <3>2 DEF Tick
    <2>2. ASSUME NEW e \in Events \cup Nat, Schedule(e)
          PROVE  letters' = letters \/ letters' = letters + 1
      BY <2>2 DEF Schedule
    <2>3. CASE UNCHANGED vars
      BY <2>0, <2>3 DEF vars
    <2> QED
      BY <2>0, <2>1, <2>2, <2>3 DEF EngineStep
  <1> QED
    BY <1>1, <1>3, <1>4, <1>5

\* NoStarvation and Spacing follow from the invariant.
LEMMA Fairly ==
    ASSUME ScheduleInvariant PROVE NoStarvation
  <1> SUFFICES ASSUME Delays, NEW i \in DOMAIN retries, retries[i].status = "pending"
               PROVE  /\ retries[i].missed * BatchLimit <= Len(retries) - 1
                      /\ now - retries[i].next <= (retries[i].missed + 1) * retryInterval
    BY DEF NoStarvation
  <1>1. TypeOK /\ Waiting(i)
    BY DEF ScheduleInvariant, RowInv
  <1>2. Cardinality(Ahead(i)) \in Nat /\ Len(retries) \in Nat
    BY <1>1, FewRows DEF Ahead, TypeOK
  <1>0. /\ retries[i].missed \in Nat /\ BatchLimit \in Nat /\ retryInterval \in Nat
        /\ retries[i].next \in Int /\ now \in Nat
    BY <1>1, Numbers, Positive
  <1>3. PICK m \in Nat, b \in Nat, p \in Nat, n \in Int, c \in Nat :
            /\ m = retries[i].missed /\ b = BatchLimit /\ p = retryInterval
            /\ n = retries[i].next /\ c = now
    BY <1>0
  <1>4. PICK x \in Nat, y \in Nat : x = m * b /\ y = m * p /\ (m + 1) * p = y + p
    OBVIOUS
  <1>5. x + Cardinality(Ahead(i)) <= Len(retries) - 1 /\ LastTick - n <= y
    BY <1>1, <1>3, <1>4 DEF Waiting
  <1>6. LastTick \in Nat /\ c < LastTick + p
    BY <1>3, LastTickIs
  <1>7. x <= Len(retries) - 1 /\ c - n <= y + p
    BY <1>2, <1>5, <1>6
  <1> QED
    BY <1>3, <1>4, <1>7

LEMMA Spaced ==
    ASSUME ScheduleInvariant, EngineStep \/ UNCHANGED vars, Delays,
           NEW i \in DOMAIN retries, retries'[i].attempt # retries[i].attempt
    PROVE  now' - retries[i].updated >= Promised[retries[i].attempt]
  <1>1. retries[i].status = "pending" /\ retries[i].next <= now'
    BY RowMoves
  <1>2. RowInv(i) /\ TypeOK
    BY DEF ScheduleInvariant
  <1>3. /\ environ \in Environments /\ retries[i].attempt \in Nat \ {0}
        /\ retries[i].updated \in Nat /\ retries[i].next \in Int
    BY <1>2, Numbers DEF RowInv
  <1>4. retries[i].next >= retries[i].updated + backoff(retries[i].attempt - 1)
    BY <1>1, <1>2 DEF RowInv, Waiting
  <1>5. Promised[retries[i].attempt] = backoff(retries[i].attempt - 1)
    BY <1>3, PromisedIs
  <1>6. backoff(retries[i].attempt - 1) \in Nat
    <2>1. retries[i].attempt - 1 \in Nat
      BY <1>3
    <2> QED
      BY <1>2, <2>1, Numbers
  <1>7. now' \in Nat
    BY EngineGrows
  <1> QED
    BY <1>1, <1>3, <1>4, <1>5, <1>6, <1>7

-----------------------------------------------------------------------------
(* The generator's invariant *)

\* No event was accepted later than this.
PostedBy == IF wake = 0 THEN now ELSE wake - pause

\* Where the generator is.
Generator ==
    /\ flags \in Flags /\ sent \in Nat /\ wake \in Nat
    /\ \A m \in backlog : m[1] \in Nat /\ m[2] \in Nat /\ m[2] <= PostedBy
    /\ wake > 0 => sent >= flags.events /\ wake <= now + pause
    /\ replayed.done => wake > 0 /\ now >= wake

RowsOf(e) == {i \in DOMAIN retries : retries[i].event = e}

\* Every row of an event was made at an attempt of its own.
RowPerAttempt(e) ==
    RowsOf(e) # {} =>
        /\ Cardinality(RowsOf(e)) <= policy.MaxAttempts
        /\ \E i \in RowsOf(e) : retries[i].attempt >= Cardinality(RowsOf(e))

\* The attempts of a dead letter are those of a row.
Counted(d) ==
    d[2] > 0 => \E i \in DOMAIN retries : retries[i].event = d[1] /\ retries[i].attempt >= d[2]

DemoPolicy ==
    /\ environ.demo
    /\ policy = [MaxAttempts |-> 3, InitialBackoff |-> 2000, MaxBackoff |-> 8000]

Dead(n) == \E d \in dlq : d[1] = n

\* The next retry of an event that waits for its first or for its last one.
Underway(n) ==
    \E i \in DOMAIN retries :
        /\ retries[i].event = n /\ retries[i].status = "pending"
        /\ retries[i].next <= PostedBy + (IF retries[i].attempt = 1 THEN 3000 ELSE 13000)

\* With the delays of demo mode and no row left out by a tick, events that were
\* made to fail and handled within Slack are dead letters in time and the replay
\* has found them.
InTime ==
    DemoPolicy /\ Len(retries) <= BatchLimit =>
        \A n \in prompt : simFail(n) =>
            /\ Dead(n) \/ Underway(n)
            /\ replayed.done /\ letters <= ReplayLimit => n \in replayed.ids

DemoInvariant ==
    /\ ScheduleInvariant
    /\ Generator
    /\ \A e \in Events \cup Nat : RowPerAttempt(e)
    /\ \A d \in dlq : Counted(d)
    /\ InTime

\* The worker acts on the engine by handling events; the generator does not.
LEMMA DemoIsEngine ==
    ASSUME Generator, [DemoNext]_demoVars
    PROVE  EngineStep \/ UNCHANGED vars
  <1>1. \A m \in backlog : m[1] \in Nat
    BY DEF Generator
  <1>2. CASE Next \/ UNCHANGED demoVars
    BY <1>2 DEF Next, EngineStep, demoVars
  <1>3. ASSUME NEW m \in backlog, Consume(m) PROVE EngineStep \/ UNCHANGED vars
    BY <1>1, <1>3 DEF Consume, EngineStep
  <1>4. CASE PostEvent \/ PostFails \/ PostReplay
    BY <1>4 DEF PostEvent, PostFails, PostReplay, vars
  <1> QED
    BY <1>2, <1>3, <1>4 DEF DemoNext

\* What a step does to the generator and its events: a post comes before the
\* pause, the worker handles one event, nothing happens, or the replay takes place.
LEMMA PostOrNot ==
    ASSUME Generator, [DemoNext]_demoVars
    PROVE  /\ flags' = flags
           /\ \/ /\ sent < flags.events /\ sent' = sent + 1 /\ wake = 0
                 /\ wake' = IF sent' = flags.events /\ flags.replay > 0 THEN now + pause ELSE 0
                 /\ UNCHANGED <<vars, replayed, prompt>> /\ now' = now
                 /\ backlog' \subseteq backlog \cup {<<sent, now>>}
              \/ /\ UNCHANGED <<sent, wake, replayed>> /\ now' = now
                 /\ \E m \in backlog :
                        /\ backlog' \subseteq backlog
                        /\ prompt' = IF now - m[2] <= Slack THEN prompt \cup {m[1]} ELSE prompt
                        /\ IF simFail(m[1]) THEN Schedule(m[1]) ELSE UNCHANGED vars
              \/ UNCHANGED <<sent, wake, replayed, backlog, prompt>>
              \/ /\ UNCHANGED <<vars, sent, wake, backlog, prompt>>
                 /\ wake > 0 /\ now >= wake /\ replayed'.done /\ now' = now
                 /\ letters <= ReplayLimit => replayed'.ids = {d[1] : d \in dlq}
  <1>1. CASE PostEvent \/ PostFails
    <2>1. Post /\ UNCHANGED <<vars, prompt>> /\ backlog' \subseteq backlog \cup {<<sent, now>>}
      BY <1>1 DEF PostEvent, PostFails
    <2>2. now' = now
      BY <2>1 DEF vars
    <2>3. /\ sent < flags.events /\ sent' = sent + 1 /\ UNCHANGED <<flags, replayed>>
          /\ wake' = IF sent' = flags.events /\ flags.replay > 0 THEN now + pause ELSE 0
      BY <2>1 DEF Post
    <2>4. wake = 0
      BY <2>3 DEF Generator, Flags
    <2> QED
      BY <2>1, <2>2, <2>3, <2>4
  <1>2. ASSUME NEW m \in backlog, Consume(m)
        PROVE  /\ UNCHANGED <<flags, sent, wake, replayed>> /\ now' = now
               /\ backlog' \subseteq backlog
               /\ prompt' = IF now - m[2] <= Slack THEN prompt \cup {m[1]} ELSE prompt
               /\ IF simFail(m[1]) THEN Schedule(m[1]) ELSE UNCHANGED vars
    <2>1. /\ UNCHANGED <<flags, sent, wake, replayed>> /\ backlog' \subseteq backlog
          /\ prompt' = IF now - m[2] <= Slack THEN prompt \cup {m[1]} ELSE prompt
          /\ IF simFail(m[1]) THEN Schedule(m[1]) ELSE UNCHANGED vars
      BY <1>2 DEF Consume
    <2>2. Schedule(m[1]) \/ UNCHANGED vars
      BY <2>1
    <2>3. now' = now
      BY <2>2 DEF Schedule, vars
    <2> QED
      BY <2>1, <2>3
  <1>3. CASE PostReplay
    <2>1. PICK listed \in SUBSET dlq :
            /\ IF letters <= ReplayLimit THEN listed = dlq ELSE Cardinality(listed) \in 1..ReplayLimit
            /\ replayed' = [done |-> TRUE, ids |-> {d[1] : d \in listed}]
      BY <1>3 DEF PostReplay
    <2>2. replayed'.done /\ (letters <= ReplayLimit => replayed'.ids = {d[1] : d \in dlq})
      BY <2>1
    <2>3. UNCHANGED <<vars, flags, sent, backlog, prompt, wake>> /\ wake > 0 /\ now >= wake
      BY <1>3 DEF PostReplay
    <2>4. now' = now
      BY <2>3 DEF vars
    <2> QED
      BY <2>2, <2>3, <2>4
  <1>4. CASE (Next /\ UNCHANGED generator) \/ UNCHANGED demoVars
    BY <1>4 DEF generator, demoVars
  <1>5. CASE \E m \in backlog : Consume(m)
    BY <1>2, <1>5
  <1> QED
    BY <1>1, <1>3, <1>4, <1>5 DEF DemoNext

\* The last post is at now while the generator posts, and never goes back.
LEMMA PostedLater ==
    ASSUME ScheduleInvariant, Generator, [DemoNext]_demoVars
    PROVE  /\ PostedBy \in Int /\ PostedBy' \in Int /\ PostedBy <= PostedBy'
           /\ sent' # sent => PostedBy' = now
           /\ wake' = wake /\ now' = now => PostedBy' = PostedBy
  <1>1. PICK n \in Nat, m \in Nat : n = now /\ m = now' /\ n <= m
    BY DemoIsEngine, EngineGrows DEF ScheduleInvariant, TypeOK
  <1>2. PICK p \in Nat : p = pause /\ p = pause' /\ p > 0
    BY SMT DEF pause
  <1>3. PICK w \in Nat : w = wake
    BY DEF Generator
  <1>4. CASE sent' = sent /\ wake' = wake
    <2>1. CASE w = 0
      BY <1>1, <1>3, <1>4, <2>1 DEF PostedBy
    <2>2. CASE w # 0
      <3>1. PostedBy = w - p /\ PostedBy' = w - p
        BY <1>2, <1>3, <1>4, <2>2 DEF PostedBy
      <3> QED
        BY <1>4, <3>1
    <2> QED
      BY <2>1, <2>2
  <1>5. CASE wake = 0 /\ wake' \in {0, now + pause} /\ now' = now
    <2>1. PostedBy = n
      BY <1>1, <1>5 DEF PostedBy
    <2>2. PostedBy' = n
      <3>1. CASE wake' = 0
        BY <1>1, <1>5, <3>1 DEF PostedBy
      <3>2. CASE wake' = n + p
        <4>1. n + p # 0 /\ (n + p) - p = n
          BY <1>2
        <4> QED
          BY <1>2, <3>2, <4>1 DEF PostedBy
      <3> QED
        BY <1>1, <1>2, <1>5, <3>1, <3>2
    <2> QED
      BY <1>1, <2>1, <2>2
  <1> QED
    BY <1>4, <1>5, PostOrNot

\* A deadline in the future stays there.
LEMMA Later ==
    ASSUME NEW n \in Nat, NEW m \in Nat, n <= m, NEW p \in Nat, NEW w \in Nat, w <= n + p
    PROVE  w <= m + p
  OBVIOUS

LEMMA GeneratorNext ==
    ASSUME ScheduleInvariant, Generator, [DemoNext]_demoVars
    PROVE  Generator'
  <1>1. PICK n \in Nat, m \in Nat : n = now /\ m = now' /\ n <= m
    BY DemoIsEngine, EngineGrows DEF ScheduleInvariant, TypeOK
  <1>2. PICK p \in Nat : p = pause /\ p = pause'
    BY SMT DEF pause
  <1>3. flags \in Flags /\ sent \in Nat /\ flags.events \in Nat /\ flags' = flags
    BY PostOrNot DEF Generator, Flags
  <1>4. PICK w \in Nat : w = wake /\ (w > 0 => w <= n + p /\ sent >= flags.events)
    BY <1>1, <1>2 DEF Generator
  <1>5. ASSUME NEW k \in backlog'
        PROVE  k[1] \in Nat /\ k[2] \in Nat /\ k[2] <= PostedBy'
    <2>1. PostedBy \in Int /\ PostedBy' \in Int /\ PostedBy <= PostedBy'
          /\ (sent' # sent => PostedBy' = now)
      BY PostedLater
    <2>2. CASE k \in backlog
      <3>1. k[1] \in Nat /\ k[2] \in Nat /\ k[2] <= PostedBy
        BY <2>2 DEF Generator
      <3> QED
        BY <2>1, <3>1
    <2>3. CASE k \notin backlog
      <3>1. k = <<sent, now>> /\ sent' = sent + 1
        BY <2>3, PostOrNot
      <3>2. k[1] = sent /\ k[2] = n /\ PostedBy' = n
        BY <1>1, <1>3, <2>1, <3>1
      <3> QED
        BY <1>3, <3>2
    <2> QED
      BY <2>2, <2>3
  <1>6. CASE sent' = sent /\ wake' = wake
    <2>1. replayed'.done => wake > 0 /\ m >= w
      <3>1. CASE replayed' = replayed
        BY <1>1, <1>4, <3>1 DEF Generator
      <3>2. CASE wake > 0 /\ now >= wake
        BY <1>1, <1>4, <3>2
      <3> QED
        BY <1>3, <1>6, <3>1, <3>2, PostOrNot
    <2>2. w > 0 => w <= m + p
      BY <1>1, <1>4, Later
    <2> QED
      BY <1>1, <1>2, <1>3, <1>4, <1>5, <1>6, <2>1, <2>2 DEF Generator
  <1>7. CASE /\ sent < flags.events /\ sent' = sent + 1 /\ wake = 0 /\ replayed' = replayed
             /\ wake' = IF sent' = flags.events /\ flags.replay > 0 THEN now + pause ELSE 0
    <2>1. wake' \in Nat /\ (wake' > 0 => sent' >= flags.events /\ wake' <= m + p)
      <3>1. CASE sent' = flags.events /\ flags.replay > 0
        <4>1. wake' = n + p
          BY <1>1, <1>2, <1>7, <3>1
        <4>2. n + p \in Nat /\ n + p <= m + p
          <5>1. n + p \in Nat /\ n + p <= n + p
            OBVIOUS
          <5> QED
            BY <1>1, <5>1, Later
        <4> QED
          BY <1>3, <3>1, <4>1, <4>2
      <3>2. CASE ~(sent' = flags.events /\ flags.replay > 0)
        BY <1>7, <3>2
      <3> QED
        BY <3>1, <3>2
    <2>2. sent' \in Nat /\ ~replayed'.done
      BY <1>3, <1>7 DEF Generator
    <2> QED
      BY <1>1, <1>2, <1>3, <1>5, <2>1, <2>2 DEF Generator
  <1> QED
    BY <1>6, <1>7, PostOrNot

LEMMA SameFailures ==
    ASSUME flags' = flags
    PROVE  \A n : simFail(n)' = simFail(n)
  BY DEF failEvery, simFail

\* Rows stay, and attempts are not taken back.
LEMMA RowStays ==
    ASSUME ScheduleInvariant, EngineStep \/ UNCHANGED vars, NEW i \in DOMAIN retries
    PROVE  /\ i \in DOMAIN retries' /\ retries'[i].event = retries[i].event
           /\ retries[i].attempt \in Nat /\ retries'[i].attempt \in Nat
           /\ retries[i].attempt <= retries'[i].attempt
  <1>1. PICK a \in Nat : a = retries[i].attempt
    BY Numbers DEF ScheduleInvariant
  <1>2. retries'[i].attempt = a \/ retries'[i].attempt = a + 1
    BY <1>1, RowMoves
  <1>3. i \in DOMAIN retries' /\ retries'[i].event = retries[i].event
    BY RowMoves
  <1> QED
    BY <1>1, <1>2, <1>3

\* The row that Schedule appends.
LEMMA NewRow ==
    ASSUME ScheduleInvariant, NEW e \in Events \cup Nat, Schedule(e),
           MaxAttempt(e) < policy.MaxAttempts
    PROVE  \E k : /\ k \notin DOMAIN retries /\ DOMAIN retries' = DOMAIN retries \cup {k}
                  /\ retries'[k] = [event |-> e, attempt |-> MaxAttempt(e) + 1,
                                    next |-> now + backoff(MaxAttempt(e)), updated |-> now,
                                    status |-> "pending", missed |-> 0]
  <1> DEFINE row == [event |-> e, attempt |-> MaxAttempt(e) + 1,
                     next |-> now + backoff(MaxAttempt(e)), updated |-> now,
                     status |-> "pending", missed |-> 0]
  <1>0. TypeOK
    BY DEF ScheduleInvariant
  <1>1. retries \in Seq(Row) /\ MaxAttempt(e) \in Nat /\ policy.MaxAttempts \in Int
    <2>1. retries \in Seq(Row)
      BY <1>0 DEF TypeOK
    <2>2. MaxAttempt(e) \in Nat
      BY <1>0, MaxAttemptIn
    <2>3. policy.MaxAttempts \in Int
      BY <1>0, Numbers
    <2> QED
      BY <2>1, <2>2, <2>3
  <1>2. retries' = Append(retries, row)
    BY <1>1 DEF Schedule
  <1> HIDE DEF row
  <1>3. /\ DOMAIN retries' = DOMAIN retries \cup {Len(retries) + 1}
        /\ Len(retries) + 1 \notin DOMAIN retries /\ retries'[Len(retries) + 1] = row
    BY <1>1, <1>2
  <1> QED
    BY <1>3 DEF row

\* A step without a new row.
LEMMA NoNewRow ==
    ASSUME ScheduleInvariant,
           \/ Tick
           \/ UNCHANGED vars
           \/ \E e \in Events \cup Nat : Schedule(e) /\ MaxAttempt(e) >= policy.MaxAttempts
    PROVE  DOMAIN retries' = DOMAIN retries
  <1>1. CASE Tick
    BY <1>1 DEF Tick, ProcessPending
  <1>2. CASE UNCHANGED vars
    BY <1>2 DEF vars
  <1>3. ASSUME NEW e \in Events \cup Nat, Schedule(e), MaxAttempt(e) >= policy.MaxAttempts
        PROVE  retries' = retries
    BY <1>3 DEF Schedule
  <1> QED
    BY <1>1, <1>2, <1>3

LEMMA RowPerAttemptNext ==
    ASSUME ScheduleInvariant, EngineStep \/ UNCHANGED vars,
           NEW e \in Events \cup Nat, RowPerAttempt(e)
    PROVE  RowPerAttempt(e)'
  <1>1. policy' = policy /\ TypeOK /\ policy.MaxAttempts \in Int
    BY EngineGrows, SamePolicy, Numbers DEF ScheduleInvariant
  <1>2. ASSUME NEW i \in DOMAIN retries
        PROVE  /\ i \in DOMAIN retries' /\ retries'[i].event = retries[i].event
               /\ retries[i].attempt \in Nat /\ retries'[i].attempt \in Nat
               /\ retries[i].attempt <= retries'[i].attempt
    BY RowStays
  <1>3. IsFiniteSet(RowsOf(e)) /\ Cardinality(RowsOf(e)) \in Nat
    BY <1>1, FewRows DEF RowsOf
  <1>4. CASE RowsOf(e)' = RowsOf(e)
    <2>1. ASSUME NEW i \in RowsOf(e), retries[i].attempt >= Cardinality(RowsOf(e))
          PROVE  retries'[i].attempt >= Cardinality(RowsOf(e))
      BY <1>2, <1>3, <2>1 DEF RowsOf
    <2> QED
      BY <1>1, <1>4, <2>1 DEF RowPerAttempt
  <1>5. CASE DOMAIN retries' = DOMAIN retries
    <2>1. RowsOf(e)' = RowsOf(e)
      BY <1>2, <1>5 DEF RowsOf
    <2> QED
      BY <1>4, <2>1
  <1>6. ASSUME NEW f \in Events \cup Nat, Schedule(f), MaxAttempt(f) < policy.MaxAttempts
        PROVE  RowPerAttempt(e)'
    <2>0. PICK k : /\ k \notin DOMAIN retries /\ DOMAIN retries' = DOMAIN retries \cup {k}
                   /\ retries'[k] = [event |-> f, attempt |-> MaxAttempt(f) + 1,
                                     next |-> now + backoff(MaxAttempt(f)), updated |-> now,
                                     status |-> "pending", missed |-> 0]
      BY <1>6, NewRow
    <2>1. /\ k \notin DOMAIN retries /\ DOMAIN retries' = DOMAIN retries \cup {k}
          /\ retries'[k].event = f /\ retries'[k].attempt = MaxAttempt(f) + 1
      BY <2>0
    <2>2. CASE f # e
      <3>1. RowsOf(e)' = RowsOf(e)
        BY <1>2, <2>1, <2>2 DEF RowsOf
      <3> QED
        BY <1>4, <3>1
    <2>3. CASE f = e
      <3>1. RowsOf(e)' = RowsOf(e) \cup {k} /\ k \notin RowsOf(e)
        BY <1>2, <2>1, <2>3 DEF RowsOf
      <3>2. Cardinality(RowsOf(e)') = Cardinality(RowsOf(e)) + 1
        BY <1>3, <3>1, FS_AddElement
      <3>3. MaxAttempt(e) \in Nat /\ \A i \in RowsOf(e) : retries[i].attempt <= MaxAttempt(e)
        BY <1>1, MaxAttemptIn DEF RowsOf
      <3>4. Cardinality(RowsOf(e)) <= MaxAttempt(e)
        <4>1. CASE RowsOf(e) = {}
          BY <3>3, <4>1, FS_EmptySet
        <4>2. CASE RowsOf(e) # {}
          <5>1. PICK i \in RowsOf(e) : retries[i].attempt >= Cardinality(RowsOf(e))
            BY <4>2 DEF RowPerAttempt
          <5>2. retries[i].attempt \in Nat /\ retries[i].attempt <= MaxAttempt(e)
            BY <1>2, <3>3 DEF RowsOf
          <5> QED
            BY <1>3, <3>3, <5>1, <5>2
        <4> QED
          BY <4>1, <4>2
      <3>5. PICK c \in Nat, a \in Nat, m \in Int :
                /\ c = Cardinality(RowsOf(e)) /\ a = MaxAttempt(e) /\ m = policy.MaxAttempts
                /\ c <= a /\ a < m
        BY <1>1, <1>3, <1>6, <2>3, <3>3, <3>4
      <3>6. c + 1 <= m /\ c + 1 <= a + 1
        BY <3>5
      <3>7. Cardinality(RowsOf(e)') = c + 1 /\ retries'[k].attempt = a + 1 /\ policy'.MaxAttempts = m
        BY <1>1, <2>1, <2>3, <3>2, <3>5
      <3>8. k \in RowsOf(e)' /\ retries'[k].attempt >= Cardinality(RowsOf(e)')
        BY <3>1, <3>6, <3>7
      <3>9. Cardinality(RowsOf(e)') <= policy'.MaxAttempts
        BY <3>6, <3>7
      <3> QED
        BY <3>8, <3>9 DEF RowPerAttempt
    <2> QED
      BY <2>2, <2>3
  <1>7. ASSUME NEW f \in Events \cup Nat, Schedule(f), ~(MaxAttempt(f) < policy.MaxAttempts)
        PROVE  DOMAIN retries' = DOMAIN retries
    <2>1. MaxAttempt(f) \in Nat
      BY <1>1, MaxAttemptIn
    <2>2. MaxAttempt(f) >= policy.MaxAttempts
      BY <1>1, <1>7, <2>1
    <2> QED
      BY <1>7, <2>2, NoNewRow
  <1> QED
    BY <1>5, <1>6, <1>7, NoNewRow DEF EngineStep

LEMMA CountedNext ==
    ASSUME ScheduleInvariant, EngineStep \/ UNCHANGED vars, \A d \in dlq : Counted(d),
           NEW d \in dlq'
    PROVE  Counted(d)'
  <1> SUFFICES ASSUME d[2] > 0
               PROVE  \E i \in DOMAIN retries' : retries'[i].event = d[1] /\ retries'[i].attempt >= d[2]
    BY DEF Counted
  <1>1. TypeOK /\ dlq' \subseteq (Events \cup Nat) \X Nat
    BY EngineNext DEF ScheduleInvariant, TypeOK
  <1>2. d[2] \in Nat
    BY <1>1
  <1>3. ASSUME NEW i \in DOMAIN retries
        PROVE  /\ i \in DOMAIN retries' /\ retries'[i].event = retries[i].event
               /\ retries[i].attempt \in Nat /\ retries'[i].attempt \in Nat
               /\ retries[i].attempt <= retries'[i].attempt
    BY RowStays
  <1>4. ASSUME NEW i \in DOMAIN retries, retries[i].event = d[1], retries[i].attempt >= d[2]
        PROVE  retries'[i].event = d[1] /\ retries'[i].attempt >= d[2]
    BY <1>2, <1>3, <1>4
  <1>5. CASE d \in dlq
    BY <1>3, <1>4, <1>5 DEF Counted
  <1>6. ASSUME NEW e \in Events \cup Nat, Schedule(e), d \notin dlq
        PROVE  \E i \in DOMAIN retries : retries[i].event = d[1] /\ retries[i].attempt >= d[2]
    <2>1. d = <<e, MaxAttempt(e)>>
      BY <1>6 DEF Schedule
    <2>2. d[1] = e /\ d[2] = MaxAttempt(e)
      BY <2>1
    <2>3. MaxAttempt(e) \in Nat /\ \E i \in DOMAIN retries : retries[i].event = e /\ retries[i].attempt = MaxAttempt(e)
      BY <1>1, <2>2, MaxAttemptIn
    <2> QED
      BY <2>2, <2>3
  <1>7. CASE Tick /\ d \notin dlq
    <2>1. now' = now + Grain /\ environ' = environ /\ ProcessPending(now')
      BY <1>7 DEF Tick
    <2>2. now' \in Nat
      BY <2>1, ClockStep
    <2>3. PICK batch : /\ Fired(now', batch)
                       /\ dlq' = dlq \cup {<<retries[j].event, retries[j].attempt + 1>> :
                            j \in {k \in batch : retries[k].attempt + 1 >= policy.MaxAttempts}}
      BY <2>1, FiredBy
    <2>4. PICK i \in batch : d = <<retries[i].event, retries[i].attempt + 1>>
      BY <1>7, <2>3
    <2>5. i \in DOMAIN retries
      BY <2>3, <2>4 DEF Fired, Due
    <2>6. retries'[i].attempt = retries[i].attempt + 1
      BY <1>1, <2>2, <2>3, <2>4, <2>5, FiredRow
    <2>7. d[1] = retries[i].event /\ d[2] = retries[i].attempt + 1
      BY <2>4
    <2> QED
      BY <1>3, <2>5, <2>6, <2>7
  <1>8. CASE UNCHANGED vars
    BY <1>5, <1>8 DEF vars
  <1> QED
    BY <1>3, <1>4, <1>5, <1>6, <1>7, <1>8 DEF EngineStep

\* The delays of demo mode.
LEMMA DemoDelays ==
    ASSUME TypeOK, DemoPolicy
    PROVE  /\ policy.MaxAttempts = 3 /\ retryInterval = 2000 /\ Delays
           /\ backoff(0) = 2000 /\ backoff(2) = 8000 /\ \A n \in Nat : backoff(n) <= 8000
  <1>1. policy = [MaxAttempts |-> 3, InitialBackoff |-> 2000, MaxBackoff |-> 8000] /\ environ.demo
    BY DEF DemoPolicy
  <1>2. policy.MaxAttempts = 3 /\ policy.InitialBackoff = 2000 /\ policy.MaxBackoff = 8000
    BY <1>1, SMT
  <1>3. retryInterval = 2000
    BY <1>1, SMT DEF retryInterval
  <1>4. 2^0 = 1 /\ 2^2 = 4
    <2>1. 2^0 = 1
      OBVIOUS
    <2>2. 2^(0 + 1) = 2 * 2^0 /\ 2^(1 + 1) = 2 * 2^1
      BY PowerDoubles
    <2>3. 0 + 1 = 1 /\ 1 + 1 = 2
      OBVIOUS
    <2> QED
      BY <2>1, <2>2, <2>3
  <1>5. backoff(0) = 2000 /\ backoff(2) = 8000
    BY <1>2, <1>4, SMT DEF backoff
  <1>6. \A n \in Nat : backoff(n) <= 8000
    BY <1>2, Numbers, SMT
  <1>7. Delays
    BY <1>2, SMT DEF Delays
  <1> QED
    BY <1>2, <1>3, <1>5, <1>6, <1>7, SMT

\* With all rows in one batch a row is not passed over: no tick comes after the
\* time of a pending row.
LEMMA NotPassedOver ==
    ASSUME ScheduleInvariant, Delays, Len(retries) <= BatchLimit,
           NEW i \in DOMAIN retries, retries[i].status = "pending"
    PROVE  LastTick <= retries[i].next
  <1>1. TypeOK /\ Waiting(i)
    BY DEF ScheduleInvariant, RowInv
  <1>2. Cardinality(Ahead(i)) \in Nat /\ Len(retries) \in Nat
    BY <1>1, FewRows DEF Ahead, TypeOK
  <1>0. /\ retries[i].missed \in Nat /\ BatchLimit \in Nat /\ retryInterval \in Nat
        /\ retries[i].next \in Int
    BY <1>1, Numbers, Positive
  <1>3. PICK m \in Nat, b \in Nat, p \in Nat, n \in Int, l \in Nat, c \in Nat :
            /\ m = retries[i].missed /\ b = BatchLimit /\ p = retryInterval
            /\ n = retries[i].next /\ l = Len(retries) /\ c = Cardinality(Ahead(i))
    BY <1>0, <1>2
  <1>4. m * b + c <= l - 1 /\ LastTick - n <= m * p /\ l <= b
    BY <1>1, <1>3 DEF Waiting
  <1>5. m = 0
    <2>1. m >= 1 => m * b >= b
      OBVIOUS
    <2> QED
      BY <1>4, <2>1
  <1>6. LastTick \in Nat
    BY LastTickIs
  <1>7. LastTick - n <= 0
    BY <1>4, <1>5
  <1> QED
    BY <1>3, <1>6, <1>7

LEMMA Sum ==
    ASSUME NEW t \in Nat, NEW x \in Int, NEW p \in Int, NEW q \in Int,
           t <= x, x <= p + 3000, p <= q
    PROVE  (t + 2000) + 8000 <= q + 13000
  BY SMT

\* The retries of an event: the first is due within 3 seconds of the post, the last
\* within 13 seconds.
LEMMA UnderwayNext ==
    ASSUME ScheduleInvariant, EngineStep \/ UNCHANGED vars, DemoPolicy, Len(retries) <= BatchLimit,
           PostedBy \in Int, PostedBy' \in Int, PostedBy <= PostedBy', NEW n, Underway(n)
    PROVE  (Dead(n) \/ Underway(n))'
  <1>1. PICK i \in DOMAIN retries :
            /\ retries[i].event = n /\ retries[i].status = "pending"
            /\ retries[i].next <= PostedBy + (IF retries[i].attempt = 1 THEN 3000 ELSE 13000)
    BY SMT DEF Underway
  <1>0. TypeOK
    BY DEF ScheduleInvariant
  <1>a. retries[i].attempt \in Nat /\ retries[i].next \in Int
    BY <1>0, <1>1, Numbers
  <1>b. PICK a \in Nat, x \in Int : a = retries[i].attempt /\ x = retries[i].next
    BY <1>a
  <1>c. PICK p \in Int, q \in Int : p = PostedBy /\ q = PostedBy' /\ p <= q
    OBVIOUS
  <1>2. a = retries[i].attempt /\ x = retries[i].next /\ p = PostedBy /\ q = PostedBy' /\ p <= q
    BY <1>b, <1>c
  <1>3. a >= 1 /\ x <= p + (IF a = 1 THEN 3000 ELSE 13000)
    <2>1. RowInv(i)
      BY DEF ScheduleInvariant
    <2>2. retries[i].attempt >= 1
      BY <2>1 DEF RowInv
    <2>3. x <= p + (IF a = 1 THEN 3000 ELSE 13000)
      BY <1>1, <1>2, SMT
    <2> QED
      BY <1>2, <2>2, <2>3, SMT
  <1>4. i \in DOMAIN retries' /\ retries'[i].event = n
    <2>1. i \in DOMAIN retries' /\ retries'[i].event = retries[i].event
      BY RowMoves
    <2> QED
      BY <1>1, <2>1, SMT
  <1>5. CASE /\ retries'[i].attempt = retries[i].attempt
             /\ retries'[i].status = retries[i].status /\ retries'[i].next = retries[i].next
    <2>1. x <= q + (IF a = 1 THEN 3000 ELSE 13000)
      BY <1>2, <1>3, SMT
    <2> QED
      BY <1>1, <1>2, <1>4, <1>5, <2>1, SMT DEF Underway
  <1>6. CASE /\ now' = LastTick + retryInterval
             /\ retries'[i].attempt = retries[i].attempt + 1
             /\ retries[i].attempt + 1 >= policy.MaxAttempts =>
                    <<retries[i].event, retries[i].attempt + 1>> \in dlq'
             /\ retries[i].attempt + 1 < policy.MaxAttempts =>
                    /\ retries'[i].status = "pending"
                    /\ retries'[i].next = now' + backoff(retries[i].attempt + 1)
    <2>0. TypeOK
      BY DEF ScheduleInvariant
    <2>1. policy.MaxAttempts = 3 /\ retryInterval = 2000 /\ Delays /\ backoff(2) = 8000
      BY <2>0, DemoDelays, SMT
    <2>2. CASE a = 1
      <3>1. PICK t \in Nat : t = LastTick /\ t <= x
        BY <1>1, <1>2, <2>1, LastTickIs, NotPassedOver
      <3>2. retries'[i].status = "pending" /\ retries'[i].attempt = 2
            /\ retries'[i].next = (t + 2000) + 8000
        BY <1>2, <1>6, <2>1, <2>2, <3>1, SMT
      <3>3. (t + 2000) + 8000 <= q + 13000
        <4>1. x <= p + 3000
          BY <1>3, <2>2, SMT
        <4>2. p <= q /\ t <= x
          BY <1>c, <3>1
        <4> QED
          BY <4>1, <4>2, Sum
      <3>4. retries'[i].next <= PostedBy' + (IF retries'[i].attempt = 1 THEN 3000 ELSE 13000)
        <4>1. q = PostedBy'
          BY <1>c
        <4>2. retries'[i].attempt # 1 /\ retries'[i].next <= q + 13000
          BY <3>2, <3>3, SMT
        <4> QED
          BY <4>1, <4>2, SMT
      <3> QED
        BY <1>4, <3>2, <3>4, SMT DEF Underway
    <2>3. CASE a # 1
      <3>1. retries[i].attempt + 1 >= policy.MaxAttempts
        BY <1>2, <1>3, <2>1, <2>3, SMT
      <3>2. <<n, retries[i].attempt + 1>> \in dlq'
        BY <1>1, <1>6, <3>1
      <3> QED
        BY <3>2, SMT DEF Dead
    <2> QED
      BY <2>2, <2>3
  <1> QED
    BY <1>5, <1>6, RowMoves

\* Fifteen seconds after the posts nothing is underway.
LEMMA PauseEnough ==
    ASSUME ScheduleInvariant, DemoPolicy, Len(retries) <= BatchLimit,
           wake \in Nat, wake > 0, now >= wake, NEW n, Underway(n)
    PROVE  FALSE
  <1>1. PICK i \in DOMAIN retries :
            /\ retries[i].event = n /\ retries[i].status = "pending"
            /\ retries[i].next <= PostedBy + (IF retries[i].attempt = 1 THEN 3000 ELSE 13000)
    BY SMT DEF Underway
  <1>0. TypeOK
    BY DEF ScheduleInvariant
  <1>a. retries[i].attempt \in Nat /\ retries[i].next \in Int /\ now \in Nat
    BY <1>0, <1>1, Numbers
  <1>2. PICK x \in Int, w \in Nat, m \in Nat, a \in Nat :
            x = retries[i].next /\ w = wake /\ m = now /\ a = retries[i].attempt
    BY <1>a
  <1>3. PostedBy = w - 15000
    BY <1>2, SMT DEF PostedBy, pause
  <1>4. x <= (w - 15000) + 13000
    <2>1. x <= (w - 15000) + (IF a = 1 THEN 3000 ELSE 13000)
      BY <1>1, <1>2, <1>3, SMT
    <2> QED
      BY <2>1, SMT
  <1>5. retryInterval = 2000 /\ Delays
    BY DemoDelays, SMT DEF ScheduleInvariant
  <1>6. PICK t \in Nat : t = LastTick /\ t <= x /\ m < t + 2000
    BY <1>1, <1>2, <1>5, LastTickIs, NotPassedOver, SMT
  <1>7. m >= w
    BY <1>2, SMT
  <1> QED
    BY <1>4, <1>6, <1>7, SMT

\* An event that the worker handles within Slack is underway from then on.
LEMMA HandledUnderway ==
    ASSUME ScheduleInvariant, DemoPolicy, NEW n \in Nat, Schedule(n), NEW p \in Int,
           PostedBy' = p, now <= p + 1000
    PROVE  (Dead(n) \/ Underway(n))'
  <1>1. TypeOK /\ now \in Nat
    BY DEF ScheduleInvariant, TypeOK
  <1>2. /\ policy.MaxAttempts = 3 /\ backoff(0) = 2000 /\ \A k \in Nat : backoff(k) <= 8000
    BY <1>1, DemoDelays, SMT
  <1>3. PICK a \in Nat : a = MaxAttempt(n)
    BY <1>1, MaxAttemptIn
  <1>4. CASE a >= 3
    <2>1. <<n, a>> \in dlq'
      BY <1>2, <1>3, <1>4, SMT DEF Schedule
    <2> QED
      BY <2>1, SMT DEF Dead
  <1>5. CASE a < 3
    <2>1. PICK k : /\ DOMAIN retries' = DOMAIN retries \cup {k}
                   /\ retries'[k] = [event |-> n, attempt |-> MaxAttempt(n) + 1,
                                     next |-> now + backoff(MaxAttempt(n)), updated |-> now,
                                     status |-> "pending", missed |-> 0]
      BY <1>2, <1>3, <1>5, NewRow, SMT
    <2>2. PICK d \in Int, m \in Nat : d = backoff(a) /\ m = now
      BY <1>1, Numbers
    <2>3. d <= 8000 /\ (a = 0 => d = 2000) /\ m <= p + 1000
      BY <1>2, <2>2, SMT
    <2>4. /\ retries'[k].event = n /\ retries'[k].status = "pending"
          /\ retries'[k].attempt = a + 1 /\ retries'[k].next = m + d
      BY <1>3, <2>1, <2>2
    <2>5. m + d <= p + (IF a + 1 = 1 THEN 3000 ELSE 13000)
      BY <2>3, SMT
    <2> QED
      BY <2>1, <2>4, <2>5, SMT DEF Underway
  <1> QED
    BY <1>4, <1>5

LEMMA InTimeNext ==
    ASSUME ScheduleInvariant, Generator, InTime, [DemoNext]_demoVars
    PROVE  InTime'
  <1> SUFFICES ASSUME DemoPolicy', Len(retries') <= BatchLimit, NEW n \in prompt', simFail(n)'
               PROVE  /\ (Dead(n) \/ Underway(n))'
                      /\ replayed'.done /\ letters' <= ReplayLimit => n \in replayed'.ids
    BY Zenon DEF InTime
  <1>1. EngineStep \/ UNCHANGED vars
    BY DemoIsEngine
  <1>2. environ' = environ /\ dlq \subseteq dlq' /\ Len(retries) <= Len(retries')
    BY <1>1, EngineGrows
  <1>3. DemoPolicy
    <2>1. policy' = policy
      BY <1>2, SamePolicy
    <2> QED
      BY <1>2, <2>1, SMT DEF DemoPolicy
  <1>4. Len(retries) <= BatchLimit
    <2>1. Len(retries) \in Nat /\ Len(retries') \in Nat /\ BatchLimit \in Nat
      BY <1>1, EngineNext, Positive DEF ScheduleInvariant, TypeOK
    <2> QED
      BY <1>2, <2>1
  <1>5. simFail(n) /\ \A k : simFail(k)' = simFail(k)
    BY PostOrNot, SameFailures
  <1>6. PostedBy \in Int /\ PostedBy' \in Int /\ PostedBy <= PostedBy'
    BY PostedLater
  <1>9. letters' <= ReplayLimit => letters <= ReplayLimit
    <2>1. letters \in Nat /\ letters' \in Nat /\ letters <= letters'
      BY <1>1, EngineNext, EngineGrows DEF ScheduleInvariant, TypeOK
    <2>2. ReplayLimit \in Nat
      BY ScenariosAssumption
    <2> QED
      BY <2>1, <2>2
  <1>7. CASE n \in prompt
    <2>1. (Dead(n) \/ Underway(n)) /\ (replayed.done /\ letters <= ReplayLimit => n \in replayed.ids)
      BY <1>3, <1>4, <1>5, <1>7, Zenon DEF InTime
    <2>2. (Dead(n) \/ Underway(n))'
      <3>1. CASE Dead(n)
        BY <1>2, <3>1, SMT DEF Dead
      <3>2. CASE Underway(n)
        BY <1>1, <1>3, <1>4, <1>6, <3>2, UnderwayNext, Zenon
      <3> QED
        BY <2>1, <3>1, <3>2
    <2>3. CASE replayed' = replayed
      BY <1>9, <2>1, <2>2, <2>3
    <2>4. CASE /\ wake > 0 /\ now >= wake
               /\ letters <= ReplayLimit => replayed'.ids = {d[1] : d \in dlq}
      <3>1. wake \in Nat
        BY DEF Generator
      <3>2. ~Underway(n)
        BY <1>3, <1>4, <2>4, <3>1, PauseEnough, Zenon
      <3>3. PICK d \in dlq : d[1] = n
        BY <2>1, <3>2, SMT DEF Dead
      <3> QED
        BY <1>9, <2>2, <2>4, <3>3
    <2> QED
      BY <2>3, <2>4, PostOrNot
  <1>8. CASE n \notin prompt
    <2>1. PICK m \in backlog :
            /\ UNCHANGED <<sent, wake, replayed>> /\ now' = now
            /\ prompt' = IF now - m[2] <= Slack THEN prompt \cup {m[1]} ELSE prompt
            /\ IF simFail(m[1]) THEN Schedule(m[1]) ELSE UNCHANGED vars
      BY <1>8, PostOrNot
    <2>2. n = m[1] /\ now - m[2] <= Slack
      BY <1>8, <2>1
    <2>3. n \in Nat /\ m[2] \in Nat /\ m[2] <= PostedBy
      BY <2>2 DEF Generator
    <2>4. Schedule(n)
      BY <1>5, <2>1, <2>2
    <2>5. PICK c \in Nat, k \in Nat, p \in Int :
            c = now /\ k = m[2] /\ p = PostedBy /\ k <= p
      BY <1>6, <2>3 DEF ScheduleInvariant, TypeOK
    <2>6. c <= k + 1000
      <3>1. c - k <= 1000
        BY <2>2, <2>5, SMT DEF Slack
      <3> QED
        BY <3>1, SMT
    <2>7. PostedBy' = p
      BY <2>1, <2>5, PostedLater
    <2>8. (Dead(n) \/ Underway(n))'
      <3>1. now <= p + 1000
        BY <2>5, <2>6, SMT
      <3>2. n \in Nat /\ p \in Int
        BY <2>3
      <3> QED
        BY <1>3, <2>4, <2>7, <3>1, <3>2, HandledUnderway, SMT
    <2>9. ~replayed'.done
      <3>1. SUFFICES ASSUME replayed.done PROVE FALSE
        BY <2>1
      <3>2. PICK w \in Nat : w = wake /\ w > 0 /\ c >= w
        BY <2>5, <3>1 DEF Generator
      <3>3. p = w - 15000
        BY <2>5, <3>2, SMT DEF PostedBy, pause
      <3>4. k <= w - 15000
        BY <2>5, <3>3, SMT
      <3> QED
        BY <2>6, <3>2, <3>4, SMT
    <2> QED
      BY <2>8, <2>9
  <1> QED
    BY <1>7, <1>8

LEMMA DemoInitHolds == DemoInit => DemoInvariant
  <1> SUFFICES ASSUME DemoInit PROVE DemoInvariant
    OBVIOUS
  <1>1. Init /\ sent = 0 /\ backlog = {} /\ prompt = {} /\ wake = 0 /\ replayed = [done |-> FALSE, ids |-> {}]
    BY DEF DemoInit
  <1>2. ScheduleInvariant /\ retries = <<>> /\ dlq = {}
    BY <1>1, InitHolds DEF Init
  <1>3. Generator
    <2>1. flags \in Flags
      BY ScenariosAssumption, Zenon DEF DemoInit
    <2> QED
      BY <1>1, <2>1 DEF Generator
  <1>5. ASSUME NEW e \in Events \cup Nat PROVE RowPerAttempt(e)
    BY <1>2 DEF RowsOf, RowPerAttempt
  <1>6. (\A d \in dlq : Counted(d)) /\ InTime
    BY <1>1, <1>2, Zenon DEF InTime
  <1> QED
    BY <1>2, <1>3, <1>5, <1>6 DEF DemoInvariant

LEMMA DemoStepHolds == DemoInvariant /\ [DemoNext]_demoVars => DemoInvariant'
  <1> SUFFICES ASSUME DemoInvariant, [DemoNext]_demoVars PROVE DemoInvariant'
    OBVIOUS
  <1>1. ScheduleInvariant /\ Generator /\ InTime
    BY DEF DemoInvariant
  <1>2. EngineStep \/ UNCHANGED vars
    BY <1>1, DemoIsEngine
  <1>3. ScheduleInvariant'
    BY <1>1, <1>2, EngineNext
  <1>4. Generator' /\ InTime'
    BY <1>1, GeneratorNext, InTimeNext
  <1>5. ASSUME NEW e \in Events \cup Nat PROVE RowPerAttempt(e)'
    BY <1>1, <1>2, RowPerAttemptNext DEF DemoInvariant
  <1>6. ASSUME NEW d \in dlq' PROVE Counted(d)'
    BY <1>1, <1>2, CountedNext DEF DemoInvariant
  <1> QED
    BY <1>3, <1>4, <1>5, <1>6 DEF DemoInvariant

-----------------------------------------------------------------------------
(* What the invariant gives *)

\* An answer of 50 rows shows all the rows of an event.
LEMMA AllListed ==
    ASSUME TypeOK, NEW e \in Events \cup Nat, RowPerAttempt(e), policy.MaxAttempts <= 50,
           NEW i \in RowsOf(e)
    PROVE  i \in ListRetries(e, Limit(<<>>))
  <1> DEFINE newer == {j \in RowsOf(e) : j > i}
  <1>1. IsFiniteSet(RowsOf(e)) /\ Cardinality(RowsOf(e)) \in Nat
    BY FewRows DEF RowsOf
  <1>2. i \notin newer /\ newer \subseteq RowsOf(e)
    <2>1. i \in Nat
      BY DEF RowsOf, TypeOK
    <2> QED
      BY <2>1
  <1>3. Cardinality(newer) \in Nat /\ Cardinality(newer) < Cardinality(RowsOf(e))
    <2>1. newer # RowsOf(e)
      BY <1>2
    <2> HIDE DEF newer
    <2> QED
      BY <1>1, <1>2, <2>1, FS_Subset, FS_CardinalityType
  <1>4. policy.MaxAttempts \in Int /\ Cardinality(RowsOf(e)) <= policy.MaxAttempts
    BY Numbers DEF RowPerAttempt
  <1>5. Cardinality(newer) < 50
    BY <1>1, <1>3, <1>4
  <1>6. Limit(<<>>) = 50
    BY DEF Limit
  <1> QED
    BY <1>5, <1>6 DEF ListRetries, RowsOf

LEMMA DemoComplete ==
    ASSUME DemoInvariant, \A v \in Environments : DefaultRetryPolicy(v).MaxAttempts <= 50
    PROVE  DemoReplayComplete
  <1>1. TypeOK /\ Generator /\ InTime
    BY DEF DemoInvariant, ScheduleInvariant
  <1>3. DeadLettersListed
    <2> SUFFICES ASSUME NEW d \in dlq, d[2] > 0
                 PROVE  \E i \in ListRetries(d[1], Limit(<<>>)) : retries[i].attempt >= d[2]
      BY DEF DeadLettersListed
    <2>0. d \in (Events \cup Nat) \X Nat /\ Counted(d)
      BY <1>1 DEF TypeOK, DemoInvariant
    <2>1. d[1] \in Events \cup Nat
      BY <2>0
    <2>2. PICK i \in DOMAIN retries : retries[i].event = d[1] /\ retries[i].attempt >= d[2]
      BY <2>0 DEF Counted
    <2>3. i \in RowsOf(d[1]) /\ RowPerAttempt(d[1])
      BY <2>1, <2>2 DEF RowsOf, DemoInvariant
    <2>4. policy.MaxAttempts <= 50
      BY <1>1 DEF TypeOK, policy
    <2>5. i \in ListRetries(d[1], Limit(<<>>))
      BY <1>1, <2>1, <2>3, <2>4, AllListed
    <2> QED
      BY <2>2, <2>5
  <1>4. ASSUME replayed.done, Len(retries) <= BatchLimit, letters <= ReplayLimit, DemoPolicy
        PROVE  {n \in prompt : simFail(n)} \subseteq replayed.ids
    BY <1>1, <1>4, Zenon DEF InTime
  <1> QED
    BY <1>3, <1>4, SMT DEF DemoReplayComplete, DemoPolicy

-----------------------------------------------------------------------------
(* Theorems *)

\* The inductive invariant of a retry engine that any events reach.
THEOREM ScheduleHolds == Spec => []ScheduleInvariant
  <1>1. ScheduleInvariant /\ [Next]_vars => ScheduleInvariant'
    BY EngineNext DEF Next, EngineStep
  <1> QED
    BY <1>1, InitHolds, PTL DEF Spec

\* The inductive invariant of the generator beside the worker.
THEOREM DemoHolds == DemoSpec => []DemoInvariant
  BY DemoInitHolds, DemoStepHolds, PTL DEF DemoSpec

\* No wait exceeds the cap of the policy, and no row counts more than one attempt
\* beyond the policy's, in every environment and whatever is published when.
THEOREM TypeCorrect == Spec \/ DemoSpec => []TypeOK
  <1>1. ScheduleInvariant => TypeOK
    BY DEF ScheduleInvariant
  <1>2. DemoInvariant => ScheduleInvariant
    BY DEF DemoInvariant
  <1> QED
    BY <1>1, <1>2, ScheduleHolds, DemoHolds, PTL

\* The LIMIT of PendingRetries starves no row, whatever the limit, the number of
\* rows and the way PostgreSQL orders rows that are due at the same time, unless
\* the environment makes a delay negative.
THEOREM NobodyStarves == Spec \/ DemoSpec => []NoStarvation
  <1>1. ScheduleInvariant => NoStarvation
    BY Fairly
  <1>2. DemoInvariant => ScheduleInvariant
    BY DEF DemoInvariant
  <1> QED
    BY <1>1, <1>2, ScheduleHolds, DemoHolds, PTL

\* No retry comes before the documented delay is over: backoff doubles per
\* attempt up to the cap, and neither a tick nor a new row cuts a wait short. Again no
\* delay may be negative.
THEOREM DelaysKept == Spec \/ DemoSpec => Spacing
  <1>1. ASSUME ScheduleInvariant, EngineStep \/ UNCHANGED vars
        PROVE  [\A i \in DOMAIN retries : Delays /\ retries'[i].attempt # retries[i].attempt =>
                    now' - retries[i].updated >= Promised[retries[i].attempt]]_vars
    BY <1>1, Spaced
  <1>2. ScheduleInvariant /\ [Next]_vars =>
            [\A i \in DOMAIN retries : Delays /\ retries'[i].attempt # retries[i].attempt =>
                now' - retries[i].updated >= Promised[retries[i].attempt]]_vars
    BY <1>1 DEF Next, EngineStep
  <1>3. DemoInvariant /\ [DemoNext]_demoVars =>
            [\A i \in DOMAIN retries : Delays /\ retries'[i].attempt # retries[i].attempt =>
                now' - retries[i].updated >= Promised[retries[i].attempt]]_vars
    BY <1>1, DemoIsEngine DEF DemoInvariant
  <1>4. Spec => Spacing
    BY <1>2, ScheduleHolds, PTL DEF Spec, Spacing
  <1>5. DemoSpec => Spacing
    BY <1>3, DemoHolds, PTL DEF DemoSpec, Spacing
  <1> QED
    BY <1>4, <1>5

\* The pause of the generator is long enough for every number of posts, rate and
\* percentage, however late posts are accepted: an event made to fail that the
\* worker handles within Slack of its acceptance is a dead letter when the replay
\* lists them, with the delays of demo mode, one batch for all rows and one listing
\* for all dead letters. No policy has more attempts than GET /retries lists rows.
THEOREM DemoWorks ==
    ASSUME \A v \in Environments : DefaultRetryPolicy(v).MaxAttempts <= 50
    PROVE  DemoSpec => []DemoReplayComplete
  <1>1. DemoInvariant => DemoReplayComplete
    BY DemoComplete
  <1> QED
    BY <1>1, DemoHolds, PTL

=============================================================================
