----------------------- MODULE ConsumerWorker_proofs -----------------------
(***************************************************************************)
(* Proofs about ConsumerWorker, for every number of workers, events and    *)
(* faults and every retry policy.                                          *)
(***************************************************************************)
EXTENDS ConsumerWorker, FiniteSetTheorems, TLAPS

-----------------------------------------------------------------------------
(* The tables *)

\* What an append-only or update-only table keeps.
RetriesGrow ==
    /\ retries' \in Seq(RetryRow)
    /\ DOMAIN retries \subseteq DOMAIN retries'
    /\ \A i \in DOMAIN retries : retries'[i].event = retries[i].event

DLQGrows ==
    /\ dlq' \in Seq(DLQRow)
    /\ DOMAIN dlq \subseteq DOMAIN dlq'
    /\ \A i \in DOMAIN dlq : dlq'[i] = dlq[i]

\* CreateRetry adds a row and keeps the others.
LEMMA CreateRetryGrows ==
    ASSUME retries \in Seq(RetryRow), NEW e \in Poison, NEW a \in Nat,
           retries' = Append(retries, [event |-> e, attempt |-> a, due |-> FALSE,
                                       status |-> "pending"])
    PROVE  RetriesGrow /\ \E i \in DOMAIN retries' : retries'[i].event = e
  <1> DEFINE row == [event |-> e, attempt |-> a, due |-> FALSE, status |-> "pending"]
  <1>1. row \in RetryRow /\ row.event = e
    BY DEF RetryRow
  <1> HIDE DEF row
  <1>2. retries' = Append(retries, row)
    BY DEF row
  <1>3. /\ retries' \in Seq(RetryRow)
        /\ Len(retries) \in Nat
        /\ DOMAIN retries = 1..Len(retries)
        /\ DOMAIN retries' = 1..(Len(retries) + 1)
        /\ retries'[Len(retries) + 1] = row
        /\ \A i \in 1..Len(retries) : retries'[i] = retries[i]
    BY <1>1, <1>2
  <1> QED
    BY <1>1, <1>3 DEF RetriesGrow

\* UpdateRetry changes one row in place and never which event it is about.
LEMMA UpdateRetryGrows ==
    ASSUME retries \in Seq(RetryRow), NEW w, NEW b, b.id \in DOMAIN retries, NEW a \in Nat,
           NEW st \in {"pending", "failed", "completed"}, UpdateRetry(w, b, a, st)
    PROVE  RetriesGrow
  <1>1. CASE retries' = retries
    BY <1>1 DEF RetriesGrow
  <1>2. CASE retries' = [retries EXCEPT ![b.id].attempt = a, ![b.id].status = st,
                                        ![b.id].due = FALSE]
    <2> DEFINE row == [retries[b.id] EXCEPT !.attempt = a, !.status = st, !.due = FALSE]
    <2>1. retries[b.id] \in RetryRow
      OBVIOUS
    <2>2. row \in RetryRow /\ row.event = retries[b.id].event
      BY <2>1 DEF RetryRow
    <2>3. retries' = [retries EXCEPT ![b.id] = row]
      BY <1>2, <2>1
    <2> HIDE DEF row
    <2> QED
      BY <2>2, <2>3 DEF RetriesGrow
  <1> QED
    BY <1>1, <1>2 DEF UpdateRetry

\* StoreDLQ adds a row and keeps the others.
LEMMA DeadLetterGrows ==
    ASSUME dlq \in Seq(DLQRow), NEW e \in Poison, NEW n \in Nat, NEW f \in BOOLEAN,
           DeadLetter(e, n, f)
    PROVE  DLQGrows /\ \E i \in DOMAIN dlq' : dlq'[i].event = e
  <1> DEFINE row == [event |-> e, attempts |-> n, full |-> f]
  <1>1. row \in DLQRow /\ row.event = e
    BY DEF DLQRow
  <1> HIDE DEF row
  <1>2. dlq' = Append(dlq, row)
    BY DEF DeadLetter, row
  <1>3. /\ dlq' \in Seq(DLQRow)
        /\ Len(dlq) \in Nat
        /\ DOMAIN dlq = 1..Len(dlq)
        /\ DOMAIN dlq' = 1..(Len(dlq) + 1)
        /\ dlq'[Len(dlq) + 1] = row
        /\ \A i \in 1..Len(dlq) : dlq'[i] = dlq[i]
    BY <1>1, <1>2
  <1> QED
    BY <1>1, <1>3 DEF DLQGrows

\* MoveToDLQ adds a row about a poison event, or nothing.
LEMMA MoveToDLQGrows ==
    ASSUME TypeOK, NEW w \in Workers, MoveToDLQ(w)
    PROVE  dlq' = dlq \/ DLQGrows
  <1>1. /\ job[w] \in Record /\ job[w].id \in DOMAIN retries
        /\ retries[job[w].id] \in RetryRow
    BY DEF MoveToDLQ, TypeOK
  <1>2. retries[job[w].id].event \in Poison /\ job[w].attempt \in Nat
    BY <1>1 DEF Record, RetryRow
  <1> QED
    <2> DEFINE e == retries[job[w].id].event
               n == job[w].attempt
    <2>1. DeadLetter(e, n, e \in stored) \/ DeadLetter(e, n, FALSE) \/ dlq' = dlq
      BY DEF MoveToDLQ, GetEventByID
    <2>2. e \in Poison /\ n \in Nat
      BY <1>2
    <2>3. dlq \in Seq(DLQRow)
      BY DEF TypeOK
    <2>4. (e \in stored) \in BOOLEAN
      OBVIOUS
    <2> HIDE DEF e, n
    <2>5. CASE DeadLetter(e, n, e \in stored)
      <3> DEFINE f == e \in stored
      <3>1. f \in BOOLEAN /\ DeadLetter(e, n, f)
        BY <2>4, <2>5
      <3> HIDE DEF f
      <3> QED
        BY <2>2, <2>3, <3>1, DeadLetterGrows
    <2>6. CASE DeadLetter(e, n, FALSE)
      BY <2>2, <2>3, <2>6, DeadLetterGrows
    <2> QED
      BY <2>1, <2>5, <2>6

\* Time passing changes no row but for its being due.
LEMMA BecomeDueGrows ==
    ASSUME TypeOK, NEW i \in DOMAIN retries, BecomeDue(i)
    PROVE  RetriesGrow
  <1> DEFINE row == [retries[i] EXCEPT !.due = TRUE]
  <1>1. retries[i] \in RetryRow
    BY DEF TypeOK
  <1>2. row \in RetryRow /\ row.event = retries[i].event
    BY <1>1 DEF RetryRow
  <1>3. retries' = [retries EXCEPT ![i] = row]
    BY DEF BecomeDue
  <1> HIDE DEF row
  <1> QED
    BY <1>2, <1>3 DEF RetriesGrow, TypeOK

-----------------------------------------------------------------------------
(* Type correctness *)

\* Initially every variable has its type.
LEMMA TypeInit == Init => TypeOK
  <1> SUFFICES ASSUME Init PROVE TypeOK
    OBVIOUS
  <1>1. /\ cpc \in [Workers -> CPC] /\ tpc \in [Workers -> TPC]
        /\ batch \in [Workers -> SUBSET Record] /\ job \in [Workers -> Record]
    BY DEF Init, CPC, TPC, Record, NoRecord
  <1>2. /\ published \in 0..MaxLog /\ committed \in 0..published /\ position \in 0..published
        /\ cur \in [Workers -> 0..published] /\ pgOffset \in 0..published
        /\ seen \in [Workers -> Nat] /\ faults \in 0..MaxFaults
    BY LogAssumption, WorkersAssumption DEF Init
  <1>3. retries \in Seq(RetryRow) /\ dlq \in Seq(DLQRow)
    BY DEF Init
  <1>4. \A w \in Workers : cpc[w] = "poll" /\ tpc[w] = "idle" /\ batch[w] = {}
    BY DEF Init
  <1>5. /\ created \in [Purchases -> Nat] /\ started \in [Purchases -> Nat]
        /\ tries \in [Poison -> Nat]
    BY DEF Init
  <1> QED
    BY <1>1, <1>2, <1>3, <1>4, <1>5 DEF Init, TypeOK

\* A fresh process has the state every process starts with.
LEMMA RestartType ==
    ASSUME TypeOK, NEW w \in Workers, Restart(w), faults' \in 0..MaxFaults
    PROVE  TypeOK'
  <1>1. /\ cpc' \in [Workers -> CPC] /\ cpc'[w] = "poll"
        /\ cur' \in [Workers -> 0..published] /\ seen' \in [Workers -> Nat]
        /\ \A v \in Workers : v # w => cpc'[v] = cpc[v] /\ cur'[v] = cur[v]
    BY LogAssumption DEF Restart, NextMessage, Goto, TypeOK, CPC
  <1>2. /\ tpc' \in [Workers -> TPC] /\ tpc'[w] = "idle"
        /\ batch' \in [Workers -> SUBSET Record] /\ batch'[w] = {}
        /\ job' \in [Workers -> Record]
        /\ \A v \in Workers : v # w =>
             tpc'[v] = tpc[v] /\ batch'[v] = batch[v] /\ job'[v] = job[v]
    BY DEF Restart, TypeOK, TPC, Record, NoRecord
  <1> QED
    BY <1>1, <1>2 DEF Restart, TypeOK, effects

\* Every statement of the consumer goroutine keeps every variable in its type.
LEMMA TypeConsumerStep ==
    ASSUME TypeOK, NEW w \in Workers, ConsumerStep(w)
    PROVE  TypeOK'
  <1> USE LogAssumption DEF Log
  <1>1. CASE Poll(w)
    <2>1. position + 1 \in 0..published /\ position + 1 \in Log
      BY <1>1 DEF Poll, ProcessEvent, TypeOK
    <2>2. position' \in 0..published /\ cur' \in [Workers -> 0..published] /\ tries' \in [Poison -> Nat]
      BY <1>1, <2>1 DEF Poll, ProcessEvent, TypeOK
    <2>3. cpc' \in [Workers -> CPC] /\ cur'[w] = position + 1
      BY <1>1 DEF Poll, ProcessEvent, TypeOK, Goto, CPC
    <2> QED
      BY <1>1, <2>1, <2>2, <2>3 DEF Poll, ProcessEvent, TypeOK, Goto, NextMessage, CPC, TPC, StoreOK, StoreError, kafka, consumer, ticker, effects, faulty
  <1>2. CASE GetMaxRetryAttempt(w)
    <2>1. \A a \in MaxAttempt(cur[w]) : a \in Nat
      <3>1. \A i \in DOMAIN retries : retries[i] \in RetryRow
        BY DEF TypeOK
      <3>2. \A i \in DOMAIN retries : retries[i].attempt \in Nat
        BY <3>1 DEF RetryRow
      <3> QED
        BY <3>2 DEF MaxAttempt, Attempts
    <2>2. seen' \in [Workers -> Nat]
      <3>1. seen \in [Workers -> Nat]
        BY DEF TypeOK
      <3>2. \E a \in Nat : seen' = [seen EXCEPT ![w] = a]
        BY <1>2, <2>1 DEF GetMaxRetryAttempt
      <3> QED
        BY <3>1, <3>2
    <2> QED
      BY <1>2, <2>2 DEF GetMaxRetryAttempt, TypeOK, Goto, NextMessage, CPC, TPC, StoreOK, StoreError, kafka, consumer, ticker, effects, faulty
  <1>3. CASE Schedule(w)
    <2>1. cur[w] \in Poison /\ seen[w] \in Nat /\ seen[w] + 1 \in Nat
      BY <1>3 DEF Schedule, TypeOK
    <2>2. retries' = retries \/ RetriesGrow
      BY <1>3, <2>1, CreateRetryGrows DEF Schedule, TypeOK
    <2>3. dlq' = dlq \/ DLQGrows
      BY <1>3, <2>1, DeadLetterGrows DEF Schedule, TypeOK
    <2>4. retries' \in Seq(RetryRow) /\ DOMAIN retries \subseteq DOMAIN retries'
      BY <2>2 DEF RetriesGrow, TypeOK
    <2>5. dlq' \in Seq(DLQRow)
      BY <2>3 DEF DLQGrows, TypeOK
    <2>6. /\ cpc' \in [Workers -> CPC] /\ cur' \in [Workers -> 0..published]
          /\ seen' \in [Workers -> Nat]
          /\ cpc'[w] = "poll"
          /\ \A v \in Workers : v # w => cpc'[v] = cpc[v] /\ cur'[v] = cur[v]
      BY <1>3 DEF Schedule, NextMessage, Goto, TypeOK, CPC
    <2> QED
      BY <1>3, <2>4, <2>5, <2>6 DEF Schedule, TypeOK, kafka, ticker, effects, faulty
  <1>4. CASE UpsertOffset(w)
    <2>1. /\ cpc' \in [Workers -> CPC] /\ cpc'[w] \in {"create", "commit"} /\ (cpc'[w] = "create" => cur[w] \in Purchases)
          /\ \A v \in Workers : v # w => cpc'[v] = cpc[v]
      BY <1>4 DEF UpsertOffset, NextMessage, Goto, TypeOK, CPC
    <2>2. /\ cur[w] \in Log \ Poison /\ cur[w] \in Log \ Poison /\ cur' = cur
          /\ pgOffset' \in 0..published
      BY <1>4 DEF UpsertOffset, TypeOK
    <2>3. handled' = handled \/ handled' = handled \cup {cur[w]}
      BY <1>4 DEF UpsertOffset
    <2>4. handled' \subseteq Log \ Poison
      BY <2>2, <2>3 DEF TypeOK
    <2> QED
      BY <1>4, <2>1, <2>2, <2>4 DEF UpsertOffset, TypeOK, kafka, consumer, ticker, effects, faulty
  <1>5. CASE PostWorkflow(w)
    <2>1. /\ cpc' \in [Workers -> CPC] /\ cpc'[w] \in {"start", "commit"}
          /\ \A v \in Workers : v # w => cpc'[v] = cpc[v]
      BY <1>5 DEF PostWorkflow, NextMessage, Goto, TypeOK, CPC
    <2>2. cur[w] \in Purchases /\ cur[w] \in Log \ Poison /\ cur' = cur
      BY <1>5 DEF PostWorkflow, TypeOK
    <2>5. created' = created \/ created' = [created EXCEPT ![cur[w]] = @ + 1]
      BY <1>5 DEF PostWorkflow
    <2>6. created' \in [Purchases -> Nat]
      <3>1. created \in [Purchases -> Nat] /\ created[cur[w]] + 1 \in Nat
        BY <2>2 DEF TypeOK
      <3> QED
        BY ONLY <2>2, <2>5, <3>1
    <2>3. handled' = handled \/ handled' = handled \cup {cur[w]}
      BY <1>5 DEF PostWorkflow
    <2>4. handled' \subseteq Log \ Poison
      BY <2>2, <2>3 DEF TypeOK
    <2> QED
      BY <1>5, <2>1, <2>2, <2>4, <2>6 DEF PostWorkflow, TypeOK, kafka, consumer, ticker, effects, faulty
  <1>6. CASE PostRun(w)
    <2>1. /\ cpc' \in [Workers -> CPC] /\ cpc'[w] \in {"commit"}
          /\ \A v \in Workers : v # w => cpc'[v] = cpc[v]
      BY <1>6 DEF PostRun, NextMessage, Goto, TypeOK, CPC
    <2>2. cur[w] \in Purchases /\ cur[w] \in Log \ Poison /\ cur' = cur
      BY <1>6 DEF PostRun, TypeOK
    <2>5. started' = started \/ started' = [started EXCEPT ![cur[w]] = @ + 1]
      BY <1>6 DEF PostRun
    <2>6. started' \in [Purchases -> Nat]
      <3>1. started \in [Purchases -> Nat] /\ started[cur[w]] + 1 \in Nat
        BY <2>2 DEF TypeOK
      <3> QED
        BY ONLY <2>2, <2>5, <3>1
    <2>3. handled' = handled \/ handled' = handled \cup {cur[w]}
      BY <1>6 DEF PostRun
    <2>4. handled' \subseteq Log \ Poison
      BY <2>2, <2>3 DEF TypeOK
    <2> QED
      BY <1>6, <2>1, <2>2, <2>4, <2>6 DEF PostRun, TypeOK, kafka, consumer, ticker, effects, faulty
  <1>7. CASE CommitMessage(w)
    <2>1. /\ cpc' \in [Workers -> CPC] /\ cpc'[w] \in {"poll"}
          /\ \A v \in Workers : v # w => cpc'[v] = cpc[v]
      BY <1>7 DEF CommitMessage, NextMessage, Goto, TypeOK, CPC
    <2>2. /\ cur' \in [Workers -> 0..published] /\ seen' \in [Workers -> Nat]
          /\ \A v \in Workers : v # w => cur'[v] = cur[v]
          /\ committed' \in 0..published
      BY <1>7 DEF CommitMessage, NextMessage, TypeOK
    <2> QED
      BY <1>7, <2>1, <2>2 DEF CommitMessage, TypeOK, kafka, consumer, ticker, effects, faulty
  <1>8. CASE Exit(w)
    <2>1. Restart(w) /\ faults' \in 0..MaxFaults
      BY <1>8 DEF Exit, TypeOK
    <2> QED
      BY <2>1, RestartType
  <1> QED
    BY <1>1, <1>2, <1>3, <1>4, <1>5, <1>6, <1>7, <1>8 DEF ConsumerStep

\* Every statement of the ticker goroutine keeps every variable in its type.
LEMMA TypeTickerStep ==
    ASSUME TypeOK, NEW w \in Workers, TickerStep(w)
    PROVE  TypeOK'
  <1>1. CASE PendingRetries(w)
    <2>1. PICK S \in SUBSET DueRows :
             batch' = [batch EXCEPT ![w] = {[id |-> i, attempt |-> retries[i].attempt] : i \in S}]
      BY <1>1 DEF PendingRetries
    <2>2. \A i \in S : i \in Nat /\ i \in DOMAIN retries /\ retries[i] \in RetryRow
      BY DEF DueRows, TypeOK
    <2>3. \A i \in S : retries[i].attempt \in Nat
      BY <2>2 DEF RetryRow
    <2>4. \A i \in S : [id |-> i, attempt |-> retries[i].attempt] \in Record
      BY <2>2, <2>3 DEF Record
    <2>5. \A i \in S : [id |-> i, attempt |-> retries[i].attempt].id \in DOMAIN retries
      BY <2>2
    <2> DEFINE B == {[id |-> i, attempt |-> retries[i].attempt] : i \in S}
    <2>6. B \in SUBSET Record /\ \A b \in B : b.id \in DOMAIN retries
      BY <2>4, <2>5
    <2>7. batch' = [batch EXCEPT ![w] = B]
      BY <2>1
    <2> HIDE DEF B
    <2>8. /\ batch' \in [Workers -> SUBSET Record]
          /\ \A v \in Workers : \A b \in batch'[v] : b.id \in DOMAIN retries
      BY <2>6, <2>7 DEF TypeOK
    <2>9. tpc' \in [Workers -> TPC] /\ \A v \in Workers : tpc'[v] = "dlq" => tpc[v] = "dlq"
      BY <1>1 DEF PendingRetries, TypeOK, TPC
    <2> QED
      BY <1>1, <2>8, <2>9 DEF PendingRetries, TypeOK, kafka, consumer, effects, faulty
  <1>2. ASSUME NEW b \in batch[w], RetryFails(w, b)
        PROVE  TypeOK'
    <2>1. /\ b \in Record /\ b.id \in DOMAIN retries
          /\ retries[b.id] \in RetryRow /\ batch[w] \in SUBSET Record
      BY DEF TypeOK
    <2>2. /\ b.attempt + 1 \in Nat /\ b.id \in Nat
          /\ retries[b.id].event \in Poison
          /\ [b EXCEPT !.attempt = @ + 1] \in Record
          /\ [b EXCEPT !.attempt = @ + 1].id = b.id
      BY <2>1 DEF Record, RetryRow
    <2>3. RetriesGrow
      BY <1>2, <2>1, <2>2, UpdateRetryGrows DEF RetryFails, TypeOK
    <2>4. retries' \in Seq(RetryRow) /\ DOMAIN retries \subseteq DOMAIN retries'
      BY <2>3 DEF RetriesGrow
    <2>5. tries' \in [Poison -> Nat]
      <3>1. tries \in [Poison -> Nat] /\ tries[retries[b.id].event] + 1 \in Nat
        BY <2>2 DEF TypeOK
      <3>2. tries' = [tries EXCEPT ![retries[b.id].event] = tries[retries[b.id].event] + 1]
        BY <1>2 DEF RetryFails
      <3> QED
        BY ONLY <2>2, <3>1, <3>2
    <2>6. batch' = [batch EXCEPT ![w] = batch[w] \ {b}]
      BY <1>2 DEF RetryFails, NextRecord
    <2>7. /\ batch' \in [Workers -> SUBSET Record]
          /\ \A v \in Workers : batch'[v] \subseteq batch[v]
      BY <2>6 DEF TypeOK
    <2>8. \/ /\ tpc' \in [Workers -> TPC] /\ job' = job
             /\ \A v \in Workers : tpc'[v] = "dlq" => tpc[v] = "dlq"
          \/ /\ tpc' = [tpc EXCEPT ![w] = "dlq"]
             /\ job' = [job EXCEPT ![w] = [b EXCEPT !.attempt = @ + 1]]
      BY <1>2 DEF RetryFails, NextRecord, TypeOK, TPC
    <2>9. /\ tpc' \in [Workers -> TPC] /\ job' \in [Workers -> Record]
          /\ \A v \in Workers : tpc'[v] = "dlq" => job'[v].id \in DOMAIN retries
      <3>1. CASE /\ tpc' \in [Workers -> TPC] /\ job' = job
                 /\ \A v \in Workers : tpc'[v] = "dlq" => tpc[v] = "dlq"
        BY <3>1 DEF TypeOK
      <3>2. CASE /\ tpc' = [tpc EXCEPT ![w] = "dlq"]
                 /\ job' = [job EXCEPT ![w] = [b EXCEPT !.attempt = @ + 1]]
        <4> DEFINE j == [b EXCEPT !.attempt = @ + 1]
        <4>1. j \in Record /\ j.id \in DOMAIN retries
          BY <2>1, <2>2
        <4>2. job' = [job EXCEPT ![w] = j]
          BY <3>2
        <4> HIDE DEF j
        <4>3. /\ tpc \in [Workers -> TPC] /\ job \in [Workers -> Record]
              /\ \A v \in Workers : tpc[v] = "dlq" => job[v].id \in DOMAIN retries
          BY DEF TypeOK
        <4>4. tpc' = [tpc EXCEPT ![w] = "dlq"] /\ "dlq" \in TPC
          BY <3>2 DEF TPC
        <4>5. tpc' \in [Workers -> TPC] /\ job' \in [Workers -> Record]
          BY ONLY <4>1, <4>2, <4>3, <4>4
        <4>6. /\ job'[w] = j
              /\ \A v \in Workers : v # w => tpc'[v] = tpc[v] /\ job'[v] = job[v]
          BY ONLY <4>2, <4>3, <4>4, w \in Workers
        <4> QED
          BY ONLY <4>1, <4>3, <4>5, <4>6
      <3> QED
        BY <2>8, <3>1, <3>2
    <2> QED
      BY <1>2, <2>4, <2>5, <2>7, <2>9 DEF RetryFails, TypeOK, kafka, consumer, effects, faulty
  <1>3. ASSUME NEW b \in batch[w], RetrySucceeds(w, b)
        PROVE  TypeOK'
    <2>0. b \in Record
      BY DEF TypeOK
    <2>1. b \in Record /\ b.id \in DOMAIN retries /\ b.attempt \in Nat
      BY <2>0 DEF TypeOK, Record
    <2>2. RetriesGrow
      BY <1>3, <2>1, UpdateRetryGrows DEF RetrySucceeds, TypeOK
    <2>3. retries' \in Seq(RetryRow) /\ DOMAIN retries \subseteq DOMAIN retries'
      BY <2>2 DEF RetriesGrow
    <2>4. batch' = [batch EXCEPT ![w] = batch[w] \ {b}]
      BY <1>3 DEF RetrySucceeds, NextRecord
    <2>5. /\ batch' \in [Workers -> SUBSET Record]
          /\ \A v \in Workers : batch'[v] \subseteq batch[v]
      BY <2>4 DEF TypeOK
    <2>6. /\ tpc' \in [Workers -> TPC] /\ job' = job
          /\ \A v \in Workers : tpc'[v] = "dlq" => tpc[v] = "dlq"
      BY <1>3 DEF RetrySucceeds, NextRecord, TypeOK, TPC
    <2> QED
      BY <1>3, <2>3, <2>5, <2>6 DEF RetrySucceeds, TypeOK, kafka, consumer, effects, faulty
  <1>4. CASE MoveToDLQ(w)
    <2>3. dlq' = dlq \/ DLQGrows
      BY <1>4, MoveToDLQGrows
    <2>4. dlq' \in Seq(DLQRow)
      BY <2>3 DEF DLQGrows, TypeOK
    <2>5. batch' = batch /\ tpc' \in [Workers -> TPC]
      BY <1>4 DEF MoveToDLQ, NextRecord, TypeOK, TPC
    <2>6. /\ job' \in [Workers -> Record]
          /\ \A v \in Workers : v # w => job'[v] = job[v]
      BY <1>4 DEF MoveToDLQ, TypeOK, Record, NoRecord
    <2>7. \A v \in Workers : tpc'[v] = "dlq" => v # w /\ tpc[v] = "dlq"
      BY <1>4 DEF MoveToDLQ, NextRecord, TypeOK
    <2> QED
      BY <1>4, <2>4, <2>5, <2>6, <2>7 DEF MoveToDLQ, TypeOK, kafka, consumer, effects, faulty
  <1> QED
    BY <1>1, <1>2, <1>3, <1>4 DEF TickerStep

\* Every step of the system keeps every variable in its type.
LEMMA TypeNext == TypeOK /\ [Next]_vars => TypeOK'
  <1> SUFFICES ASSUME TypeOK, [Next]_vars PROVE TypeOK'
    OBVIOUS
  <1>1. CASE Publish
    BY <1>1, LogAssumption
    DEF Publish, TypeOK, consumer, ticker, effects, faulty
  <1>2. ASSUME NEW e \in Poison, StoreEvent(e) PROVE TypeOK'
    BY <1>2 DEF StoreEvent, TypeOK, kafka, consumer, ticker, effects, faulty
  <1>3. ASSUME NEW w \in Workers, Assign(w) PROVE TypeOK'
    BY <1>3 DEF Assign, TypeOK, consumer, ticker, effects, faulty
  <1>4. CASE Rebalance
    BY <1>4, WorkersAssumption DEF Rebalance, Occurs, TypeOK, consumer, ticker, effects
  <1>5. ASSUME NEW w \in Workers, ConsumerStep(w) PROVE TypeOK'
    BY <1>5, TypeConsumerStep
  <1>6. ASSUME NEW w \in Workers, TickerStep(w) PROVE TypeOK'
    BY <1>6, TypeTickerStep
  <1>7. ASSUME NEW i \in DOMAIN retries, BecomeDue(i) PROVE TypeOK'
    <2>4. retries' \in Seq(RetryRow) /\ DOMAIN retries \subseteq DOMAIN retries'
      BY <1>7, BecomeDueGrows DEF RetriesGrow
    <2> QED
      BY <1>7, <2>4 DEF BecomeDue, TypeOK, kafka, consumer, ticker, effects, faulty
  <1>8. ASSUME NEW w \in Workers, Crash(w) PROVE TypeOK'
    <2>1. Restart(w) /\ faults' \in 0..MaxFaults
      BY <1>8, WorkersAssumption DEF Crash, Occurs, TypeOK
    <2> QED
      BY <2>1, RestartType
  <1>9. ASSUME NEW w \in Workers, Shutdown(w) PROVE TypeOK'
    BY <1>9, WorkersAssumption
    DEF Shutdown, Occurs, TypeOK, kafka, consumer, ticker, effects
  <1>10. ASSUME NEW w \in Workers, FatalError(w) PROVE TypeOK'
    <2>1. /\ cpc' \in [Workers -> CPC] /\ cpc'[w] = "dead"
          /\ \A v \in Workers : v # w => cpc'[v] = cpc[v]
      BY <1>10 DEF FatalError, Goto, TypeOK, CPC
    <2>2. faults' \in 0..MaxFaults /\ owner' \in Workers \cup {NoWorker}
      BY <1>10, WorkersAssumption DEF FatalError, Occurs, TypeOK
    <2> QED
      BY <1>10, <2>1, <2>2 DEF FatalError, TypeOK, ticker, effects
  <1>11. CASE UNCHANGED vars
    BY <1>11 DEF vars, TypeOK, kafka, consumer, ticker, effects, faulty
  <1> QED
    BY <1>1, <1>2, <1>3, <1>4, <1>5, <1>6, <1>7, <1>8, <1>9, <1>10, <1>11 DEF Next

\* In every reachable state every variable has its type: no consumer is ahead
\* of the log, a message is only ever scheduled for retry if it is poison, and
\* every record a ticker holds is a row of the retries table.
THEOREM TypeCorrect == Spec => []TypeOK
  BY TypeInit, TypeNext, PTL DEF Spec

-----------------------------------------------------------------------------
(* At-least-once delivery *)

\* An UNCHANGED table has grown by nothing.
LEMMA NoGrowth ==
    ASSUME TypeOK
    PROVE  /\ retries' = retries => RetriesGrow
           /\ dlq' = dlq => DLQGrows
  BY DEF TypeOK, RetriesGrow, DLQGrows

\* No step takes an event out of handled, deletes a row of retries or of
\* dead_letter_messages, or makes a row speak of another event.
LEMMA Monotone ==
    ASSUME TypeOK, [Next]_vars
    PROVE  handled \subseteq handled' /\ RetriesGrow /\ DLQGrows
  <1>1. CASE /\ retries' = retries /\ dlq' = dlq
             /\ handled \subseteq handled'
    BY <1>1, NoGrowth
  <1>2. ASSUME NEW w \in Workers, Schedule(w)
        PROVE  handled \subseteq handled' /\ RetriesGrow /\ DLQGrows
    <2>1. cur[w] \in Poison /\ seen[w] \in Nat /\ seen[w] + 1 \in Nat
      BY <1>2 DEF Schedule, TypeOK
    <2>2. retries' = retries \/ RetriesGrow
      BY <1>2, <2>1, CreateRetryGrows DEF Schedule, TypeOK
    <2>3. dlq' = dlq \/ DLQGrows
      BY <1>2, <2>1, DeadLetterGrows DEF Schedule, TypeOK
    <2> QED
      BY <1>2, <2>2, <2>3, NoGrowth DEF Schedule, effects
  <1>3. ASSUME NEW w \in Workers, NEW b \in batch[w], RetryFails(w, b) \/ RetrySucceeds(w, b)
        PROVE  handled \subseteq handled' /\ RetriesGrow /\ DLQGrows
    <2>0. b \in Record
      BY DEF TypeOK
    <2>1. b.id \in DOMAIN retries /\ b.attempt \in Nat /\ b.attempt + 1 \in Nat
      BY <2>0 DEF TypeOK, Record
    <2>2. RetriesGrow
      BY <1>3, <2>1, UpdateRetryGrows DEF RetryFails, RetrySucceeds, TypeOK
    <2> QED
      BY <1>3, <2>2, NoGrowth DEF RetryFails, RetrySucceeds, effects
  <1>4. ASSUME NEW w \in Workers, MoveToDLQ(w)
        PROVE  handled \subseteq handled' /\ RetriesGrow /\ DLQGrows
    BY <1>4, NoGrowth, MoveToDLQGrows DEF MoveToDLQ, effects
  <1>5. ASSUME NEW i \in DOMAIN retries, BecomeDue(i)
        PROVE  handled \subseteq handled' /\ RetriesGrow /\ DLQGrows
    BY <1>5, NoGrowth, BecomeDueGrows DEF BecomeDue, effects
  <1>6. ASSUME NEW w \in Workers,
               \/ Poll(w) \/ GetMaxRetryAttempt(w) \/ UpsertOffset(w) \/ PostWorkflow(w)
               \/ PostRun(w) \/ CommitMessage(w) \/ Exit(w) \/ PendingRetries(w)
               \/ Assign(w) \/ Crash(w) \/ Shutdown(w) \/ FatalError(w)
        PROVE  retries' = retries /\ dlq' = dlq /\ handled \subseteq handled'
    BY <1>6 DEF Poll, GetMaxRetryAttempt, UpsertOffset, PostWorkflow, PostRun, CommitMessage,
                Exit, PendingRetries, Assign, Crash, Shutdown, FatalError, Restart, effects
  <1>7. CASE Publish \/ Rebalance \/ (\E e \in Poison : StoreEvent(e)) \/ UNCHANGED vars
    <2>1. retries' = retries /\ dlq' = dlq /\ handled' = handled
      BY <1>7 DEF Publish, Rebalance, StoreEvent, vars, effects
    <2> QED
      BY <2>1, <1>1
  <1> QED
    BY <1>1, <1>2, <1>3, <1>4, <1>5, <1>6, <1>7 DEF Next, ConsumerStep, TickerStep

\* Once accounted for, always accounted for.
LEMMA CoveredStays ==
    ASSUME TypeOK, [Next]_vars, NEW e, Covered(e)
    PROVE  Covered(e)'
  <1>1. handled \subseteq handled' /\ RetriesGrow /\ DLQGrows
    BY Monotone
  <1> QED
    BY <1>1 DEF Covered, InRetries, InDLQ, RetriesGrow, DLQGrows

\* What DeliveryInvariant says of a worker stays true while the worker's own
\* goroutine and its place in the group do not change.
LEMMA DeliveryStays ==
    ASSUME TypeOK, [Next]_vars, NEW v \in Workers,
           BehindMessage(v), CommitsHandled(v), BehindPosition(v),
           cpc'[v] = cpc[v], cur'[v] = cur[v],
           (owner' = v /\ v \notin cancelled') =>
              owner = v /\ v \notin cancelled /\ position' = position
    PROVE  BehindMessage(v)' /\ CommitsHandled(v)' /\ BehindPosition(v)'
  <1>1. \A e \in Log : Covered(e) => Covered(e)'
    BY CoveredStays
  <1>2. handled \subseteq handled'
    BY Monotone
  <1> HIDE DEF Covered
  <1> QED
    BY <1>1, <1>2 DEF BehindMessage, CommitsHandled, BehindPosition, Busy

\* The offsets stay covered while they do not change.
LEMMA OffsetsStay ==
    ASSUME TypeOK, [Next]_vars, CommittedCovered, OffsetRowCovered
    PROVE  /\ committed' = committed => CommittedCovered'
           /\ pgOffset' = pgOffset => OffsetRowCovered'
  BY CoveredStays DEF CommittedCovered, OffsetRowCovered

\* Initially there is nothing to account for.
LEMMA DeliveryInit == Init => DeliveryInvariant
  BY WorkersAssumption
  DEF Init, DeliveryInvariant, CommittedCovered, OffsetRowCovered, BehindMessage,
      CommitsHandled, BehindPosition, Busy, Log

\* As long as PostgreSQL answers, every statement of a consumer goroutine
\* preserves the invariant.
LEMMA DeliveryConsumerStep ==
    ASSUME ~StoreMayFail, TypeOK, TypeOK', DeliveryInvariant, [Next]_vars,
           NEW w \in Workers, ConsumerStep(w)
    PROVE  DeliveryInvariant'
  <1>m. \A e \in Log : Covered(e) => Covered(e)'
    BY CoveredStays
  <1>h. handled \subseteq handled' /\ \A e \in Log : e \in handled' => Covered(e)'
    BY Monotone DEF Covered
  <1>i. /\ CommittedCovered /\ OffsetRowCovered
        /\ BehindMessage(w) /\ CommitsHandled(w) /\ BehindPosition(w)
    BY DEF DeliveryInvariant
  <1>o. /\ committed' = committed => CommittedCovered'
        /\ pgOffset' = pgOffset => OffsetRowCovered'
    BY <1>i, OffsetsStay
  <1>v. ASSUME NEW v \in Workers, v # w
        PROVE  BehindMessage(v)' /\ CommitsHandled(v)' /\ BehindPosition(v)'
    <2>1. CASE Poll(w) \/ CommitMessage(w)
      <3>1. /\ cpc'[v] = cpc[v] /\ cur'[v] = cur[v]
            /\ owner' = v => position' = position /\ owner' = owner /\ cancelled' = cancelled
            /\ UNCHANGED <<owner, cancelled>>
        BY <1>v, <2>1 DEF Poll, CommitMessage, NextMessage, Goto, TypeOK
      <3> QED
        BY <3>1, DeliveryStays DEF DeliveryInvariant
    <2>2. CASE GetMaxRetryAttempt(w) \/ Schedule(w) \/ UpsertOffset(w) \/ PostWorkflow(w) \/ PostRun(w)
      <3>1. /\ cpc'[v] = cpc[v] /\ cur'[v] = cur[v]
            /\ UNCHANGED <<owner, position, cancelled>>
        BY <1>v, <2>2
        DEF GetMaxRetryAttempt, Schedule, UpsertOffset, PostWorkflow, PostRun, NextMessage, Goto,
            kafka, TypeOK
      <3> QED
        BY <3>1, DeliveryStays DEF DeliveryInvariant
    <2>3. CASE Exit(w)
      <3>1. /\ cpc'[v] = cpc[v] /\ cur'[v] = cur[v]
            /\ position' = position
            /\ owner' = v => owner = v
            /\ v \notin cancelled' => v \notin cancelled
        BY <1>v, <2>3, WorkersAssumption DEF Exit, Restart, NextMessage, Goto, TypeOK
      <3> QED
        BY <3>1, DeliveryStays DEF DeliveryInvariant
    <2> QED
      BY <2>1, <2>2, <2>3 DEF ConsumerStep
  <1>s. SUFFICES /\ CommittedCovered' /\ OffsetRowCovered'
                 /\ BehindMessage(w)' /\ CommitsHandled(w)' /\ BehindPosition(w)'
    BY <1>v DEF DeliveryInvariant
  <1>t. /\ cpc \in [Workers -> CPC] /\ cur \in [Workers -> 0..published]
        /\ position \in Nat /\ published \in 0..MaxLog /\ MaxLog \in Nat
        /\ cur[w] \in Nat /\ cur'[w] \in Nat
    <2>1. /\ cpc \in [Workers -> CPC] /\ cur \in [Workers -> 0..published]
          /\ position \in 0..published /\ published \in 0..MaxLog /\ MaxLog \in Nat
      BY LogAssumption DEF TypeOK
    <2>2. cur' \in [Workers -> 0..published'] /\ published' \in 0..MaxLog
      BY DEF TypeOK
    <2>3. published \in Nat /\ published' \in Nat
      BY <2>1, <2>2
    <2>4. cur[w] \in 0..published /\ cur'[w] \in 0..published'
      BY <2>1, <2>2
    <2> QED
      BY <2>1, <2>3, <2>4
  <1> USE DEF Log
  <1>1. CASE Poll(w)
    <2>1. /\ owner = w /\ w \notin cancelled /\ ~Busy(w)
          /\ position' = position + 1 /\ cur'[w] = position + 1
          /\ cpc'[w] \in {"attempt", "offset"}
          /\ committed' = committed /\ pgOffset' = pgOffset
      BY <1>1, <1>t DEF Poll, Busy, Goto
    <2>2. \A e \in Log : e <= position => Covered(e)'
      BY <1>i, <1>m, <2>1 DEF BehindPosition
    <2> QED
      BY <1>o, <1>t, <2>1, <2>2 DEF BehindMessage, CommitsHandled, BehindPosition, Busy
  <1>2. CASE GetMaxRetryAttempt(w)
    <2>1. /\ cpc[w] = "attempt" /\ cpc'[w] = "schedule" /\ cur' = cur
          /\ UNCHANGED <<committed, pgOffset, owner, cancelled, position>>
      BY <1>2, <1>t DEF GetMaxRetryAttempt, Goto, kafka
    <2> QED
      BY <1>i, <1>m, <1>o, <2>1 DEF BehindMessage, CommitsHandled, BehindPosition, Busy
  <1>3. CASE Schedule(w)
    <2>1. /\ cpc[w] = "schedule" /\ cpc'[w] = "poll"
          /\ UNCHANGED <<committed, pgOffset, owner, cancelled, position>>
      BY <1>3, <1>t DEF Schedule, NextMessage, Goto, kafka
    <2>2. ASSUME w \notin cancelled, NEW e \in Log, e = cur[w]
          PROVE  Covered(e)'
      <3>1. e \in Poison /\ seen[w] \in Nat
        BY <2>1, <2>2 DEF TypeOK
      <3>2. seen[w] + 1 \in Nat
        BY <3>1
      <3>3. \/ DeadLetter(e, seen[w], FALSE)
            \/ retries' = Append(retries, [event |-> e, attempt |-> seen[w] + 1,
                                           due |-> FALSE, status |-> "pending"])
        BY <1>3, <2>2 DEF Schedule, StoreError
      <3>4. CASE DeadLetter(e, seen[w], FALSE)
        <4>1. \E i \in DOMAIN dlq' : dlq'[i].event = e
          BY <3>1, <3>4, DeadLetterGrows DEF TypeOK
        <4> QED
          BY <4>1 DEF Covered, InDLQ
      <3>5. CASE retries' = Append(retries, [event |-> e, attempt |-> seen[w] + 1,
                                             due |-> FALSE, status |-> "pending"])
        <4>1. \E i \in DOMAIN retries' : retries'[i].event = e
          BY <3>1, <3>2, <3>5, CreateRetryGrows DEF TypeOK
        <4> QED
          BY <4>1 DEF Covered, InRetries
      <3> QED
        BY <3>3, <3>4, <3>5
    <2> QED
      BY <1>i, <1>m, <1>o, <2>1, <2>2 DEF BehindMessage, CommitsHandled, BehindPosition, Busy
  <1>4. CASE UpsertOffset(w)
    <2>1. /\ cpc[w] = "offset" /\ cpc'[w] \in {"create", "commit"} /\ cur' = cur
          /\ cpc'[w] = "commit" => cur[w] \in handled'
          /\ UNCHANGED <<committed, owner, cancelled, position>>
          /\ pgOffset' = pgOffset \/ pgOffset' = cur[w]
      BY <1>4, <1>t DEF UpsertOffset, Goto, kafka
    <2>2. \A e \in Log : e < cur[w] => Covered(e)'
      BY <1>i, <1>m, <2>1 DEF BehindMessage, Busy
    <2>3. OffsetRowCovered'
      BY <1>o, <2>1, <2>2 DEF OffsetRowCovered
    <2> QED
      BY <1>i, <1>m, <1>o, <2>1, <2>2, <2>3 DEF BehindMessage, CommitsHandled, BehindPosition, Busy
  <1>5. CASE PostWorkflow(w)
    <2>1. /\ cpc[w] = "create" /\ cpc'[w] \in {"start", "commit"} /\ cur' = cur
          /\ cpc'[w] = "commit" => cur[w] \in handled'
          /\ UNCHANGED <<committed, pgOffset, owner, cancelled, position>>
      BY <1>5, <1>t DEF PostWorkflow, Goto, kafka
    <2> QED
      BY <1>i, <1>m, <1>o, <2>1 DEF BehindMessage, CommitsHandled, BehindPosition, Busy
  <1>6. CASE PostRun(w)
    <2>1. /\ cpc[w] = "start" /\ cpc'[w] = "commit" /\ cur' = cur
          /\ cur[w] \in handled'
          /\ UNCHANGED <<committed, pgOffset, owner, cancelled, position>>
      BY <1>6, <1>t DEF PostRun, Goto, kafka
    <2> QED
      BY <1>i, <1>m, <1>o, <2>1 DEF BehindMessage, CommitsHandled, BehindPosition, Busy
  <1>7. CASE CommitMessage(w)
    <2>1. /\ cpc[w] = "commit" /\ cpc'[w] = "poll"
          /\ committed' = committed \/ committed' = cur[w]
          /\ UNCHANGED <<pgOffset, owner, cancelled, position, handled>>
      BY <1>7, <1>t DEF CommitMessage, NextMessage, Goto, effects
    <2>2. \A e \in Log : e <= cur[w] => Covered(e)'
      BY <1>i, <1>m, <1>h, <1>t, <2>1 DEF BehindMessage, CommitsHandled, Busy
    <2>3. CommittedCovered'
      <3>1. committed' \in 0..MaxLog
        BY <1>t DEF TypeOK
      <3> QED
        BY <1>o, <1>t, <2>1, <2>2, <3>1 DEF CommittedCovered
    <2> QED
      BY <1>i, <1>m, <1>o, <2>1, <2>2, <2>3 DEF BehindMessage, CommitsHandled, BehindPosition, Busy
  <1>8. CASE Exit(w)
    <2>1. /\ cpc'[w] = "poll" /\ owner' # w
          /\ committed' = committed /\ pgOffset' = pgOffset
      BY <1>8, <1>t, WorkersAssumption DEF Exit, Restart, NextMessage, Goto
    <2> QED
      BY <1>o, <2>1 DEF BehindMessage, CommitsHandled, BehindPosition, Busy
  <1> QED
    BY <1>1, <1>2, <1>3, <1>4, <1>5, <1>6, <1>7, <1>8 DEF ConsumerStep

\* The other goroutines, the broker, the coordinator and the faults preserve
\* it as well. A consumer that is given the partition starts from the
\* committed offset, and so behind nothing that is unaccounted for.
LEMMA DeliveryNext ==
    ASSUME ~StoreMayFail, TypeOK, TypeOK', DeliveryInvariant, [Next]_vars
    PROVE  DeliveryInvariant'
  <1>i. CommittedCovered /\ OffsetRowCovered
    BY DEF DeliveryInvariant
  <1>o. /\ committed' = committed => CommittedCovered'
        /\ pgOffset' = pgOffset => OffsetRowCovered'
    BY <1>i, OffsetsStay
  <1>f. ASSUME UNCHANGED <<committed, pgOffset>>,
               \A v \in Workers :
                  /\ cpc'[v] = cpc[v] /\ cur'[v] = cur[v]
                  /\ (owner' = v /\ v \notin cancelled') =>
                        owner = v /\ v \notin cancelled /\ position' = position
        PROVE  DeliveryInvariant'
    <2>1. ASSUME NEW v \in Workers
          PROVE  BehindMessage(v)' /\ CommitsHandled(v)' /\ BehindPosition(v)'
      BY <1>f, DeliveryStays DEF DeliveryInvariant
    <2> QED
      BY <1>f, <1>o, <2>1 DEF DeliveryInvariant
  <1>1. ASSUME UNCHANGED <<committed, pgOffset, owner, position, cpc, cur, cancelled>>
        PROVE  DeliveryInvariant'
    BY <1>1, <1>f
  <1>2. CASE Publish \/ (\E e \in Poison : StoreEvent(e)) \/ UNCHANGED vars
    <2>1. UNCHANGED <<committed, pgOffset, owner, position, cpc, cur, cancelled>>
      BY <1>2 DEF Publish, StoreEvent, vars, kafka, consumer
    <2> QED
      BY <1>1, <2>1
  <1>3. ASSUME NEW i \in DOMAIN retries, BecomeDue(i) PROVE DeliveryInvariant'
    BY <1>1, <1>3 DEF BecomeDue, kafka, consumer
  <1>4. ASSUME NEW w \in Workers, TickerStep(w) PROVE DeliveryInvariant'
    <2>1. UNCHANGED <<committed, pgOffset, owner, position, cpc, cur, cancelled>>
      BY <1>4 DEF TickerStep, PendingRetries, RetryFails, RetrySucceeds, MoveToDLQ, kafka, consumer
    <2> QED
      BY <1>1, <2>1
  <1>5. CASE Rebalance
    BY <1>5, <1>f, WorkersAssumption DEF Rebalance, consumer
  <1>6. ASSUME NEW w \in Workers, Assign(w) PROVE DeliveryInvariant'
    <2>1. /\ owner = NoWorker /\ owner' = w /\ position' = committed
          /\ UNCHANGED <<committed, pgOffset, cpc, cur, cancelled>>
      BY <1>6 DEF Assign, consumer
    <2>2. ASSUME NEW v \in Workers
          PROVE  BehindMessage(v)' /\ CommitsHandled(v)'
      <3>1. \A e \in Log : Covered(e) => Covered(e)'
        BY CoveredStays
      <3>2. handled \subseteq handled'
        BY Monotone
      <3>3. BehindMessage(v) /\ CommitsHandled(v)
        BY DEF DeliveryInvariant
      <3> QED
        BY <2>1, <3>1, <3>2, <3>3 DEF BehindMessage, CommitsHandled, Busy
    <2>3. CommittedCovered' /\ OffsetRowCovered'
      BY <1>o, <2>1
    <2>4. \A e \in Log : e <= position' => Covered(e)'
      <3>1. committed' \in Nat /\ \A e \in Log : e \in Nat /\ e >= 1
        BY LogAssumption DEF TypeOK, Log
      <3> QED
        BY <2>1, <2>3, <3>1 DEF CommittedCovered
    <2>5. \A v \in Workers : BehindPosition(v)'
      BY <2>4 DEF BehindPosition
    <2> QED
      BY <2>2, <2>3, <2>5 DEF DeliveryInvariant
  <1>7. ASSUME NEW w \in Workers, ConsumerStep(w) PROVE DeliveryInvariant'
    BY <1>7, DeliveryConsumerStep
  <1>8. ASSUME NEW w \in Workers, Crash(w) PROVE DeliveryInvariant'
    <2>1. /\ cpc'[w] = "poll" /\ owner' # w
          /\ UNCHANGED <<committed, pgOffset>>
      BY <1>8, WorkersAssumption DEF Crash, Restart, NextMessage, Goto, TypeOK
    <2>2. BehindMessage(w)' /\ CommitsHandled(w)' /\ BehindPosition(w)'
      BY <2>1 DEF BehindMessage, CommitsHandled, BehindPosition, Busy
    <2>3. ASSUME NEW v \in Workers, v # w
          PROVE  BehindMessage(v)' /\ CommitsHandled(v)' /\ BehindPosition(v)'
      <3>1. /\ cpc'[v] = cpc[v] /\ cur'[v] = cur[v]
            /\ position' = position
            /\ owner' = v => owner = v
            /\ v \notin cancelled' => v \notin cancelled
        BY <1>8, <2>3, WorkersAssumption DEF Crash, Restart, NextMessage, Goto, TypeOK
      <3> QED
        BY <3>1, DeliveryStays DEF DeliveryInvariant
    <2> QED
      BY <1>o, <2>1, <2>2, <2>3 DEF DeliveryInvariant
  <1>9. ASSUME NEW w \in Workers, Shutdown(w) PROVE DeliveryInvariant'
    BY <1>9, <1>f DEF Shutdown, kafka, consumer
  <1>10. ASSUME NEW w \in Workers, FatalError(w) PROVE DeliveryInvariant'
    <2>1. /\ cpc'[w] = "dead" /\ owner' # w
          /\ UNCHANGED <<committed, pgOffset>>
      BY <1>10, WorkersAssumption DEF FatalError, Goto, TypeOK
    <2>2. BehindMessage(w)' /\ CommitsHandled(w)' /\ BehindPosition(w)'
      BY <2>1 DEF BehindMessage, CommitsHandled, BehindPosition, Busy
    <2>3. ASSUME NEW v \in Workers, v # w
          PROVE  BehindMessage(v)' /\ CommitsHandled(v)' /\ BehindPosition(v)'
      <3>1. /\ cpc'[v] = cpc[v] /\ cur'[v] = cur[v]
            /\ UNCHANGED <<position, cancelled>>
            /\ owner' = v => owner = v
        BY <1>10, <2>3, WorkersAssumption DEF FatalError, Goto, TypeOK
      <3> QED
        BY <3>1, DeliveryStays DEF DeliveryInvariant
    <2> QED
      BY <1>o, <2>1, <2>2, <2>3 DEF DeliveryInvariant
  <1> QED
    BY <1>2, <1>3, <1>4, <1>5, <1>6, <1>7, <1>8, <1>9, <1>10 DEF Next

\* As long as PostgreSQL answers, DeliveryInvariant holds in every reachable
\* state, through crashes, shutdowns, rebalances, lost commits, and commits of
\* consumers that have lost the partition.
THEOREM DeliveryHolds ==
    ASSUME ~StoreMayFail
    PROVE  Spec => []DeliveryInvariant
  <1>1. TypeOK /\ TypeOK' /\ DeliveryInvariant /\ [Next]_vars => DeliveryInvariant'
    BY DeliveryNext
  <1> QED
    BY <1>1, DeliveryInit, TypeCorrect, PTL DEF Spec

\* At-least-once: under the same condition no event that Kafka will not deliver
\* again is unaccounted for, although pollLoop never seeks back to a message
\* whose handler failed.
THEOREM AtLeastOnce ==
    ASSUME ~StoreMayFail
    PROVE  Spec => []CommittedCovered
  <1>1. DeliveryInvariant => CommittedCovered
    BY DEF DeliveryInvariant
  <1> QED
    BY <1>1, DeliveryHolds, PTL

\* The audit copy of the offset in consumer_offsets never runs more than the
\* message in the handler's hands ahead of what is accounted for.
THEOREM AuditOffset ==
    ASSUME ~StoreMayFail
    PROVE  Spec => []OffsetRowCovered
  <1>1. DeliveryInvariant => OffsetRowCovered
    BY DEF DeliveryInvariant
  <1> QED
    BY <1>1, DeliveryHolds, PTL

-----------------------------------------------------------------------------
(* Attempts *)

\* The handlers that have failed at event e and not yet put it on record.
Failing(e) == {w \in Workers : cpc[w] \in {"attempt", "schedule"} /\ cur[w] = e}

\* A counter of event e at n is backed by attempts that took place, and leaves
\* one for each handler that may still count it up.
Backed(e, n) ==
    /\ IsFiniteSet(Failing(e))
    /\ n + Cardinality(Failing(e)) <= tries[e]

RowOK(r) ==
    /\ Backed(r.event, r.attempt)
    /\ r.attempt <= MaxAttempts + 1
    /\ r.status = "pending" => r.attempt <= MaxAttempts

DeadOK(d) ==
    /\ Backed(d.event, d.attempts)
    /\ MaxAttempts <= d.attempts /\ d.attempts <= MaxAttempts + 1

\* A record read from a pending row; the row may have moved on since.
RecordOK(b) ==
    /\ Backed(retries[b.id].event, b.attempt)
    /\ b.attempt <= MaxAttempts

JobOK(b) ==
    /\ Backed(retries[b.id].event, b.attempt)
    /\ MaxAttempts <= b.attempt /\ b.attempt <= MaxAttempts + 1

RowsOK == \A i \in DOMAIN retries : RowOK(retries[i])

DeadRowsOK == \A i \in DOMAIN dlq : DeadOK(dlq[i])

SeenOK(w) ==
    cpc[w] = "schedule" => Backed(cur[w], seen[w]) /\ seen[w] <= MaxAttempts + 1

TickerOK(w) ==
    /\ \A b \in batch[w] : RecordOK(b)
    /\ tpc[w] = "dlq" => JobOK(job[w])

\* Inductive strengthening of AttemptsBounded and DLQEarned: the bounds and the
\* backing hold of every copy of a counter, in a table or in a goroutine.
RetryInvariant ==
    /\ \A e \in Poison : Backed(e, 0)
    /\ RowsOK
    /\ DeadRowsOK
    /\ \A w \in Workers : SeenOK(w) /\ TickerOK(w)

\* No handler starts to fail but in Poll, and no step takes an attempt back.
LEMMA FailingShrinks ==
    ASSUME TypeOK, [Next]_vars, NEW e \in Poison,
           ~\E w \in Workers : Poll(w) /\ position + 1 = e
    PROVE  Failing(e)' \subseteq Failing(e) /\ tries'[e] >= tries[e]
  <1>t. /\ cpc \in [Workers -> CPC] /\ cur \in [Workers -> 0..published]
        /\ tries \in [Poison -> Nat] /\ tries[e] \in Nat
    BY DEF TypeOK
  <1>1. CASE UNCHANGED <<cpc, cur, tries>>
    BY <1>1, <1>t DEF Failing
  <1>2. ASSUME NEW w \in Workers, Poll(w)
        PROVE  Failing(e)' \subseteq Failing(e) /\ tries'[e] >= tries[e]
    <2>1. /\ position + 1 # e
          /\ cur' = [cur EXCEPT ![w] = position + 1]
          /\ cpc' = [cpc EXCEPT ![w] = "attempt"] \/ cpc' = [cpc EXCEPT ![w] = "offset"]
          /\ tries' = tries \/ tries' = [tries EXCEPT ![position + 1] = @ + 1]
      BY <1>2 DEF Poll, Goto
    <2>2. tries'[e] = tries[e]
      BY <1>t, <2>1
    <2>3. \A v \in Workers : cur'[v] = e => cur[v] = e /\ cpc'[v] = cpc[v]
      BY <1>t, <2>1
    <2> QED
      BY <1>t, <2>2, <2>3 DEF Failing
  <1>3. ASSUME NEW w \in Workers,
               \/ GetMaxRetryAttempt(w) \/ UpsertOffset(w) \/ PostWorkflow(w) \/ PostRun(w)
               \/ FatalError(w)
        PROVE  Failing(e)' \subseteq Failing(e) /\ tries'[e] >= tries[e]
    <2>1. /\ cur' = cur /\ tries' = tries
          /\ \A v \in Workers : cpc'[v] = cpc[v] \/ cpc[v] = "attempt" \/ cpc'[v] \notin {"attempt", "schedule"}
      BY <1>3, <1>t DEF GetMaxRetryAttempt, UpsertOffset, PostWorkflow, PostRun, FatalError, Goto
    <2> QED
      BY <1>t, <2>1 DEF Failing
  <1>4. ASSUME NEW w \in Workers,
               Schedule(w) \/ CommitMessage(w) \/ Exit(w) \/ Crash(w)
        PROVE  Failing(e)' \subseteq Failing(e) /\ tries'[e] >= tries[e]
    <2>1. /\ tries' = tries /\ cpc' = [cpc EXCEPT ![w] = "poll"]
          /\ cur' = [cur EXCEPT ![w] = 0]
      BY <1>4 DEF Schedule, CommitMessage, Exit, Crash, Restart, NextMessage, Goto
    <2>2. /\ cpc'[w] = "poll"
          /\ \A v \in Workers : v # w => cpc'[v] = cpc[v] /\ cur'[v] = cur[v]
      BY <1>t, <2>1
    <2> QED
      BY <1>t, <2>1, <2>2 DEF Failing
  <1>5. ASSUME NEW w \in Workers, NEW b \in batch[w], RetryFails(w, b)
        PROVE  Failing(e)' \subseteq Failing(e) /\ tries'[e] >= tries[e]
    <2>1. tries' = [tries EXCEPT ![retries[b.id].event] = @ + 1] /\ UNCHANGED <<cpc, cur>>
      BY <1>5 DEF RetryFails, consumer
    <2> QED
      BY <1>t, <2>1 DEF Failing
  <1>6. ASSUME NEW w \in Workers,
               \/ PendingRetries(w) \/ (\E b \in batch[w] : RetrySucceeds(w, b)) \/ MoveToDLQ(w)
               \/ Assign(w) \/ Shutdown(w)
        PROVE  UNCHANGED <<cpc, cur, tries>>
    BY <1>6 DEF PendingRetries, RetrySucceeds, MoveToDLQ, Assign, Shutdown, consumer
  <1>7. CASE \/ Publish \/ Rebalance \/ (\E a \in Poison : StoreEvent(a))
             \/ (\E i \in DOMAIN retries : BecomeDue(i)) \/ UNCHANGED vars
    BY <1>1, <1>7 DEF Publish, Rebalance, StoreEvent, BecomeDue, vars, consumer
  <1> QED
    BY <1>1, <1>2, <1>3, <1>4, <1>5, <1>6, <1>7 DEF Next, ConsumerStep, TickerStep

\* What is backed stays backed: the handler that Poll sends to the retry
\* engine has just made one more attempt.
LEMMA BackedStays ==
    ASSUME TypeOK, [Next]_vars, NEW e \in Poison, NEW n \in Nat, Backed(e, n)
    PROVE  Backed(e, n)'
  <1>t. tries[e] \in Nat /\ IsFiniteSet(Failing(e)) /\ Cardinality(Failing(e)) \in Nat
    BY FS_CardinalityType DEF TypeOK, Backed
  <1>1. CASE \E w \in Workers : Poll(w) /\ position + 1 = e
    <2>1. PICK w \in Workers : Poll(w) /\ position + 1 = e
      BY <1>1
    <2>2. /\ tries'[e] = tries[e] + 1
          /\ \A v \in Workers : v # w => cpc'[v] = cpc[v] /\ cur'[v] = cur[v]
      BY <2>1 DEF Poll, ProcessEvent, Goto, TypeOK
    <2>3. Failing(e)' \subseteq Failing(e) \cup {w}
      BY <2>2 DEF Failing
    <2>4. /\ IsFiniteSet(Failing(e) \cup {w})
          /\ Cardinality(Failing(e) \cup {w}) \in Nat
          /\ Cardinality(Failing(e) \cup {w}) <= Cardinality(Failing(e)) + 1
      BY <1>t, FS_AddElement
    <2>5. /\ IsFiniteSet(Failing(e)') /\ Cardinality(Failing(e)') \in Nat
          /\ Cardinality(Failing(e)') <= Cardinality(Failing(e) \cup {w})
      BY <2>3, <2>4, FS_Subset, FS_CardinalityType
    <2> QED
      BY <1>t, <2>2, <2>4, <2>5 DEF Backed
  <1>2. CASE ~\E w \in Workers : Poll(w) /\ position + 1 = e
    <2>1. Failing(e)' \subseteq Failing(e) /\ tries'[e] >= tries[e]
      BY <1>2, FailingShrinks
    <2>2. /\ IsFiniteSet(Failing(e)') /\ Cardinality(Failing(e)') \in Nat
          /\ Cardinality(Failing(e)') <= Cardinality(Failing(e))
      BY <1>t, <2>1, FS_Subset, FS_CardinalityType
    <2>3. tries'[e] \in Nat
      BY TypeNext DEF TypeOK
    <2> QED
      BY <1>t, <2>1, <2>2, <2>3 DEF Backed
  <1> QED
    BY <1>1, <1>2

\* The counters that a step leaves alone are as sound after it as before.
LEMMA RowStays ==
    ASSUME TypeOK, [Next]_vars, NEW r \in RetryRow, RowOK(r)
    PROVE  RowOK(r)'
  <1>1. r.event \in Poison /\ r.attempt \in Nat
    BY DEF RetryRow
  <1>2. Backed(r.event, r.attempt)'
    BY <1>1, BackedStays DEF RowOK
  <1> QED
    BY <1>2 DEF RowOK

\* The same of a row of dead_letter_messages.
LEMMA DeadStays ==
    ASSUME TypeOK, [Next]_vars, NEW d \in DLQRow, DeadOK(d)
    PROVE  DeadOK(d)'
  <1>1. d.event \in Poison /\ d.attempts \in Nat
    BY DEF DLQRow
  <1>2. Backed(d.event, d.attempts)'
    BY <1>1, BackedStays DEF DeadOK
  <1> QED
    BY <1>2 DEF DeadOK

\* The same of a ticker's copy of a row, whatever happens to the row itself.
LEMMA RecordStays ==
    ASSUME TypeOK, [Next]_vars, NEW b \in Record, b.id \in DOMAIN retries
    PROVE  /\ RecordOK(b) => RecordOK(b)'
           /\ JobOK(b) => JobOK(b)'
  <1>1. retries[b.id] \in RetryRow
    BY DEF TypeOK
  <1>2. retries[b.id].event \in Poison /\ b.attempt \in Nat
    BY <1>1 DEF RetryRow, Record
  <1>3. PICK e \in Poison, n \in Nat : e = retries[b.id].event /\ n = b.attempt
    BY <1>2
  <1>4. retries'[b.id].event = e
    BY <1>3, Monotone DEF RetriesGrow
  <1>5. Backed(e, n) => Backed(e, n)'
    BY BackedStays
  <1>6. RecordOK(b) \/ JobOK(b) => Backed(e, n)
    BY <1>3 DEF RecordOK, JobOK
  <1>7. RecordOK(b) \/ JobOK(b) => Backed(retries[b.id].event, b.attempt)'
    BY <1>3, <1>4, <1>5, <1>6 DEF Backed, Failing
  <1> QED
    BY <1>7 DEF RecordOK, JobOK

\* A consumer goroutine that stays where it is keeps what it has read.
LEMMA SeenStays ==
    ASSUME TypeOK, [Next]_vars, NEW v \in Workers, SeenOK(v),
           cpc'[v] = "schedule" => cpc[v] = "schedule" /\ cur'[v] = cur[v] /\ seen'[v] = seen[v]
    PROVE  SeenOK(v)'
  <1> SUFFICES ASSUME cpc'[v] = "schedule"
               PROVE  (Backed(cur[v], seen[v]) /\ seen[v] <= MaxAttempts + 1)'
    BY DEF SeenOK
  <1>1. cur[v] \in Poison /\ seen[v] \in Nat /\ Backed(cur[v], seen[v]) /\ seen[v] <= MaxAttempts + 1
    BY DEF SeenOK, TypeOK
  <1>2. PICK e \in Poison, n \in Nat : e = cur[v] /\ n = seen[v]
    BY <1>1
  <1>3. Backed(e, n)
    BY <1>1, <1>2
  <1>4. Backed(e, n)'
    BY <1>3, BackedStays
  <1>5. cur'[v] = e /\ seen'[v] = n
    BY <1>2
  <1> QED
    BY <1>1, <1>2, <1>4, <1>5 DEF Backed, Failing

\* A ticker goroutine that takes nothing up keeps what it holds.
LEMMA TickerStays ==
    ASSUME TypeOK, [Next]_vars, NEW v \in Workers, TickerOK(v),
           batch'[v] \subseteq batch[v],
           tpc'[v] = "dlq" => tpc[v] = "dlq" /\ job'[v] = job[v]
    PROVE  TickerOK(v)'
  <1>1. ASSUME NEW b \in batch'[v] PROVE RecordOK(b)'
    <2>1. b \in Record /\ b.id \in DOMAIN retries /\ RecordOK(b)
      BY <1>1 DEF TypeOK, TickerOK
    <2> QED
      BY <2>1, RecordStays
  <1>2. ASSUME tpc'[v] = "dlq" PROVE JobOK(job[v])'
    <2>1. PICK b \in Record : b = job[v]
      BY DEF TypeOK
    <2>2. b.id \in DOMAIN retries /\ JobOK(b)
      BY <1>2, <2>1 DEF TypeOK, TickerOK
    <2>3. JobOK(b)'
      BY <2>2, RecordStays
    <2>4. job'[v] = b
      BY <1>2, <2>1
    <2> QED
      BY <2>3, <2>4 DEF JobOK, Backed, Failing
  <1> QED
    BY <1>1, <1>2 DEF TickerOK

\* Tables no step has written to are as sound as before.
LEMMA TablesStay ==
    ASSUME TypeOK, [Next]_vars, RowsOK, DeadRowsOK
    PROVE  /\ retries' = retries => RowsOK'
           /\ dlq' = dlq => DeadRowsOK'
  <1>1. ASSUME retries' = retries PROVE RowsOK'
    <2> SUFFICES ASSUME NEW i \in DOMAIN retries PROVE RowOK(retries[i])'
      BY <1>1 DEF RowsOK
    <2>1. PICK r \in RetryRow : r = retries[i]
      BY DEF TypeOK
    <2>2. RowOK(r)'
      BY <2>1, RowStays DEF RowsOK
    <2> QED
      BY <1>1, <2>1, <2>2 DEF RowOK, Backed, Failing
  <1>2. ASSUME dlq' = dlq PROVE DeadRowsOK'
    <2> SUFFICES ASSUME NEW i \in DOMAIN dlq PROVE DeadOK(dlq[i])'
      BY <1>2 DEF DeadRowsOK
    <2>1. PICK d \in DLQRow : d = dlq[i]
      BY DEF TypeOK
    <2>2. DeadOK(d)'
      BY <2>1, DeadStays DEF DeadRowsOK
    <2> QED
      BY <1>2, <2>1, <2>2 DEF DeadOK, Backed, Failing
  <1> QED
    BY <1>1, <1>2

\* A retries row written soundly leaves a sound table.
LEMMA WrittenRow ==
    ASSUME TypeOK, [Next]_vars, RowsOK, NEW k, NEW r \in RetryRow, RowOK(r)',
           \A i \in DOMAIN retries' : i = k \/ (i \in DOMAIN retries /\ retries'[i] = retries[i]),
           retries'[k] = r
    PROVE  RowsOK'
  <1> SUFFICES ASSUME NEW i \in DOMAIN retries' PROVE RowOK(retries[i])'
    BY DEF RowsOK
  <1>1. CASE i = k
    BY <1>1 DEF RowOK, Backed, Failing
  <1>2. CASE i # k
    <2>1. PICK q \in RetryRow : q = retries[i]
      BY <1>2 DEF TypeOK
    <2>2. RowOK(q)'
      BY <1>2, <2>1, RowStays DEF RowsOK
    <2> QED
      BY <1>2, <2>1, <2>2 DEF RowOK, Backed, Failing
  <1> QED
    BY <1>1, <1>2

\* A dead_letter_messages row written soundly leaves a sound table.
LEMMA WrittenDead ==
    ASSUME TypeOK, [Next]_vars, DeadRowsOK, NEW e \in Poison, NEW n \in Nat, NEW f \in BOOLEAN,
           DeadLetter(e, n, f), Backed(e, n), MaxAttempts <= n, n <= MaxAttempts + 1
    PROVE  DeadRowsOK'
  <1> DEFINE row == [event |-> e, attempts |-> n, full |-> f]
  <1>1. row \in DLQRow /\ row.event = e /\ row.attempts = n
    BY DEF DLQRow
  <1>2. PICK d \in DLQRow : d = row
    BY <1>1
  <1> HIDE DEF row
  <1>3. DeadOK(d)
    BY <1>1, <1>2 DEF DeadOK
  <1>4. DeadOK(d)'
    BY <1>3, DeadStays
  <1>5. dlq' = Append(dlq, d) /\ dlq \in Seq(DLQRow)
    BY <1>2 DEF DeadLetter, row, TypeOK
  <1>6. /\ DOMAIN dlq' = 1..(Len(dlq) + 1) /\ DOMAIN dlq = 1..Len(dlq) /\ Len(dlq) \in Nat
        /\ dlq'[Len(dlq) + 1] = d
        /\ \A i \in 1..Len(dlq) : dlq'[i] = dlq[i]
    BY <1>5
  <1> SUFFICES ASSUME NEW i \in DOMAIN dlq' PROVE DeadOK(dlq[i])'
    BY DEF DeadRowsOK
  <1>7. CASE i = Len(dlq) + 1
    BY <1>4, <1>6, <1>7 DEF DeadOK, Backed, Failing
  <1>8. CASE i # Len(dlq) + 1
    <2>1. i \in DOMAIN dlq /\ dlq'[i] = dlq[i]
      BY <1>6, <1>8
    <2>2. PICK q \in DLQRow : q = dlq[i]
      BY <1>5, <2>1
    <2>3. DeadOK(q)'
      BY <2>1, <2>2, DeadStays DEF DeadRowsOK
    <2> QED
      BY <2>1, <2>2, <2>3 DEF DeadOK, Backed, Failing
  <1> QED
    BY <1>7, <1>8

\* GetMaxRetryAttempt returns a number some row of the event holds, or 0.
LEMMA SeenSound ==
    ASSUME TypeOK, [Next]_vars, RetryInvariant, NEW w \in Workers, GetMaxRetryAttempt(w)
    PROVE  SeenOK(w)'
  <1>1. cur[w] \in Poison /\ cur' = cur /\ seen \in [Workers -> Nat]
    BY DEF GetMaxRetryAttempt, TypeOK
  <1>2. PICK e \in Poison : e = cur[w]
    BY <1>1
  <1>3. Backed(e, 0)
    BY DEF RetryInvariant
  <1>4. ASSUME NEW a \in MaxAttempt(e)
        PROVE  a \in Nat /\ Backed(e, a) /\ a <= MaxAttempts + 1
    <2>1. CASE a = 0
      BY <1>3, <2>1, PolicyAssumption
    <2>2. CASE a # 0
      <3>1. PICK i \in DOMAIN retries : retries[i].event = e /\ retries[i].attempt = a
        BY <2>2 DEF MaxAttempt, Attempts
      <3>2. retries[i] \in RetryRow /\ RowOK(retries[i])
        BY <3>1 DEF TypeOK, RetryInvariant, RowsOK
      <3>3. a \in Nat
        BY <3>1, <3>2 DEF RetryRow
      <3> QED
        BY <3>1, <3>2, <3>3 DEF RowOK
    <2> QED
      BY <2>1, <2>2
  <1>5. PICK a \in Nat : seen' = [seen EXCEPT ![w] = a] /\ Backed(e, a) /\ a <= MaxAttempts + 1
    <2>1. CASE \E a \in MaxAttempt(cur[w]) : seen' = [seen EXCEPT ![w] = a]
      BY <1>2, <1>4, <2>1
    <2>2. CASE seen' = [seen EXCEPT ![w] = 0]
      <3>1. 0 \in Nat /\ 0 <= MaxAttempts + 1
        BY PolicyAssumption
      <3> QED
        BY <1>3, <2>2, <3>1, Zenon
    <2> QED
      BY <2>1, <2>2 DEF GetMaxRetryAttempt
  <1>6. Backed(e, a)'
    BY <1>5, BackedStays
  <1>7. cur'[w] = e /\ seen'[w] = a
    BY <1>1, <1>2, <1>5
  <1> QED
    BY <1>5, <1>6, <1>7 DEF SeenOK, Backed, Failing

\* Schedule writes down the one attempt that its handler had in reserve.
LEMMA ScheduleSound ==
    ASSUME TypeOK, TypeOK', [Next]_vars, RetryInvariant, NEW w \in Workers, Schedule(w)
    PROVE  RowsOK' /\ DeadRowsOK'
  <1>1. cpc[w] = "schedule" /\ cur[w] \in Poison /\ seen[w] \in Nat /\ RowsOK /\ DeadRowsOK
    BY DEF Schedule, TypeOK, RetryInvariant
  <1>2. PICK e \in Poison, n \in Nat : e = cur[w] /\ n = seen[w]
    BY <1>1
  <1>3. Backed(e, n) /\ n <= MaxAttempts + 1
    BY <1>1, <1>2 DEF RetryInvariant, SeenOK
  <1>t. MaxAttempts \in Nat
    BY PolicyAssumption
  <1>4. CASE n >= MaxAttempts /\ DeadLetter(e, n, FALSE) /\ retries' = retries
    BY <1>1, <1>3, <1>4, <1>t, TablesStay, WrittenDead
  <1>5. CASE UNCHANGED <<retries, dlq>>
    BY <1>1, <1>5, TablesStay
  <1>6. CASE /\ n < MaxAttempts /\ dlq' = dlq
             /\ retries' = Append(retries, [event |-> e, attempt |-> n + 1,
                                            due |-> FALSE, status |-> "pending"])
    <2> DEFINE row == [event |-> e, attempt |-> n + 1, due |-> FALSE, status |-> "pending"]
    <2>1. row \in RetryRow /\ row.event = e /\ row.attempt = n + 1
      BY DEF RetryRow
    <2>2. PICK r \in RetryRow : r = row
      BY <2>1
    <2>3. retries' = Append(retries, r) /\ retries \in Seq(RetryRow)
      BY <1>6, <2>2 DEF TypeOK
    <2> HIDE DEF row
    <2>4. /\ DOMAIN retries' = 1..(Len(retries) + 1) /\ DOMAIN retries = 1..Len(retries)
          /\ Len(retries) \in Nat /\ retries'[Len(retries) + 1] = r
          /\ \A i \in 1..Len(retries) : retries'[i] = retries[i]
      BY <2>3
    <2>5. Backed(e, n + 1)'
      <3>1. /\ cpc' = [cpc EXCEPT ![w] = "poll"] /\ cur' = [cur EXCEPT ![w] = 0] /\ tries' = tries
            /\ cpc \in [Workers -> CPC] /\ cur \in [Workers -> 0..published]
        BY DEF Schedule, NextMessage, Goto, TypeOK
      <3>2. w \in Failing(e) /\ Failing(e)' \subseteq Failing(e) \ {w}
        BY <1>1, <1>2, <3>1 DEF Failing
      <3>3. /\ IsFiniteSet(Failing(e)) /\ Cardinality(Failing(e)) \in Nat
            /\ n + Cardinality(Failing(e)) <= tries[e] /\ tries[e] \in Nat
        BY <1>3, FS_CardinalityType DEF Backed, TypeOK
      <3>4. IsFiniteSet(Failing(e) \ {w}) /\ Cardinality(Failing(e) \ {w}) = Cardinality(Failing(e)) - 1
        BY <3>2, <3>3, FS_RemoveElement
      <3>5. /\ IsFiniteSet(Failing(e)') /\ Cardinality(Failing(e)') \in Nat
            /\ Cardinality(Failing(e)') <= Cardinality(Failing(e)) - 1
        BY <3>2, <3>4, FS_Subset, FS_CardinalityType
      <3> QED
        BY <3>1, <3>3, <3>5 DEF Backed
    <2>6. RowOK(r)'
      BY <1>6, <1>t, <2>1, <2>2, <2>5 DEF RowOK
    <2>7. RowsOK'
      BY <1>1, <2>4, <2>6, WrittenRow
    <2> QED
      BY <1>1, <1>6, <2>7, TablesStay
  <1> QED
    BY <1>2, <1>4, <1>5, <1>6 DEF Schedule

\* What a ticker holds is a record of a row.
LEMMA BatchRecord ==
    ASSUME TypeOK, NEW w \in Workers, NEW b \in batch[w]
    PROVE  b \in Record /\ b.id \in DOMAIN retries /\ retries[b.id] \in RetryRow
  BY DEF TypeOK

\* The retry that has just failed backs the attempt the ticker counts for it,
\* also when the ticker's copy of the row is stale.
LEMMA RetryFailsSound ==
    ASSUME TypeOK, TypeOK', [Next]_vars, RetryInvariant, NEW w \in Workers, NEW b \in batch[w],
           RetryFails(w, b)
    PROVE  RowsOK' /\ DeadRowsOK' /\ TickerOK(w)'
  <1>t. MaxAttempts \in Nat /\ RowsOK /\ DeadRowsOK /\ TickerOK(w)
    BY PolicyAssumption DEF RetryInvariant
  <1>1. /\ b \in Record /\ b.id \in DOMAIN retries /\ retries[b.id] \in RetryRow
        /\ RecordOK(b)
    <2>1. RecordOK(b)
      BY <1>t DEF TickerOK
    <2>2. b \in Record /\ b.id \in DOMAIN retries /\ retries[b.id] \in RetryRow
      BY BatchRecord
    <2> QED
      BY <2>1, <2>2
  <1>2. b.attempt \in Nat /\ retries[b.id].event \in Poison
    BY <1>1 DEF Record, RetryRow
  <1>3. PICK e \in Poison, n \in Nat : e = retries[b.id].event /\ n = b.attempt
    BY <1>2
  <1>4. Backed(e, n) /\ n <= MaxAttempts
    BY <1>1, <1>3 DEF RecordOK
  <1>5. Backed(e, n + 1)'
    <2>1. /\ tries' = [tries EXCEPT ![e] = @ + 1] /\ UNCHANGED <<cpc, cur>>
          /\ tries \in [Poison -> Nat]
      BY <1>3 DEF RetryFails, consumer, TypeOK
    <2>2. Failing(e)' = Failing(e) /\ tries'[e] = tries[e] + 1 /\ tries[e] \in Nat
      BY <2>1 DEF Failing
    <2>3. Cardinality(Failing(e)) \in Nat
      BY <1>4, FS_CardinalityType DEF Backed
    <2> QED
      BY <1>4, <2>2, <2>3 DEF Backed
  <1>6. ASSUME NEW st \in {"pending", "failed"}, st = "pending" => n + 1 <= MaxAttempts,
               UpdateRetry(w, b, n + 1, st)
        PROVE  RowsOK'
    <2>1. CASE retries' = retries
      BY <1>t, <2>1, TablesStay
    <2>2. CASE retries' = [retries EXCEPT ![b.id].attempt = n + 1, ![b.id].status = st,
                                          ![b.id].due = FALSE]
      <3> DEFINE row == [retries[b.id] EXCEPT !.attempt = n + 1, !.status = st, !.due = FALSE]
      <3>1. row \in RetryRow /\ row.event = e /\ row.attempt = n + 1 /\ row.status = st
        <4>1. n + 1 \in Nat /\ st \in {"pending", "failed", "completed"}
          OBVIOUS
        <4> QED
          BY <1>1, <1>3, <4>1 DEF RetryRow
      <3>2. PICK r \in RetryRow : r = row
        BY <3>1
      <3>3. retries' = [retries EXCEPT ![b.id] = r]
        BY <1>1, <2>2, <3>2
      <3> HIDE DEF row
      <3>4. RowOK(r)'
        BY <1>4, <1>5, <1>6, <1>t, <3>1, <3>2 DEF RowOK
      <3>5. /\ retries'[b.id] = r
            /\ \A i \in DOMAIN retries' : i = b.id \/ (i \in DOMAIN retries /\ retries'[i] = retries[i])
        BY <1>1, <3>3 DEF TypeOK
      <3> QED
        BY <1>t, <3>4, <3>5, WrittenRow
    <2> QED
      BY <1>6, <2>1, <2>2 DEF UpdateRetry
  <1>7. dlq' = dlq /\ DeadRowsOK'
    BY <1>t, TablesStay DEF RetryFails
  <1>8. /\ batch'[w] \subseteq batch[w]
        /\ tpc \in [Workers -> TPC] /\ job \in [Workers -> Record]
    <2>1. batch' = [batch EXCEPT ![w] = batch[w] \ {b}]
      BY DEF RetryFails, NextRecord
    <2> QED
      BY <2>1 DEF TypeOK
  <1>9. CASE b.attempt + 1 < MaxAttempts
    <2>1. UpdateRetry(w, b, n + 1, "pending")
      BY <1>2, <1>3, <1>9, <1>t DEF RetryFails
    <2>2. RowsOK'
      BY <1>2, <1>3, <1>6, <1>9, <1>t, <2>1
    <2>3. tpc'[w] # "dlq"
      BY <1>2, <1>8, <1>9, <1>t DEF RetryFails, NextRecord
    <2> QED
      BY <1>7, <1>8, <1>t, <2>2, <2>3, TickerStays
  <1>10. CASE b.attempt + 1 >= MaxAttempts
    <2>1. /\ UpdateRetry(w, b, n + 1, "failed")
          /\ job' = [job EXCEPT ![w] = [b EXCEPT !.attempt = @ + 1]]
      BY <1>2, <1>3, <1>10, <1>t DEF RetryFails
    <2>2. RowsOK'
      BY <1>6, <2>1
    <2>3. /\ [b EXCEPT !.attempt = @ + 1] \in Record
          /\ [b EXCEPT !.attempt = @ + 1].id = b.id
          /\ [b EXCEPT !.attempt = @ + 1].attempt = n + 1
      BY <1>1, <1>3 DEF Record
    <2>4. PICK j \in Record : j = [b EXCEPT !.attempt = @ + 1]
      BY <2>3
    <2>5. job'[w] = j /\ j.id = b.id /\ j.attempt = n + 1
      BY <1>8, <2>1, <2>3, <2>4
    <2>6. retries'[b.id].event = e
      BY <1>1, <1>3, Monotone DEF RetriesGrow
    <2>7. JobOK(j)'
      BY <1>3, <1>4, <1>5, <1>10, <1>t, <2>5, <2>6 DEF JobOK, Backed, Failing
    <2>8. \A c \in batch'[w] : RecordOK(c)'
      <3> SUFFICES ASSUME NEW c \in batch'[w] PROVE RecordOK(c)'
        OBVIOUS
      <3>1. c \in Record /\ c.id \in DOMAIN retries /\ RecordOK(c)
        BY <1>8, <1>t DEF TickerOK, TypeOK
      <3> QED
        BY <3>1, RecordStays
    <2>9. TickerOK(w)'
      BY <2>5, <2>7, <2>8 DEF TickerOK, JobOK, Backed, Failing
    <2> QED
      BY <1>7, <2>2, <2>9
  <1> QED
    BY <1>2, <1>9, <1>10, <1>t

\* A retry that succeeds writes the attempt it has read.
LEMMA RetrySucceedsSound ==
    ASSUME TypeOK, TypeOK', [Next]_vars, RetryInvariant, NEW w \in Workers, NEW b \in batch[w],
           RetrySucceeds(w, b)
    PROVE  RowsOK' /\ DeadRowsOK' /\ TickerOK(w)'
  <1>t. MaxAttempts \in Nat /\ RowsOK /\ DeadRowsOK /\ TickerOK(w)
    BY PolicyAssumption DEF RetryInvariant
  <1>1. /\ b \in Record /\ b.id \in DOMAIN retries /\ retries[b.id] \in RetryRow
        /\ RecordOK(b)
    <2>1. RecordOK(b)
      BY <1>t DEF TickerOK
    <2>2. b \in Record /\ b.id \in DOMAIN retries /\ retries[b.id] \in RetryRow
      BY BatchRecord
    <2> QED
      BY <2>1, <2>2
  <1>2. b.attempt \in Nat /\ retries[b.id].event \in Poison
    BY <1>1 DEF Record, RetryRow
  <1>3. RowsOK'
    <2>1. CASE retries' = retries
      BY <1>t, <2>1, TablesStay
    <2>2. CASE retries' = [retries EXCEPT ![b.id].attempt = b.attempt, ![b.id].status = "completed",
                                          ![b.id].due = FALSE]
      <3> DEFINE row == [retries[b.id] EXCEPT !.attempt = b.attempt, !.status = "completed", !.due = FALSE]
      <3>1. /\ row \in RetryRow /\ row.event = retries[b.id].event
            /\ row.attempt = b.attempt /\ row.status = "completed"
        BY <1>1, <1>2 DEF RetryRow
      <3>2. PICK r \in RetryRow : r = row
        BY <3>1
      <3>3. retries' = [retries EXCEPT ![b.id] = r]
        BY <1>1, <2>2, <3>2
      <3> HIDE DEF row
      <3>4. RowOK(r)
        BY <1>1, <1>2, <1>t, <3>1, <3>2 DEF RowOK, RecordOK
      <3>5. RowOK(r)'
        BY <3>4, RowStays
      <3>6. /\ retries'[b.id] = r
            /\ \A i \in DOMAIN retries' : i = b.id \/ (i \in DOMAIN retries /\ retries'[i] = retries[i])
        BY <1>1, <3>3 DEF TypeOK
      <3> QED
        BY <1>t, <3>5, <3>6, WrittenRow
    <2> QED
      BY <2>1, <2>2 DEF RetrySucceeds, UpdateRetry
  <1>4. /\ batch'[w] \subseteq batch[w] /\ tpc'[w] # "dlq" /\ dlq' = dlq
    BY DEF RetrySucceeds, NextRecord, TypeOK
  <1> QED
    BY <1>3, <1>4, <1>t, TablesStay, TickerStays

\* ProcessPending reads sound rows.
LEMMA PendingSound ==
    ASSUME TypeOK, [Next]_vars, RetryInvariant, NEW w \in Workers, PendingRetries(w)
    PROVE  TickerOK(w)'
  <1>1. PICK S \in SUBSET DueRows :
           batch' = [batch EXCEPT ![w] = {[id |-> i, attempt |-> retries[i].attempt] : i \in S}]
    BY DEF PendingRetries
  <1>2. batch'[w] = {[id |-> i, attempt |-> retries[i].attempt] : i \in S} /\ tpc'[w] = "retry"
    BY <1>1 DEF TypeOK, PendingRetries
  <1>3. ASSUME NEW b \in batch'[w] PROVE RecordOK(b)'
    <2>1. PICK i \in S : b = [id |-> i, attempt |-> retries[i].attempt]
      BY <1>2
    <2>2. i \in DOMAIN retries /\ i \in Nat /\ retries[i] \in RetryRow /\ RowOK(retries[i])
          /\ retries[i].status = "pending"
      BY DEF DueRows, TypeOK, RetryInvariant, RowsOK
    <2>3. retries[i].attempt \in Nat
      BY <2>2 DEF RetryRow
    <2>4. b \in Record /\ b.id = i /\ b.attempt = retries[i].attempt
      BY <2>1, <2>2, <2>3 DEF Record
    <2>5. RecordOK(b)
      BY <2>2, <2>4 DEF RowOK, RecordOK
    <2> QED
      BY <2>2, <2>4, <2>5, RecordStays
  <1> QED
    BY <1>2, <1>3 DEF TickerOK

\* MoveToDLQ records the attempt of its job.
LEMMA MoveToDLQSound ==
    ASSUME TypeOK, [Next]_vars, RetryInvariant, NEW w \in Workers, MoveToDLQ(w)
    PROVE  DeadRowsOK'
  <1>1. /\ job[w].id \in DOMAIN retries /\ job[w] \in Record
        /\ retries[job[w].id] \in RetryRow
    BY DEF MoveToDLQ, TypeOK
  <1>2. JobOK(job[w]) /\ DeadRowsOK /\ RowsOK
    BY DEF MoveToDLQ, RetryInvariant, TickerOK
  <1>3. retries[job[w].id].event \in Poison /\ job[w].attempt \in Nat
    BY <1>1 DEF Record, RetryRow
  <1>4. PICK e \in Poison, n \in Nat : e = retries[job[w].id].event /\ n = job[w].attempt
    BY <1>3
  <1>5. Backed(e, n) /\ MaxAttempts <= n /\ n <= MaxAttempts + 1
    BY <1>2, <1>4 DEF JobOK
  <1>6. DeadLetter(e, n, e \in stored) \/ DeadLetter(e, n, FALSE) \/ dlq' = dlq
    BY <1>4 DEF MoveToDLQ, GetEventByID
  <1>7. CASE DeadLetter(e, n, e \in stored)
    <2> DEFINE f == e \in stored
    <2>1. f \in BOOLEAN /\ DeadLetter(e, n, f)
      BY <1>7
    <2> HIDE DEF f
    <2> QED
      BY <1>2, <1>5, <2>1, WrittenDead
  <1>8. CASE DeadLetter(e, n, FALSE)
    BY <1>2, <1>5, <1>8, WrittenDead
  <1>9. CASE dlq' = dlq
    BY <1>2, <1>9, TablesStay
  <1> QED
    BY <1>6, <1>7, <1>8, <1>9

\* Initially there are no counters.
LEMMA RetryInit == Init => RetryInvariant
  <1> SUFFICES ASSUME Init PROVE RetryInvariant
    OBVIOUS
  <1>1. \A e \in Poison : Failing(e) = {} /\ tries[e] = 0
    BY DEF Init, Failing
  <1>2. \A e \in Poison : Backed(e, 0)
    BY <1>1, FS_EmptySet DEF Backed
  <1>3. DOMAIN retries = {} /\ DOMAIN dlq = {}
    BY DEF Init
  <1>4. \A w \in Workers : cpc[w] = "poll" /\ tpc[w] = "idle" /\ batch[w] = {}
    BY DEF Init
  <1> QED
    BY <1>2, <1>3, <1>4 DEF RetryInvariant, RowsOK, DeadRowsOK, SeenOK, TickerOK

\* Every step keeps every counter sound.
LEMMA RetryNext ==
    ASSUME TypeOK, TypeOK', [Next]_vars, RetryInvariant
    PROVE  RetryInvariant'
  <1>b. \A e \in Poison : Backed(e, 0)'
    BY BackedStays DEF RetryInvariant
  <1>i. /\ RowsOK /\ DeadRowsOK
        /\ \A v \in Workers : SeenOK(v) /\ TickerOK(v)
    BY DEF RetryInvariant
  <1>t. /\ retries' = retries => RowsOK'
        /\ dlq' = dlq => DeadRowsOK'
    BY <1>i, TablesStay
  <1>s. ASSUME NEW v \in Workers,
               cpc'[v] = "schedule" => cpc[v] = "schedule" /\ cur'[v] = cur[v] /\ seen'[v] = seen[v]
        PROVE  SeenOK(v)'
    BY <1>i, <1>s, SeenStays
  <1>k. ASSUME NEW v \in Workers, batch'[v] \subseteq batch[v],
               tpc'[v] = "dlq" => tpc[v] = "dlq" /\ job'[v] = job[v]
        PROVE  TickerOK(v)'
    BY <1>i, <1>k, TickerStays
  <1>u. /\ UNCHANGED consumer => \A v \in Workers : SeenOK(v)'
        /\ UNCHANGED ticker => \A v \in Workers : TickerOK(v)'
    BY <1>s, <1>k DEF consumer, ticker
  <1>f. /\ cpc \in [Workers -> CPC] /\ cur \in [Workers -> 0..published]
        /\ seen \in [Workers -> Nat] /\ tpc \in [Workers -> TPC]
        /\ batch \in [Workers -> SUBSET Record] /\ job \in [Workers -> Record]
    BY DEF TypeOK
  <1>1. CASE \/ Publish \/ Rebalance \/ (\E e \in Poison : StoreEvent(e)) \/ UNCHANGED vars
             \/ (\E w \in Workers : Assign(w) \/ Shutdown(w))
    <2>1. UNCHANGED <<retries, dlq>> /\ UNCHANGED consumer /\ UNCHANGED ticker
      BY <1>1 DEF Publish, Rebalance, StoreEvent, vars, Assign, Shutdown
    <2> QED
      BY <1>b, <1>t, <1>u, <2>1 DEF RetryInvariant
  <1>2. ASSUME NEW w \in Workers,
               \/ Poll(w) \/ UpsertOffset(w) \/ PostWorkflow(w) \/ PostRun(w) \/ CommitMessage(w)
               \/ FatalError(w)
        PROVE  RetryInvariant'
    <2>1. UNCHANGED <<retries, dlq>> /\ UNCHANGED ticker
      BY <1>2 DEF Poll, UpsertOffset, PostWorkflow, PostRun, CommitMessage, FatalError
    <2>2. /\ cpc'[w] # "schedule"
          /\ \A v \in Workers : v # w => cpc'[v] = cpc[v] /\ cur'[v] = cur[v] /\ seen'[v] = seen[v]
      BY <1>2, <1>f
      DEF Poll, UpsertOffset, PostWorkflow, PostRun, CommitMessage, FatalError, NextMessage, Goto
    <2>3. \A v \in Workers : SeenOK(v)'
      BY <1>s, <2>2
    <2> QED
      BY <1>b, <1>t, <1>u, <2>1, <2>3 DEF RetryInvariant
  <1>3. ASSUME NEW w \in Workers, GetMaxRetryAttempt(w) PROVE RetryInvariant'
    <2>1. UNCHANGED <<retries, dlq>> /\ UNCHANGED ticker
      BY <1>3 DEF GetMaxRetryAttempt
    <2>2. \A v \in Workers : v # w => cpc'[v] = cpc[v] /\ cur'[v] = cur[v] /\ seen'[v] = seen[v]
      BY <1>3, <1>f DEF GetMaxRetryAttempt, Goto
    <2>3. \A v \in Workers : SeenOK(v)'
      <3>1. SeenOK(w)'
        BY <1>3, SeenSound
      <3> QED
        BY <1>s, <2>2, <3>1
    <2> QED
      BY <1>b, <1>t, <1>u, <2>1, <2>3 DEF RetryInvariant
  <1>4. ASSUME NEW w \in Workers, Schedule(w) PROVE RetryInvariant'
    <2>1. UNCHANGED ticker /\ RowsOK' /\ DeadRowsOK'
      BY <1>4, ScheduleSound DEF Schedule
    <2>2. /\ cpc'[w] # "schedule"
          /\ \A v \in Workers : v # w => cpc'[v] = cpc[v] /\ cur'[v] = cur[v] /\ seen'[v] = seen[v]
      BY <1>4, <1>f DEF Schedule, NextMessage, Goto
    <2>3. \A v \in Workers : SeenOK(v)'
      BY <1>s, <2>2
    <2> QED
      BY <1>b, <1>u, <2>1, <2>3 DEF RetryInvariant
  <1>5. ASSUME NEW w \in Workers, Exit(w) \/ Crash(w) PROVE RetryInvariant'
    <2>1. UNCHANGED <<retries, dlq>> /\ Restart(w)
      BY <1>5 DEF Exit, Crash, Restart
    <2>2. /\ cpc'[w] # "schedule" /\ tpc'[w] # "dlq" /\ batch'[w] = {}
          /\ \A v \in Workers : v # w =>
                /\ cpc'[v] = cpc[v] /\ cur'[v] = cur[v] /\ seen'[v] = seen[v]
                /\ tpc'[v] = tpc[v] /\ job'[v] = job[v] /\ batch'[v] = batch[v]
      BY <1>f, <2>1 DEF Restart, NextMessage, Goto
    <2>3. \A v \in Workers : SeenOK(v)' /\ TickerOK(v)'
      <3> TAKE v \in Workers
      <3>1. SeenOK(v)'
        BY <1>s, <2>2
      <3>2. /\ batch'[v] \subseteq batch[v]
            /\ tpc'[v] = "dlq" => tpc[v] = "dlq" /\ job'[v] = job[v]
        BY <2>2
      <3> QED
        BY <1>k, <3>1, <3>2
    <2> QED
      BY <1>b, <1>t, <2>1, <2>3 DEF RetryInvariant
  <1>6. ASSUME NEW w \in Workers, TickerStep(w) PROVE RetryInvariant'
    <2>1. UNCHANGED consumer
      BY <1>6 DEF TickerStep, PendingRetries, RetryFails, RetrySucceeds, MoveToDLQ
    <2>2. ASSUME NEW v \in Workers, v # w PROVE TickerOK(v)'
      <3>1. batch'[v] = batch[v] /\ tpc'[v] = tpc[v] /\ job'[v] = job[v]
        BY <1>6, <1>f, <2>2
        DEF TickerStep, PendingRetries, RetryFails, RetrySucceeds, MoveToDLQ, NextRecord
      <3> QED
        BY <1>k, <3>1
    <2>3. SUFFICES RowsOK' /\ DeadRowsOK' /\ TickerOK(w)'
      BY <1>b, <1>u, <2>1, <2>2 DEF RetryInvariant
    <2>4. CASE PendingRetries(w)
      BY <1>t, <2>4, PendingSound DEF PendingRetries
    <2>5. ASSUME NEW b \in batch[w], RetryFails(w, b)
          PROVE  RowsOK' /\ DeadRowsOK' /\ TickerOK(w)'
      BY <2>5, RetryFailsSound
    <2>6. ASSUME NEW b \in batch[w], RetrySucceeds(w, b)
          PROVE  RowsOK' /\ DeadRowsOK' /\ TickerOK(w)'
      BY <2>6, RetrySucceedsSound
    <2>7. CASE MoveToDLQ(w)
      <3>1. retries' = retries /\ batch'[w] = batch[w] /\ tpc'[w] # "dlq"
        BY <1>f, <2>7 DEF MoveToDLQ, NextRecord
      <3> QED
        BY <1>k, <1>t, <2>7, <3>1, MoveToDLQSound
    <2> QED
      BY <1>6, <2>4, <2>5, <2>6, <2>7 DEF TickerStep
  <1>7. ASSUME NEW i \in DOMAIN retries, BecomeDue(i) PROVE RetryInvariant'
    <2>1. dlq' = dlq /\ UNCHANGED consumer /\ UNCHANGED ticker
      BY <1>7 DEF BecomeDue
    <2>2. PICK q \in RetryRow : q = retries[i]
      BY DEF TypeOK
    <2>3. PICK r : r = [q EXCEPT !.due = TRUE]
      OBVIOUS
    <2>4. r \in RetryRow /\ r.event = q.event /\ r.attempt = q.attempt /\ r.status = q.status
      BY <2>3 DEF RetryRow
    <2>5. RowOK(q)'
      BY <1>i, <2>2, RowStays DEF RowsOK
    <2>6. RowOK(r)'
      BY <2>4, <2>5 DEF RowOK
    <2>7. retries' = [retries EXCEPT ![i] = r]
      BY <1>7, <2>2, <2>3 DEF BecomeDue
    <2>8. /\ retries'[i] = r
          /\ \A k \in DOMAIN retries' : k = i \/ (k \in DOMAIN retries /\ retries'[k] = retries[k])
      BY <2>7 DEF TypeOK
    <2>9. RowsOK'
      BY <1>i, <2>4, <2>6, <2>8, WrittenRow
    <2> QED
      BY <1>b, <1>t, <1>u, <2>1, <2>9 DEF RetryInvariant
  <1> QED
    BY <1>1, <1>2, <1>3, <1>4, <1>5, <1>6, <1>7 DEF Next, ConsumerStep

\* Every counter of attempts, in the tables and in the goroutines, is backed by
\* attempts that took place and stays within one of MaxAttempts, whatever fails.
THEOREM RetryHolds == Spec => []RetryInvariant
  <1>1. TypeOK /\ TypeOK' /\ RetryInvariant /\ [Next]_vars => RetryInvariant'
    BY RetryNext
  <1> QED
    BY <1>1, RetryInit, TypeCorrect, PTL DEF Spec

\* No attempt counter passes MaxAttempts by more than one: Schedule reads its
\* counter from the table and ProcessPending from a copy that may be stale, but
\* a row that is still pending has at most MaxAttempts.
THEOREM AttemptsStayBounded == Spec => []AttemptsBounded
  <1>1. RetryInvariant => AttemptsBounded
    BY DEF RetryInvariant, RowsOK, RowOK, DeadRowsOK, DeadOK, AttemptsBounded
  <1> QED
    BY <1>1, RetryHolds, PTL

\* A message is dead-lettered only after MaxAttempts attempts that really took
\* place, whichever of the two paths of the retry engine does it.
THEOREM DeadLettersEarned == Spec => []DLQEarned
  <1>1. TypeOK /\ RetryInvariant => DLQEarned
    <2> SUFFICES ASSUME TypeOK, RetryInvariant, NEW i \in DOMAIN dlq
                 PROVE  dlq[i].attempts >= MaxAttempts /\ tries[dlq[i].event] >= dlq[i].attempts
      BY DEF DLQEarned
    <2>1. dlq[i] \in DLQRow
      BY DEF TypeOK
    <2>2. PICK e \in Poison, n \in Nat : e = dlq[i].event /\ n = dlq[i].attempts
      BY <2>1 DEF DLQRow
    <2>3. Backed(e, n) /\ MaxAttempts <= n
      BY <2>2 DEF RetryInvariant, DeadRowsOK, DeadOK
    <2>4. Cardinality(Failing(e)) \in Nat /\ tries[e] \in Nat
      BY <2>3, FS_CardinalityType DEF Backed, TypeOK
    <2> QED
      BY <2>2, <2>3, <2>4, PolicyAssumption DEF Backed
  <1> QED
    BY <1>1, RetryHolds, TypeCorrect, PTL

-----------------------------------------------------------------------------
(* Sagas of committed purchases *)

\* If e is a purchase, a run of its saga has been requested.
Begun(e) == e \in Purchases => started[e] > 0

\* The counterpart of DeliveryInvariant for a worker's side effects.
BegunWorker(w) ==
    /\ Busy(w) => \A e \in Log : e < cur[w] => Begun(e)
    /\ cpc[w] = "commit" => Begun(cur[w])
    /\ owner = w => \A e \in Log : e <= position => Begun(e) \/ (Busy(w) /\ cur[w] = e)

\* Inductive strengthening of CommittedPurchaseStarted, while the gateway
\* answers and no context is cancelled.
PurchaseInvariant ==
    /\ cancelled = {}
    /\ \A e \in Log : e <= committed => Begun(e)
    /\ \A w \in Workers : BegunWorker(w)

\* A run that was requested stays requested.
LEMMA BegunStays ==
    ASSUME TypeOK, [Next]_vars, NEW e, Begun(e)
    PROVE  Begun(e)'
  <1>1. CASE started' = started
    BY <1>1 DEF Begun
  <1>2. ASSUME NEW w \in Workers, PostRun(w) PROVE Begun(e)'
    <2>1. /\ started' = started \/ started' = [started EXCEPT ![cur[w]] = @ + 1]
          /\ started \in [Purchases -> Nat]
      BY <1>2 DEF PostRun, TypeOK
    <2> QED
      BY <2>1 DEF Begun
  <1>3. ASSUME NEW w \in Workers,
               \/ Poll(w) \/ GetMaxRetryAttempt(w) \/ Schedule(w) \/ UpsertOffset(w) \/ PostWorkflow(w)
               \/ CommitMessage(w) \/ Exit(w) \/ TickerStep(w)
               \/ Assign(w) \/ Crash(w) \/ Shutdown(w) \/ FatalError(w)
        PROVE  started' = started
    BY <1>3 DEF Poll, GetMaxRetryAttempt, Schedule, UpsertOffset, PostWorkflow, CommitMessage,
                Exit, TickerStep, PendingRetries, RetryFails, RetrySucceeds, MoveToDLQ,
                Assign, Crash, Shutdown, FatalError, Restart, effects
  <1>4. CASE \/ Publish \/ Rebalance \/ (\E a \in Poison : StoreEvent(a))
             \/ (\E i \in DOMAIN retries : BecomeDue(i)) \/ UNCHANGED vars
    BY <1>1, <1>4 DEF Publish, Rebalance, StoreEvent, BecomeDue, vars, effects
  <1> QED
    BY <1>1, <1>2, <1>3, <1>4 DEF Next, ConsumerStep

\* What is true of a worker stays true while its goroutine and its place in
\* the group do not change.
LEMMA BegunWorkerStays ==
    ASSUME TypeOK, [Next]_vars, NEW v \in Workers, BegunWorker(v),
           cpc'[v] = cpc[v], cur'[v] = cur[v],
           owner' = v => owner = v /\ position' = position
    PROVE  BegunWorker(v)'
  <1>1. \A e : Begun(e) => Begun(e)'
    BY BegunStays
  <1>2. Begun(cur[v]) => Begun(cur[v])'
    <2>1. PICK c : c = cur[v]
      OBVIOUS
    <2>2. Begun(c) => Begun(c)'
      BY <1>1
    <2> QED
      BY <2>1, <2>2 DEF Begun
  <1> QED
    BY <1>1, <1>2 DEF BegunWorker, Busy

\* Initially no context is cancelled and there is nothing to start.
LEMMA PurchaseInit == Init => PurchaseInvariant
  BY WorkersAssumption DEF Init, PurchaseInvariant, BegunWorker, Busy, Log

\* While the gateway answers, every step of a consumer goroutine preserves the
\* invariant: "commit" is reached past PostRun only, for a purchase.
LEMMA PurchaseConsumerStep ==
    ASSUME ~ApiMayFail, TypeOK, TypeOK', PurchaseInvariant, [Next]_vars,
           NEW w \in Workers, ConsumerStep(w)
    PROVE  PurchaseInvariant'
  <1>m. \A e : Begun(e) => Begun(e)'
    BY BegunStays
  <1>i. cancelled = {} /\ (\A e \in Log : e <= committed => Begun(e)) /\ BegunWorker(w)
    BY DEF PurchaseInvariant
  <1>t. /\ cpc \in [Workers -> CPC] /\ cur \in [Workers -> 0..published]
        /\ position \in Nat /\ published \in 0..MaxLog /\ MaxLog \in Nat
        /\ started \in [Purchases -> Nat] /\ Purchases \subseteq Log \ Poison
    <2>1. /\ cpc \in [Workers -> CPC] /\ cur \in [Workers -> 0..published]
          /\ position \in 0..published /\ published \in 0..MaxLog
          /\ started \in [Purchases -> Nat]
      BY DEF TypeOK
    <2> QED
      BY <2>1, LogAssumption
  <1>w. cur[w] \in Nat /\ ~Exit(w)
    <2>1. cur[w] \in 0..published /\ published \in Nat
      BY <1>t
    <2> QED
      BY <1>i, <2>1 DEF Exit
  <1>v. ASSUME NEW v \in Workers, v # w PROVE BegunWorker(v)'
    <2>1. CASE Poll(w) \/ CommitMessage(w)
      <3>1. /\ cpc'[v] = cpc[v] /\ cur'[v] = cur[v]
            /\ owner' = v => position' = position /\ owner' = owner
        BY <1>t, <1>v, <2>1 DEF Poll, CommitMessage, NextMessage, Goto
      <3> QED
        BY <3>1, BegunWorkerStays DEF PurchaseInvariant
    <2>2. CASE GetMaxRetryAttempt(w) \/ Schedule(w) \/ UpsertOffset(w) \/ PostWorkflow(w) \/ PostRun(w)
      <3>1. cpc'[v] = cpc[v] /\ cur'[v] = cur[v] /\ UNCHANGED <<owner, position>>
        BY <1>t, <1>v, <2>2
        DEF GetMaxRetryAttempt, Schedule, UpsertOffset, PostWorkflow, PostRun, NextMessage, Goto,
            kafka
      <3> QED
        BY <3>1, BegunWorkerStays DEF PurchaseInvariant
    <2> QED
      BY <1>w, <2>1, <2>2 DEF ConsumerStep
  <1>c. cancelled' = {}
    BY <1>i, <1>w DEF ConsumerStep, Poll, GetMaxRetryAttempt, Schedule, UpsertOffset, PostWorkflow,
                      PostRun, CommitMessage
  <1>s. SUFFICES (\A e \in Log : e <= committed => Begun(e))' /\ BegunWorker(w)'
    BY <1>c, <1>v DEF PurchaseInvariant
  <1>o. committed' = committed => (\A e \in Log : e <= committed => Begun(e))'
    BY <1>i, <1>m
  <1> USE DEF Log
  <1>1. CASE Poll(w)
    <2>1. /\ owner = w /\ ~Busy(w) /\ position' = position + 1 /\ cur'[w] = position + 1
          /\ cpc'[w] \in {"attempt", "offset"} /\ committed' = committed
      BY <1>1, <1>t DEF Poll, Busy, Goto
    <2>2. \A e \in Log : e <= position => Begun(e)'
      BY <1>i, <1>m, <2>1 DEF BegunWorker
    <2> QED
      BY <1>o, <1>t, <2>1, <2>2 DEF BegunWorker, Busy
  <1>2. CASE GetMaxRetryAttempt(w) \/ UpsertOffset(w) \/ PostWorkflow(w) \/ PostRun(w)
    <2>1. /\ cur' = cur /\ UNCHANGED <<committed, owner, position>>
          /\ Busy(w) /\ Busy(w)'
      BY <1>2, <1>t
      DEF GetMaxRetryAttempt, UpsertOffset, PostWorkflow, PostRun, Goto, kafka, Busy
    <2>2. cpc'[w] = "commit" => Begun(cur[w])'
      <3>1. CASE GetMaxRetryAttempt(w)
        BY <1>t, <3>1 DEF GetMaxRetryAttempt, Goto
      <3>2. CASE UpsertOffset(w)
        BY <1>t, <2>1, <3>2 DEF UpsertOffset, Goto, Begun
      <3>3. CASE PostWorkflow(w)
        BY <1>i, <1>t, <3>3 DEF PostWorkflow, ApiError, Goto
      <3>4. CASE PostRun(w)
        <4>1. cur[w] \in Purchases
          BY <3>4 DEF PostRun, TypeOK
        <4>2. started' = [started EXCEPT ![cur[w]] = @ + 1]
          BY <1>i, <3>4 DEF PostRun, ApiError
        <4>3. started'[cur[w]] > 0
          BY <1>t, <4>1, <4>2
        <4> QED
          BY <2>1, <4>3 DEF Begun
      <3> QED
        BY <1>2, <3>1, <3>2, <3>3, <3>4
    <2> QED
      BY <1>i, <1>m, <1>o, <2>1, <2>2 DEF BegunWorker
  <1>3. CASE Schedule(w)
    <2>1. /\ cpc[w] = "schedule" /\ cpc'[w] = "poll" /\ UNCHANGED <<committed, owner, position>>
      BY <1>3, <1>t DEF Schedule, NextMessage, Goto, kafka
    <2>2. cur[w] \in Poison
      BY <2>1 DEF TypeOK
    <2>3. \A e \in Log : e = cur[w] => Begun(e)'
      BY <1>t, <2>2 DEF Begun
    <2> QED
      BY <1>i, <1>m, <1>o, <2>1, <2>3 DEF BegunWorker, Busy
  <1>4. CASE CommitMessage(w)
    <2>1. /\ cpc[w] = "commit" /\ cpc'[w] = "poll"
          /\ committed' = committed \/ committed' = cur[w]
          /\ UNCHANGED <<owner, position>>
      BY <1>4, <1>t DEF CommitMessage, NextMessage, Goto
    <2>2. \A e \in Log : e < cur[w] \/ e = cur[w] => Begun(e)
      BY <1>i, <2>1 DEF BegunWorker, Busy
    <2>3. \A e \in Log : e <= cur[w] => Begun(e)'
      BY <1>m, <1>t, <1>w, <2>2
    <2>4. (\A e \in Log : e <= committed => Begun(e))'
      BY <1>o, <2>1, <2>3
    <2> QED
      BY <1>i, <1>m, <2>1, <2>2, <2>4 DEF BegunWorker, Busy
  <1> QED
    BY <1>w, <1>1, <1>2, <1>3, <1>4 DEF ConsumerStep

\* The other steps preserve it as well; a consumer that is given the partition
\* starts from the committed offset.
LEMMA PurchaseNext ==
    ASSUME ~ApiMayFail, "shutdown" \notin FaultKinds,
           TypeOK, TypeOK', PurchaseInvariant, [Next]_vars
    PROVE  PurchaseInvariant'
  <1>m. \A e : Begun(e) => Begun(e)'
    BY BegunStays
  <1>f. ASSUME UNCHANGED committed, cancelled' = {},
               \A v \in Workers :
                  /\ cpc'[v] = cpc[v] /\ cur'[v] = cur[v]
                  /\ owner' = v => owner = v /\ position' = position
        PROVE  PurchaseInvariant'
    <2>1. ASSUME NEW v \in Workers PROVE BegunWorker(v)'
      BY <1>f, BegunWorkerStays DEF PurchaseInvariant
    <2> QED
      BY <1>f, <1>m, <2>1 DEF PurchaseInvariant
  <1>1. CASE \/ Publish \/ (\E e \in Poison : StoreEvent(e)) \/ UNCHANGED vars
             \/ (\E i \in DOMAIN retries : BecomeDue(i)) \/ (\E w \in Workers : TickerStep(w))
    <2>1. UNCHANGED <<committed, owner, position, cpc, cur, cancelled>>
      BY <1>1 DEF Publish, StoreEvent, BecomeDue, TickerStep, PendingRetries, RetryFails,
                  RetrySucceeds, MoveToDLQ, vars, kafka, consumer
    <2>2. cancelled' = {}
      BY <2>1 DEF PurchaseInvariant
    <2> QED
      BY <1>f, <2>1, <2>2
  <1>2. CASE Rebalance
    BY <1>f, <1>2, WorkersAssumption DEF Rebalance, consumer, PurchaseInvariant
  <1>3. ASSUME NEW w \in Workers, Assign(w) PROVE PurchaseInvariant'
    <2>1. /\ owner' = w /\ position' = committed
          /\ UNCHANGED <<committed, cpc, cur, cancelled, started>>
      BY <1>3 DEF Assign, consumer, effects
    <2> QED
      BY <2>1 DEF PurchaseInvariant, BegunWorker, Begun, Busy
  <1>4. ASSUME NEW w \in Workers, ConsumerStep(w) PROVE PurchaseInvariant'
    BY <1>4, PurchaseConsumerStep
  <1>5. ASSUME NEW w \in Workers, Shutdown(w) PROVE FALSE
    BY <1>5 DEF Shutdown, Occurs
  <1>6. ASSUME NEW w \in Workers, Crash(w) \/ FatalError(w) PROVE PurchaseInvariant'
    <2>1. /\ cpc'[w] \in {"poll", "dead"} /\ owner' # w
          /\ UNCHANGED <<committed, position>> /\ cancelled' \subseteq cancelled
          /\ \A v \in Workers : v # w => cpc'[v] = cpc[v] /\ cur'[v] = cur[v]
          /\ \A v \in Workers : owner' = v => owner = v
      <3>1. cpc \in [Workers -> CPC] /\ cur \in [Workers -> 0..published]
        BY DEF TypeOK
      <3> QED
        BY <1>6, <3>1, WorkersAssumption DEF Crash, FatalError, Restart, NextMessage, Goto
    <2>2. BegunWorker(w)'
      BY <2>1 DEF BegunWorker, Busy
    <2>3. ASSUME NEW v \in Workers, v # w PROVE BegunWorker(v)'
      BY <2>1, <2>3, BegunWorkerStays DEF PurchaseInvariant
    <2>4. cancelled' = {} /\ (\A e \in Log : e <= committed => Begun(e))'
      BY <1>m, <2>1 DEF PurchaseInvariant
    <2> QED
      BY <2>2, <2>3, <2>4 DEF PurchaseInvariant
  <1> QED
    BY <1>1, <1>2, <1>3, <1>4, <1>5, <1>6 DEF Next

\* While the gateway answers and no worker is told to shut down, a committed
\* ShipPurchased event has had its saga started, through crashes, rebalances,
\* fatal errors, lost commits and failures of PostgreSQL. Each of the two
\* conditions is needed: triggerGalacticWorkflow ignores its errors.
THEOREM PurchasesStarted ==
    ASSUME ~ApiMayFail, "shutdown" \notin FaultKinds
    PROVE  Spec => []CommittedPurchaseStarted
  <1>1. TypeOK /\ TypeOK' /\ PurchaseInvariant /\ [Next]_vars => PurchaseInvariant'
    BY PurchaseNext
  <1>2. PurchaseInvariant => CommittedPurchaseStarted
    BY LogAssumption DEF PurchaseInvariant, CommittedPurchaseStarted, Begun
  <1> QED
    BY <1>1, <1>2, PurchaseInit, TypeCorrect, PTL DEF Spec

=============================================================================
