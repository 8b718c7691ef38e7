------------------------- MODULE TopicAdmin_proofs -------------------------
(***************************************************************************)
(* Proofs about TopicAdmin, for every number of requests, every set of     *)
(* names and create bodies and every combination of faults.                *)
(***************************************************************************)
EXTENDS TopicAdmin, TLAPS

-----------------------------------------------------------------------------
(* The invariant *)

\* A goroutine exists from the arrival of its request on.
Unborn == \A r \in Requests : r > arrivals => req[r].pc = "idle"

\* Which calls belong to which operation, and which come before the Kafka call.
PlaceOK(r) ==
    /\ req[r].pc \in {"idle", "get", "kafka", "metadata"} => ~req[r].hit
    /\ req[r].pc \in {"wait", "insert"} => req[r].op = "create"
    /\ req[r].pc = "remove" => req[r].op = "delete"
    /\ req[r].pc = "kafka" => req[r].op \in {"create", "delete"}
    /\ r \in doomed => req[r].hit /\ req[r].op = "delete"

\* Two requests that hold one name have disturbed each other.
Alone ==
    \A r, o \in Requests :
        r # o /\ Busy(r) /\ Busy(o) /\ req[r].name = req[o].name => r \in disturbed

\* What a request that was not disturbed knows of the two stores: its name is
\* as its own calls have left it.
CalmOK(r) ==
    LET n == req[r].name IN
    r \notin disturbed =>
        /\ req[r].pc = "kafka" => (pg[n] = None <=> req[r].op = "create")
        /\ req[r].pc \in {"wait", "insert"} =>
             /\ pg[n] = None /\ kafka[n] # None
             /\ req[r].hit => kafka[n] = AdminDefaults(req[r].cfg)
        /\ req[r].pc = "remove" => kafka[n] = None \/ r \in doomed
        /\ r \in doomed /\ ~Active(r) => pg[n] = None
        /\ req[r].pc = "metadata" => pg[n] # None
        /\ req[r].pc = "error" =>
             /\ req[r].op = "create"
             /\ ~KafkaAccepts(n, AdminDefaults(req[r].cfg)) \/ ~RowAccepted(req[r].cfg)

\* A disturbed request has changed topic n.
Marked(n) == \E d \in disturbed : req[d].name = n /\ req[d].hit

\* A request whose Kafka call changed nothing found the topic as it wanted it.
\* If the topic is otherwise by now, a rival has made it so.
Overtaken(r) ==
    LET n == req[r].name IN
    /\ req[r].pc \in {"wait", "insert"} /\ ~req[r].hit /\ kafka[n] = None => Marked(n)
    /\ req[r].pc = "remove" /\ ~req[r].hit /\ kafka[n] # None => Marked(n)

\* The inductive invariant.
TopicInvariant ==
    /\ TypeOK /\ Unborn /\ Alone /\ DivergenceTraced
    /\ \A r \in Requests : PlaceOK(r) /\ CalmOK(r) /\ Overtaken(r)

-----------------------------------------------------------------------------
(* Configurations *)

\* Both transports pass a well-formed configuration to the service.
LEMMA ConfigType ==
    /\ \A q \in Creates : Config(Bound(q)) \in TopicConfig
    /\ AnyConfig \in TopicConfig
  <1>1. \A q \in CreateTopicRequest : Config(q) \in TopicConfig
    BY DEF Config, CreateTopicRequest, TopicConfig, Or
  <1>2. \A q \in CreateTopicRequest : Bound(q) \in CreateTopicRequest
    <2> SUFFICES ASSUME NEW q \in CreateTopicRequest PROVE Bound(q) \in CreateTopicRequest
      OBVIOUS
    <2>1. RestDefaults(q) \in CreateTopicRequest
      <3>1. OrDelete(q.cleanupPolicy) \in Policies
        BY DEF OrDelete, CreateTopicRequest, Policies
      <3>2. Or(q.partitions, 6) \in Int /\ Or(q.retentionHours, 168) \in Int
        BY DEF Or, CreateTopicRequest
      <3> QED
        BY <3>1, <3>2 DEF RestDefaults, CreateTopicRequest
    <2>2. GrpcRequest(q) \in CreateTopicRequest
      BY DEF GrpcRequest, CreateTopicRequest
    <2> QED
      BY <2>1, <2>2 DEF Bound
  <1>3. (CHOOSE q \in Creates : TRUE) \in Creates
    BY ConstantsAssumption
  <1>4. Creates \subseteq CreateTopicRequest
    BY ConstantsAssumption
  <1> QED
    BY <1>1, <1>2, <1>3, <1>4 DEF AnyConfig

\* The admin client passes positive numbers on, and its defaults are the same
\* whether or not the row has got its policy already.
LEMMA AdminType ==
    ASSUME NEW c \in TopicConfig
    PROVE  /\ AdminDefaults(c) \in TopicConfig /\ AdminDefaults(c) # None
           /\ AdminDefaults(c).partitions > 0 /\ AdminDefaults(c).retentionHours > 0
           /\ AdminDefaults(RowOf(c)) = AdminDefaults(c)
  <1>1. AdminDefaults(c) \in TopicConfig
    <2>1. OrDelete(c.cleanupPolicy) \in Policies
      BY DEF TopicConfig, OrDelete, Policies
    <2> QED
      BY <2>1 DEF AdminDefaults, TopicConfig
  <1>2. AdminDefaults(c).partitions > 0 /\ AdminDefaults(c).retentionHours > 0
    BY DEF AdminDefaults, TopicConfig
  <1>3. AdminDefaults(RowOf(c)) = AdminDefaults(c)
    <2>1. /\ RowOf(c).partitions = c.partitions /\ RowOf(c).replication = c.replication
          /\ RowOf(c).retentionHours = c.retentionHours
          /\ RowOf(c).cleanupPolicy = OrDelete(c.cleanupPolicy)
      BY DEF RowOf, TopicConfig
    <2>2. OrDelete(OrDelete(c.cleanupPolicy)) = OrDelete(c.cleanupPolicy)
      BY DEF OrDelete
    <2> QED
      BY <2>1, <2>2 DEF AdminDefaults
  <1> QED
    BY <1>1, <1>2, <1>3, ConstantsAssumption

\* A row is stored with a policy, and its columns are those of the request.
LEMMA RowType ==
    ASSUME NEW c \in TopicConfig
    PROVE  /\ RowOf(c) \in TopicConfig /\ RowOf(c) # None
           /\ RowOf(c).partitions = c.partitions /\ RowOf(c).cleanupPolicy # ""
  <1>1. RowOf(c) \in TopicConfig /\ RowOf(c).cleanupPolicy # ""
    BY DEF RowOf, TopicConfig, OrDelete, Policies
  <1>2. RowOf(c).partitions = c.partitions
    BY DEF RowOf, TopicConfig
  <1> QED
    BY <1>1, <1>2, ConstantsAssumption

-----------------------------------------------------------------------------
(* What a step of one handler does *)

PCs == {"idle", "get", "kafka", "wait", "insert", "remove", "metadata"} \cup Answers

\* The handler of r moves on; other handlers and other names are left alone.
Frame(r) ==
    /\ req' \in [Requests -> Handler]
    /\ \A o \in Requests : o # r => req'[o] = req[o]
    /\ req'[r].name = req[r].name /\ req'[r].op = req[r].op /\ req'[r].cfg = req[r].cfg
    /\ kafka' \in [Names -> TopicConfig \cup {None}]
    /\ pg' \in [Names -> TopicConfig \cup {None}]
    /\ \A m \in Names : m # req[r].name => kafka'[m] = kafka[m] /\ pg'[m] = pg[m]
    /\ \/ doomed' = doomed
       \/ doomed' = doomed \cup {r} /\ req'[r].hit /\ req[r].op = "delete" /\ req[r].pc = "kafka"
    /\ arrivals' = arrivals
    /\ faults' \in 0..MaxFaults

Calm == disturbed' = disturbed

Met(r) == disturbed' = disturbed \cup {r}

KafkaSame(r) == kafka'[req[r].name] = kafka[req[r].name] /\ req'[r].hit = req[r].hit

RowSame(r) == pg'[req[r].name] = pg[req[r].name]

ReadEffect(r) ==
    /\ req[r].pc = "get" /\ KafkaSame(r) /\ RowSame(r)
    /\ \/ Calm /\ req'[r].pc = IF pg[req[r].name] # None THEN RowFound(req[r].op)
                                                         ELSE RowMissing(req[r].op)
       \/ Met(r) /\ req'[r].pc = RowMissing(req[r].op)

CreateEffect(r) ==
    LET n == req[r].name IN
    /\ req[r].pc = "kafka" /\ req[r].op = "create" /\ RowSame(r)
    /\ \/ /\ Calm /\ KafkaSame(r) /\ req'[r].pc = "error"
          /\ ~KafkaAccepts(n, AdminDefaults(req[r].cfg))
       \/ /\ Calm /\ req'[r].pc = "wait" /\ kafka[n] = None /\ req'[r].hit
          /\ kafka'[n] = AdminDefaults(req[r].cfg)
       \/ /\ Calm /\ req'[r].pc = "wait" /\ kafka[n] # None /\ ~req'[r].hit
          /\ kafka'[n] = kafka[n]

DeleteEffect(r) ==
    LET n == req[r].name IN
    /\ req[r].pc = "kafka" /\ req[r].op = "delete" /\ RowSame(r)
    /\ Calm /\ req'[r].pc = "remove"
    /\ kafka'[n] = kafka[n] /\ (req'[r].hit <=> Deletable(n)) /\ (Deletable(n) => r \in doomed')

KafkaErrorEffect(r) ==
    LET n == req[r].name IN
    /\ req[r].pc = "kafka" /\ RowSame(r)
    /\ Met(r) /\ req'[r].pc = "error"
    /\ kafka'[n] \in {kafka[n], AdminDefaults(req[r].cfg)}
    /\ kafka'[n] # kafka[n] => req'[r].hit

WaitEffect(r) ==
    /\ req[r].pc = "wait" /\ KafkaSame(r) /\ RowSame(r)
    /\ \/ Calm /\ req'[r].pc = "insert"
       \/ Met(r) /\ req'[r].pc = "error"

InsertEffect(r) ==
    LET n == req[r].name
        fits == pg[n] = None /\ RowAccepted(req[r].cfg)
    IN
    /\ req[r].pc = "insert" /\ KafkaSame(r)
    /\ \/ Calm /\ fits /\ req'[r].pc = "created" /\ pg'[n] = RowOf(req[r].cfg)
       \/ Calm /\ ~fits /\ req'[r].pc = "error" /\ RowSame(r)
       \/ Met(r) /\ req'[r].pc = "error" /\ (RowSame(r) \/ (fits /\ pg'[n] = RowOf(req[r].cfg)))

RemoveEffect(r) ==
    LET n == req[r].name IN
    /\ req[r].pc = "remove" /\ KafkaSame(r)
    /\ \/ Calm /\ req'[r].pc = "deleted" /\ pg'[n] = None
       \/ Met(r) /\ req'[r].pc = "error" /\ (RowSame(r) \/ pg'[n] = None)

CheckEffect(r) ==
    /\ req[r].pc = "metadata" /\ KafkaSame(r) /\ RowSame(r)
    /\ \/ /\ Calm /\ req'[r].pc = "found"
          /\ kafka[req[r].name] # None \/ req[r].name \in ErrorEntries
       \/ Calm /\ req'[r].pc = "notfound" /\ kafka[req[r].name] = None
       \/ Met(r) /\ req'[r].pc = "error"

Effect(r) ==
    \/ ReadEffect(r) \/ CreateEffect(r) \/ DeleteEffect(r) \/ KafkaErrorEffect(r)
    \/ WaitEffect(r) \/ InsertEffect(r) \/ RemoveEffect(r) \/ CheckEffect(r)

\* A handler that goes to p.
LEMMA Gone ==
    ASSUME TypeOK, NEW r \in Requests, NEW p \in PCs, Goto(r, p)
    PROVE  /\ req' \in [Requests -> Handler]
           /\ \A o \in Requests : o # r => req'[o] = req[o]
           /\ req'[r].name = req[r].name /\ req'[r].op = req[r].op /\ req'[r].cfg = req[r].cfg
           /\ req'[r].pc = p /\ req'[r].hit = req[r].hit
  BY DEF TypeOK, Handler, Goto, PCs

\* A handler that goes to p and notes whether its call changed the cluster.
LEMMA GoneHit ==
    ASSUME TypeOK, NEW r \in Requests, NEW p \in PCs, NEW h \in BOOLEAN,
           req' = [req EXCEPT ![r].pc = p, ![r].hit = h]
    PROVE  /\ req' \in [Requests -> Handler]
           /\ \A o \in Requests : o # r => req'[o] = req[o]
           /\ req'[r].name = req[r].name /\ req'[r].op = req[r].op /\ req'[r].cfg = req[r].cfg
           /\ req'[r].pc = p /\ req'[r].hit = h
  BY DEF TypeOK, Handler, PCs

\* Faults and the calm path.
LEMMA Disturbance ==
    ASSUME TypeOK, NEW r \in Requests
    PROVE  /\ OK => faults' \in 0..MaxFaults /\ Calm
           /\ Fault(r) => faults' \in 0..MaxFaults /\ Met(r)
  <1>1. faults \in 0..MaxFaults /\ MaxFaults \in Nat
    BY ConstantsAssumption DEF TypeOK
  <1>2. OK => faults' \in 0..MaxFaults /\ Calm
    BY <1>1 DEF OK, Calm
  <1>3. Fault(r) => faults' \in 0..MaxFaults
    BY <1>1 DEF Fault
  <1> QED
    BY <1>2, <1>3 DEF Fault, Met

\* Every step of a handler has one of these effects.
LEMMA StepEffect ==
    ASSUME TypeOK, NEW r \in Requests, Step(r)
    PROVE  Frame(r) /\ Effect(r)
  <1> DEFINE n == req[r].name  c == req[r].cfg
  <1>0. /\ n \in Names /\ c \in TopicConfig /\ req[r].hit \in BOOLEAN
        /\ req[r].op \in {"create", "delete", "get"}
    BY DEF TypeOK, Handler
  <1>t. /\ kafka \in [Names -> TopicConfig \cup {None}] /\ pg \in [Names -> TopicConfig \cup {None}]
        /\ AdminDefaults(c) \in TopicConfig /\ RowOf(c) \in TopicConfig
    BY <1>0, AdminType, RowType DEF TypeOK
  <1>d. /\ OK => faults' \in 0..MaxFaults /\ Calm
        /\ Fault(r) => faults' \in 0..MaxFaults /\ Met(r)
    BY Disturbance
  <1>p. /\ RowFound(req[r].op) \in PCs /\ RowMissing(req[r].op) \in PCs
        /\ {"error", "wait", "insert", "remove", "created", "deleted", "found", "notfound"} \subseteq PCs
    BY <1>0 DEF RowFound, RowMissing, PCs, Answers, Refusals
  <1> HIDE DEF n, c
  <1>g. ASSUME NEW p \in PCs, Goto(r, p)
        PROVE  /\ req' \in [Requests -> Handler]
               /\ \A o \in Requests : o # r => req'[o] = req[o]
               /\ req'[r].name = req[r].name /\ req'[r].op = req[r].op /\ req'[r].cfg = req[r].cfg
               /\ req'[r].pc = p /\ req'[r].hit = req[r].hit
    BY <1>g, Gone
  <1>1. CASE GetRow(r)
    <2>1. PICK p \in PCs : /\ Goto(r, p)
                           /\ \/ OK /\ p = IF pg[n] # None THEN RowFound(req[r].op) ELSE RowMissing(req[r].op)
                              \/ Fault(r) /\ p = RowMissing(req[r].op)
      BY <1>1, <1>p DEF GetRow, n
    <2>2. kafka' = kafka /\ doomed' = doomed /\ pg' = pg /\ arrivals' = arrivals
      BY <1>1 DEF GetRow
    <2>3. Frame(r)
      BY <2>1, <2>2, <1>d, <1>g, <1>t DEF Frame
    <2>4. ReadEffect(r)
      BY <2>1, <2>2, <1>d, <1>g, <1>1 DEF ReadEffect, KafkaSame, RowSame, GetRow, n
    <2> QED
      BY <2>3, <2>4 DEF Effect
  <1>2. CASE CreateInKafka(r)
    <2>1. /\ pg' = pg /\ doomed' = doomed /\ arrivals' = arrivals /\ OK
          /\ req[r].pc = "kafka" /\ req[r].op = "create"
      BY <1>2 DEF CreateInKafka
    <2>2. CASE Refused(r) /\ Goto(r, "error") /\ UNCHANGED kafka
      <3>1. Frame(r)
        BY <2>1, <2>2, <1>d, <1>g, <1>t, <1>p DEF Frame
      <3>2. CreateEffect(r)
        BY <2>1, <2>2, <1>d, <1>g, <1>p DEF CreateEffect, KafkaSame, RowSame, Refused
      <3> QED
        BY <3>1, <3>2 DEF Effect
    <2>3. CASE CreateTopics(r)
      <3>1. PICK h \in BOOLEAN : (h <=> kafka[n] = None) /\ req' = [req EXCEPT ![r].pc = "wait", ![r].hit = h]
        BY <2>3 DEF CreateTopics, n
      <3>2. /\ req' \in [Requests -> Handler]
            /\ \A o \in Requests : o # r => req'[o] = req[o]
            /\ req'[r].name = n /\ req'[r].op = req[r].op /\ req'[r].cfg = c
            /\ req'[r].pc = "wait" /\ req'[r].hit = h
        BY <3>1, <1>p, GoneHit DEF n, c
      <3>3. kafka' = [kafka EXCEPT ![n] = IF kafka[n] = None THEN AdminDefaults(c) ELSE kafka[n]]
        BY <2>3 DEF CreateTopics, n, c
      <3>4. Frame(r)
        BY <2>1, <3>2, <3>3, <1>0, <1>d, <1>t DEF Frame, n, c
      <3>5. CreateEffect(r)
        BY <2>1, <3>1, <3>2, <3>3, <1>0, <1>d, <1>t DEF CreateEffect, RowSame, n, c
      <3> QED
        BY <3>4, <3>5 DEF Effect
    <2> QED
      BY <1>2, <2>2, <2>3 DEF CreateInKafka
  <1>x. ASSUME NEW p \in PCs, DeleteTopics(r, p)
        PROVE  /\ req' \in [Requests -> Handler]
               /\ \A o \in Requests : o # r => req'[o] = req[o]
               /\ req'[r].name = n /\ req'[r].op = req[r].op /\ req'[r].cfg = c
               /\ req'[r].pc = p /\ (req'[r].hit <=> Deletable(n)) /\ kafka' = kafka
               /\ doomed' = IF Deletable(n) THEN doomed \cup {r} ELSE doomed
    <2>1. PICK h \in BOOLEAN : (h <=> Deletable(n)) /\ req' = [req EXCEPT ![r].pc = p, ![r].hit = h]
      <3>1. Deletable(n) \in BOOLEAN
        BY DEF Deletable
      <3> QED
        BY <1>x, <3>1 DEF DeleteTopics, n
    <2>2. /\ req' \in [Requests -> Handler]
          /\ \A o \in Requests : o # r => req'[o] = req[o]
          /\ req'[r].name = req[r].name /\ req'[r].op = req[r].op /\ req'[r].cfg = req[r].cfg
          /\ req'[r].pc = p /\ req'[r].hit = h
      BY <1>x, <2>1 DEF TypeOK, Handler, PCs
    <2>3. kafka' = kafka /\ doomed' = IF Deletable(n) THEN doomed \cup {r} ELSE doomed
      BY <1>x DEF DeleteTopics, n
    <2> QED
      BY <2>1, <2>2, <2>3 DEF n, c
  <1>3. CASE DeleteInKafka(r)
    <2>1. /\ pg' = pg /\ arrivals' = arrivals /\ OK /\ DeleteTopics(r, "remove")
          /\ req[r].op = "delete" /\ req[r].pc = "kafka"
      BY <1>3 DEF DeleteInKafka
    <2>2. Frame(r)
      BY <2>1, <1>x, <1>0, <1>d, <1>t, <1>p DEF Frame, n, c
    <2>3. DeleteEffect(r)
      BY <1>3, <2>1, <1>x, <1>0, <1>d, <1>t, <1>p DEF DeleteEffect, DeleteInKafka, RowSame, n
    <2> QED
      BY <2>2, <2>3 DEF Effect
  <1>4. CASE KafkaError(r)
    <2>1. pg' = pg /\ arrivals' = arrivals /\ Fault(r) /\ req[r].pc = "kafka"
      BY <1>4 DEF KafkaError
    <2>2. CASE Goto(r, "error") /\ UNCHANGED <<kafka, doomed>>
      <3>1. Frame(r)
        BY <2>1, <2>2, <1>d, <1>g, <1>t, <1>p DEF Frame
      <3>2. KafkaErrorEffect(r)
        BY <2>1, <2>2, <1>d, <1>g, <1>p DEF KafkaErrorEffect, RowSame
      <3> QED
        BY <3>1, <3>2 DEF Effect
    <2>3. CASE req[r].op = "delete" /\ DeleteTopics(r, "error")
      <3>1. Frame(r)
        BY <2>1, <2>3, <1>x, <1>0, <1>d, <1>t, <1>p DEF Frame, n, c
      <3>2. KafkaErrorEffect(r)
        BY <2>1, <2>3, <1>x, <1>0, <1>d, <1>t, <1>p DEF KafkaErrorEffect, RowSame, n
      <3> QED
        BY <3>1, <3>2 DEF Effect
    <2>4. CASE /\ kafka' = [kafka EXCEPT ![n] = AdminDefaults(c)]
               /\ req' = [req EXCEPT ![r].pc = "error", ![r].hit = TRUE]
               /\ doomed' = doomed
      <3>1. /\ req' \in [Requests -> Handler]
            /\ \A o \in Requests : o # r => req'[o] = req[o]
            /\ req'[r].name = n /\ req'[r].op = req[r].op /\ req'[r].cfg = c
            /\ req'[r].pc = "error" /\ req'[r].hit = TRUE
        BY <2>4, <1>p, GoneHit DEF n, c
      <3>2. Frame(r)
        BY <2>1, <2>4, <3>1, <1>0, <1>d, <1>t DEF Frame, n, c
      <3>3. kafka'[n] = AdminDefaults(c)
        BY <2>4, <1>0, <1>t
      <3>4. KafkaErrorEffect(r)
        BY <2>1, <3>1, <3>3, <1>d DEF KafkaErrorEffect, RowSame, n, c
      <3> QED
        BY <3>2, <3>4 DEF Effect
    <2> QED
      BY <1>4, <2>2, <2>3, <2>4 DEF KafkaError, n, c
  <1>5. CASE WaitForTopic(r)
    <2>1. PICK p \in PCs : Goto(r, p) /\ ((OK /\ p = "insert") \/ (Fault(r) /\ p = "error"))
      <3>1. \/ OK /\ Goto(r, "insert")
            \/ Fault(r) /\ Goto(r, "error")
        BY <1>5 DEF WaitForTopic
      <3>2. CASE OK /\ Goto(r, "insert")
        BY <3>2, <1>p
      <3>3. CASE Fault(r) /\ Goto(r, "error")
        BY <3>3, <1>p
      <3> QED
        BY <3>1, <3>2, <3>3
    <2>2. kafka' = kafka /\ doomed' = doomed /\ pg' = pg /\ arrivals' = arrivals
      BY <1>5 DEF WaitForTopic
    <2>3. Frame(r)
      BY <2>1, <2>2, <1>d, <1>g, <1>t DEF Frame
    <2>4. WaitEffect(r)
      BY <2>1, <2>2, <1>d, <1>g, <1>5 DEF WaitEffect, KafkaSame, RowSame, WaitForTopic
    <2> QED
      BY <2>3, <2>4 DEF Effect
  <1>6. CASE InsertRow(r)
    <2> DEFINE fits == pg[n] = None /\ RowAccepted(c)
    <2>1. PICK p \in PCs : /\ Goto(r, p)
                           /\ \/ OK /\ fits /\ p = "created" /\ pg' = [pg EXCEPT ![n] = RowOf(c)]
                              \/ OK /\ ~fits /\ p = "error" /\ pg' = pg
                              \/ Fault(r) /\ p = "error" /\ (pg' = pg \/ (fits /\ pg' = [pg EXCEPT ![n] = RowOf(c)]))
      <3>1. \/ OK /\ fits /\ Goto(r, "created") /\ pg' = [pg EXCEPT ![n] = RowOf(c)]
            \/ OK /\ ~fits /\ Goto(r, "error") /\ pg' = pg
            \/ Fault(r) /\ Goto(r, "error") /\ (pg' = pg \/ (fits /\ pg' = [pg EXCEPT ![n] = RowOf(c)]))
        BY <1>6 DEF InsertRow, n, c
      <3> HIDE DEF fits
      <3>2. CASE OK /\ fits /\ Goto(r, "created") /\ pg' = [pg EXCEPT ![n] = RowOf(c)]
        BY <3>2, <1>p
      <3>3. CASE OK /\ ~fits /\ Goto(r, "error") /\ pg' = pg
        BY <3>3, <1>p
      <3>4. CASE /\ Fault(r) /\ Goto(r, "error")
                 /\ pg' = pg \/ (fits /\ pg' = [pg EXCEPT ![n] = RowOf(c)])
        BY <3>4, <1>p
      <3> QED
        BY <3>1, <3>2, <3>3, <3>4
    <2>2. kafka' = kafka /\ doomed' = doomed /\ arrivals' = arrivals /\ req[r].pc = "insert"
      BY <1>6 DEF InsertRow
    <2>3. Frame(r)
      BY <2>1, <2>2, <1>d, <1>g, <1>t, <1>0 DEF Frame, n, c
    <2>4. InsertEffect(r)
      BY <2>1, <2>2, <1>d, <1>g, <1>t, <1>0 DEF InsertEffect, KafkaSame, RowSame, n, c
    <2> QED
      BY <2>3, <2>4 DEF Effect
  <1>7. CASE RemoveRow(r)
    <2>1. PICK p \in PCs : /\ Goto(r, p)
                           /\ \/ OK /\ p = "deleted" /\ pg' = [pg EXCEPT ![n] = None]
                              \/ Fault(r) /\ p = "error" /\ (pg' = pg \/ pg' = [pg EXCEPT ![n] = None])
      BY <1>7, <1>p DEF RemoveRow, n
    <2>2. kafka' = kafka /\ doomed' = doomed /\ arrivals' = arrivals /\ req[r].pc = "remove"
      BY <1>7 DEF RemoveRow
    <2>3. Frame(r)
      BY <2>1, <2>2, <1>d, <1>g, <1>t, <1>0 DEF Frame, n
    <2>4. RemoveEffect(r)
      BY <2>1, <2>2, <1>d, <1>g, <1>t, <1>0 DEF RemoveEffect, KafkaSame, RowSame, n
    <2> QED
      BY <2>3, <2>4 DEF Effect
  <1>8. CASE CheckTopic(r)
    <2>1. PICK p \in PCs : /\ Goto(r, p)
                           /\ \/ OK /\ p = "found" /\ TopicExists(n)
                              \/ OK /\ p = "notfound" /\ ~TopicExists(n)
                              \/ Fault(r) /\ p = "error"
      <3>1. \/ OK /\ Goto(r, IF TopicExists(n) THEN "found" ELSE "notfound")
            \/ Fault(r) /\ Goto(r, "error")
        BY <1>8 DEF CheckTopic, n
      <3> QED
        BY <3>1, <1>p
    <2>2. kafka' = kafka /\ doomed' = doomed /\ pg' = pg /\ arrivals' = arrivals /\ req[r].pc = "metadata"
      BY <1>8 DEF CheckTopic
    <2>3. Frame(r)
      BY <2>1, <2>2, <1>d, <1>g, <1>t DEF Frame
    <2>4. CheckEffect(r)
      BY <2>1, <2>2, <1>d, <1>g DEF CheckEffect, KafkaSame, RowSame, TopicExists, n
    <2> QED
      BY <2>3, <2>4 DEF Effect
  <1> QED
    BY <1>1, <1>2, <1>3, <1>4, <1>5, <1>6, <1>7, <1>8 DEF Step

-----------------------------------------------------------------------------
(* A step of a handler preserves the invariant *)

\* A step is a step of a request at work.
LEMMA StepActive ==
    ASSUME NEW r \in Requests, Effect(r)
    PROVE  Active(r)
  BY DEF Effect, ReadEffect, CreateEffect, DeleteEffect, KafkaErrorEffect, WaitEffect,
         InsertEffect, RemoveEffect, CheckEffect, Active, Answers, Refusals

\* Requests are disturbed for good.
LEMMA DisturbedStays ==
    ASSUME NEW r \in Requests, Effect(r)
    PROVE  disturbed \subseteq disturbed'
  BY DEF Effect, ReadEffect, CreateEffect, DeleteEffect, KafkaErrorEffect, WaitEffect,
         InsertEffect, RemoveEffect, CheckEffect, Calm, Met

\* What the cluster and the table may hold for the name of r after its step.
LEMMA Writes ==
    ASSUME NEW r \in Requests, Effect(r)
    PROVE  /\ kafka'[req[r].name] \in {kafka[req[r].name], AdminDefaults(req[r].cfg)}
           /\ \/ pg'[req[r].name] \in {pg[req[r].name], None}
              \/ pg'[req[r].name] = RowOf(req[r].cfg) /\ RowAccepted(req[r].cfg)
           /\ disturbed' \in {disturbed, disturbed \cup {r}}
  BY DEF Effect, ReadEffect, CreateEffect, DeleteEffect, KafkaErrorEffect, WaitEffect,
         InsertEffect, RemoveEffect, CheckEffect, Calm, Met, KafkaSame, RowSame

\* A request that changes the topic notes it, and never forgets it.
LEMMA HitStays ==
    ASSUME NEW r \in Requests, Effect(r), PlaceOK(r)
    PROVE  /\ req[r].hit => req'[r].hit
           /\ kafka'[req[r].name] # kafka[req[r].name] => req'[r].hit
  <1>1. req[r].pc = "kafka" => ~req[r].hit
    BY DEF PlaceOK
  <1> QED
    BY <1>1 DEF Effect, ReadEffect, CreateEffect, DeleteEffect, KafkaErrorEffect, WaitEffect,
         InsertEffect, RemoveEffect, CheckEffect, KafkaSame

\* Types.
LEMMA TypeStep ==
    ASSUME TypeOK, NEW r \in Requests, Frame(r), Effect(r)
    PROVE  TypeOK'
  <1> DEFINE n == req[r].name  c == req[r].cfg
  <1>1. n \in Names /\ c \in TopicConfig
    BY DEF TypeOK, Handler
  <1>2. /\ AdminDefaults(c).partitions > 0 /\ AdminDefaults(c).retentionHours > 0
        /\ RowOf(c).cleanupPolicy # "" /\ RowOf(c).partitions = c.partitions
    BY <1>1, AdminType, RowType
  <1>3. kafka'[n] # None => kafka'[n].partitions > 0 /\ kafka'[n].retentionHours > 0
    <2>1. kafka'[n] \in {kafka[n], AdminDefaults(c)}
      BY Writes
    <2>2. kafka[n] # None => kafka[n].partitions > 0 /\ kafka[n].retentionHours > 0
      BY <1>1 DEF TypeOK
    <2> HIDE DEF n, c
    <2> QED
      BY <2>1, <2>2, <1>2
  <1>4. pg'[n] # None => pg'[n].partitions > 0 /\ pg'[n].cleanupPolicy # ""
    <2>1. pg'[n] \in {pg[n], None} \/ (pg'[n] = RowOf(c) /\ RowAccepted(c))
      BY Writes
    <2>2. pg[n] # None => pg[n].partitions > 0 /\ pg[n].cleanupPolicy # ""
      BY <1>1 DEF TypeOK
    <2>3. RowAccepted(c) => c.partitions > 0
      BY DEF RowAccepted
    <2> HIDE DEF n, c
    <2> QED
      BY <2>1, <2>2, <2>3, <1>2
  <1>5. \A m \in Names :
           /\ kafka'[m] # None => kafka'[m].partitions > 0 /\ kafka'[m].retentionHours > 0
           /\ pg'[m] # None => pg'[m].partitions > 0 /\ pg'[m].cleanupPolicy # ""
    <2> SUFFICES ASSUME NEW m \in Names
                 PROVE  /\ kafka'[m] # None => kafka'[m].partitions > 0 /\ kafka'[m].retentionHours > 0
                        /\ pg'[m] # None => pg'[m].partitions > 0 /\ pg'[m].cleanupPolicy # ""
      OBVIOUS
    <2>1. CASE m = n
      BY <2>1, <1>3, <1>4
    <2>2. CASE m # n
      <3>1. kafka'[m] = kafka[m] /\ pg'[m] = pg[m]
        BY <2>2 DEF Frame
      <3> QED
        BY <3>1 DEF TypeOK
    <2> QED
      BY <2>1, <2>2
  <1>6. disturbed' \subseteq Requests /\ doomed' \subseteq Requests
    BY Writes DEF TypeOK, Frame
  <1>7. arrivals' \in 0..MaxArrivals
    BY DEF Frame, TypeOK
  <1> QED
    BY <1>5, <1>6, <1>7 DEF TypeOK, Frame

\* The places of the handlers.
LEMMA PlaceStep ==
    ASSUME TypeOK, NEW r \in Requests, Frame(r), Effect(r), \A o \in Requests : PlaceOK(o)
    PROVE  \A o \in Requests : PlaceOK(o)'
  <1> SUFFICES ASSUME NEW o \in Requests PROVE PlaceOK(o)'
    OBVIOUS
  <1>1. CASE o # r
    BY <1>1 DEF Frame, PlaceOK
  <1>2. CASE o = r
    <2>0. PlaceOK(r) /\ req'[r].op = req[r].op /\ req[r].op \in {"create", "delete", "get"}
      BY DEF Frame, TypeOK, Handler
    <2>d. r \in doomed' => req'[r].hit /\ req'[r].op = "delete"
      BY <2>0, HitStays DEF Frame, PlaceOK
    <2>1. CASE ReadEffect(r)
      <3>1. \/ req'[r].pc = RowFound(req[r].op)
            \/ req'[r].pc = RowMissing(req[r].op)
        BY <2>1 DEF ReadEffect
      <3>2. /\ req'[r].pc \in {"exists", "kafka", "metadata", "notfound"} /\ ~req'[r].hit
            /\ req'[r].pc = "kafka" => req[r].op \in {"create", "delete"}
        BY <2>0, <2>1, <3>1 DEF RowFound, RowMissing, PlaceOK, ReadEffect, KafkaSame
      <3> QED
        BY <1>2, <2>0, <2>d, <3>2 DEF PlaceOK
    <2>2. CASE CreateEffect(r) \/ DeleteEffect(r) \/ KafkaErrorEffect(r)
      BY <1>2, <2>0, <2>d, <2>2 DEF CreateEffect, DeleteEffect, KafkaErrorEffect, PlaceOK
    <2>3. CASE WaitEffect(r) \/ InsertEffect(r) \/ RemoveEffect(r) \/ CheckEffect(r)
      BY <1>2, <2>0, <2>d, <2>3 DEF WaitEffect, InsertEffect, RemoveEffect, CheckEffect, PlaceOK
    <2> QED
      BY <2>1, <2>2, <2>3 DEF Effect
  <1> QED
    BY <1>1, <1>2

\* Rivals stay disturbed.
LEMMA AloneStep ==
    ASSUME TypeOK, NEW r \in Requests, Frame(r), Effect(r), Alone
    PROVE  Alone'
  <1> SUFFICES ASSUME NEW o \in Requests, NEW m \in Requests, o # m, Busy(o)', Busy(m)',
                      req'[o].name = req'[m].name
               PROVE  o \in disturbed'
    BY DEF Alone
  <1>1. \A q \in Requests : Busy(q)' => Busy(q)
    BY StepActive DEF Frame, Active, Busy
  <1>2. \A q \in Requests : req'[q].name = req[q].name
    BY DEF Frame
  <1>3. o \in disturbed
    BY <1>1, <1>2 DEF Alone
  <1> QED
    BY <1>3, DisturbedStays

\* The name that another undisturbed request holds is another name.
LEMMA Apart ==
    ASSUME NEW r \in Requests, Effect(r), Alone, NEW o \in Requests, o # r,
           o \notin disturbed, Busy(o)
    PROVE  req[o].name # req[r].name
  BY StepActive DEF Alone, Busy

\* What undisturbed requests know of the stores.
LEMMA CalmStep ==
    ASSUME TypeOK, NEW r \in Requests, Frame(r), Effect(r), Alone,
           \A o \in Requests : PlaceOK(o) /\ CalmOK(o)
    PROVE  \A o \in Requests : CalmOK(o)'
  <1> SUFFICES ASSUME NEW o \in Requests, o \notin disturbed' PROVE CalmOK(o)'
    BY DEF CalmOK
  <1>d. o \notin disturbed
    BY DisturbedStays
  <1>1. CASE o # r
    <2>1. req'[o] = req[o] /\ req[o].name \in Names /\ (o \in doomed' <=> o \in doomed)
      BY <1>1 DEF Frame, TypeOK, Handler
    <2>2. CASE Busy(o)
      <3>1. kafka'[req[o].name] = kafka[req[o].name] /\ pg'[req[o].name] = pg[req[o].name]
        BY <1>1, <1>d, <2>1, <2>2, Apart DEF Frame
      <3> QED
        BY <1>d, <2>1, <3>1 DEF CalmOK, Active
    <2>3. CASE ~Busy(o)
      <3>1. req[o].pc \notin {"kafka", "wait", "insert", "remove", "metadata"} /\ o \notin doomed
        BY <2>3 DEF Active, Busy, Answers, Refusals
      <3> QED
        BY <1>d, <2>1, <3>1 DEF CalmOK
    <2> QED
      BY <2>2, <2>3
  <1>2. CASE o = r
    <2> DEFINE n == req[r].name  c == req[r].cfg
    <2>0. /\ req'[r].op = req[r].op /\ req[r].op \in {"create", "delete", "get"}
          /\ req'[r].name = n /\ req'[r].cfg = c /\ n \in Names /\ c \in TopicConfig
      BY DEF Frame, TypeOK, Handler
    <2>a. AdminDefaults(c) # None
      BY <2>0, AdminType
    <2>c. CalmOK(r) /\ PlaceOK(r) /\ ~Met(r) /\ r \notin disturbed
      BY <1>2, <1>d DEF Met
    <2>m. r \in doomed' => req[r].op = "delete" /\ req[r].pc \in {"kafka", "remove"}
      <3>1. Active(r) /\ req[r].pc \in PCs
        BY StepActive DEF TypeOK, Handler, PCs
      <3> QED
        BY <2>0, <2>c, <3>1 DEF PlaceOK, Frame, Active, PCs
    <2>1. CASE ReadEffect(r)
      <3>1. /\ req'[r].pc = IF pg[n] # None THEN RowFound(req[r].op) ELSE RowMissing(req[r].op)
            /\ pg'[n] = pg[n]
        BY <2>1, <2>c DEF ReadEffect, RowSame
      <3>2. /\ req'[r].pc \in {"exists", "kafka", "metadata", "notfound"}
            /\ req'[r].pc = "kafka" => (pg[n] = None <=> req[r].op = "create")
            /\ req'[r].pc = "metadata" => pg[n] # None
        BY <2>0, <3>1 DEF RowFound, RowMissing
      <3> QED
        BY <1>2, <2>0, <2>1, <2>m, <3>1, <3>2 DEF CalmOK, ReadEffect
    <2>2. CASE CreateEffect(r)
      <3>1. pg[n] = None /\ pg'[n] = pg[n]
        BY <2>2, <2>c DEF CalmOK, CreateEffect, RowSame
      <3> QED
        BY <1>2, <2>0, <2>2, <2>a, <2>c, <2>m, <3>1 DEF CalmOK, CreateEffect
    <2>3. CASE DeleteEffect(r)
      <3>1. Deletable(n) \/ kafka[n] = None
        <4>1. ASSUME NEW d \in doomed, req[d].name = n PROVE FALSE
          <5>1. d \in Requests /\ d # r
            BY <2>3, <2>c DEF DeleteEffect, PlaceOK, TypeOK
          <5>2. Busy(d) /\ Busy(r)
            BY StepActive DEF Busy
          <5> QED
            BY <2>c, <4>1, <5>1, <5>2 DEF Alone
        <4> QED
          BY <4>1 DEF Deletable
      <3>2. req'[r].pc = "remove" /\ kafka'[n] = kafka[n] /\ (Deletable(n) => r \in doomed')
        BY <2>3 DEF DeleteEffect
      <3>3. Active(r)'
        BY <3>2 DEF Active, Answers, Refusals
      <3> QED
        BY <1>2, <2>0, <3>1, <3>2, <3>3 DEF CalmOK
    <2>4. CASE WaitEffect(r)
      <3>1. /\ req'[r].pc = "insert" /\ pg'[n] = pg[n] /\ kafka'[n] = kafka[n]
            /\ req'[r].hit = req[r].hit
        BY <2>4, <2>c DEF WaitEffect, KafkaSame, RowSame
      <3>2. /\ pg[n] = None /\ kafka[n] # None
            /\ req[r].hit => kafka[n] = AdminDefaults(c)
        BY <2>4, <2>c DEF WaitEffect, CalmOK
      <3> QED
        BY <1>2, <2>0, <2>4, <2>m, <3>1, <3>2 DEF CalmOK, WaitEffect
    <2>5. CASE InsertEffect(r)
      <3>1. req'[r].pc = "created" \/ (req'[r].pc = "error" /\ ~(pg[n] = None /\ RowAccepted(c)))
        BY <2>5, <2>c DEF InsertEffect
      <3>2. pg[n] = None /\ req[r].op = "create"
        BY <2>5, <2>c DEF InsertEffect, CalmOK, PlaceOK
      <3> QED
        BY <1>2, <2>0, <2>5, <2>m, <3>1, <3>2 DEF CalmOK, InsertEffect
    <2>6. CASE RemoveEffect(r) \/ CheckEffect(r)
      <3>1. req'[r].pc \in {"deleted", "found", "notfound"}
        BY <2>6, <2>c DEF RemoveEffect, CheckEffect
      <3>2. r \in doomed' => pg'[n] = None
        BY <2>6, <2>c, <2>m DEF RemoveEffect, CheckEffect
      <3> QED
        BY <1>2, <2>0, <3>1, <3>2 DEF CalmOK
    <2> QED
      BY <2>1, <2>2, <2>3, <2>4, <2>5, <2>6, <2>c DEF Effect, KafkaErrorEffect
  <1> QED
    BY <1>1, <1>2

\* The mark of a disturbed request stays.
LEMMA MarkedStays ==
    ASSUME TypeOK, NEW r \in Requests, Frame(r), Effect(r), PlaceOK(r), NEW m, Marked(m)
    PROVE  Marked(m)'
  <1>1. PICK d \in disturbed : req[d].name = m /\ req[d].hit
    BY DEF Marked
  <1>2. d \in Requests /\ d \in disturbed'
    BY DisturbedStays DEF TypeOK
  <1>3. req'[d].name = m /\ req'[d].hit
    BY <1>1, <1>2, HitStays DEF Frame
  <1> QED
    BY <1>2, <1>3 DEF Marked

\* A request at work whose topic another one changes has been marked.
LEMMA OvertakenStep ==
    ASSUME TypeOK, NEW r \in Requests, Frame(r), Effect(r), Alone,
           \A o \in Requests : PlaceOK(o) /\ Overtaken(o)
    PROVE  \A o \in Requests : Overtaken(o)'
  <1> SUFFICES ASSUME NEW o \in Requests PROVE Overtaken(o)'
    OBVIOUS
  <1>n. PICK n \in Names : n = req[o].name
    BY DEF TypeOK, Handler
  <1>0. req'[o].name = n
    BY <1>n DEF Frame
  <1>m. Marked(n) => Marked(n)'
    BY MarkedStays
  <1>s. SUFFICES
          /\ req'[o].pc \in {"wait", "insert"} /\ ~req'[o].hit /\ kafka'[n] = None => Marked(n)'
          /\ req'[o].pc = "remove" /\ ~req'[o].hit /\ kafka'[n] # None => Marked(n)'
    BY <1>0 DEF Overtaken, Marked
  <1>1. CASE o # r /\ kafka'[n] = kafka[n]
    <2>1. req'[o] = req[o]
      BY <1>1 DEF Frame
    <2>2. /\ req[o].pc \in {"wait", "insert"} /\ ~req[o].hit /\ kafka[n] = None => Marked(n)
          /\ req[o].pc = "remove" /\ ~req[o].hit /\ kafka[n] # None => Marked(n)
      BY <1>n DEF Overtaken
    <2> QED
      BY <1>1, <2>1, <2>2, <1>m
  <1>2. CASE o # r /\ kafka'[n] # kafka[n]
    <2>1. req'[o] = req[o] /\ n = req[r].name
      BY <1>n, <1>0, <1>2 DEF Frame
    <2>2. CASE Active(o)
      <3>1. r \in disturbed
        BY <1>2, <2>1, <2>2, StepActive, <1>n DEF Alone, Busy
      <3>2. req'[r].hit /\ req'[r].name = n /\ r \in disturbed'
        BY <1>2, <2>1, <3>1, HitStays, DisturbedStays DEF Frame
      <3> QED
        BY <3>2 DEF Marked
    <2>3. CASE ~Active(o)
      BY <2>1, <2>3 DEF Active, Answers, Refusals
    <2> QED
      BY <2>2, <2>3
  <1>3. CASE o = r
    <2>1. CASE ReadEffect(r)
      <3>1. req'[r].pc = RowFound(req[r].op) \/ req'[r].pc = RowMissing(req[r].op)
        BY <2>1 DEF ReadEffect
      <3>2. req[r].op \in {"create", "delete", "get"}
        BY DEF TypeOK, Handler
      <3>3. req'[r].pc \notin {"wait", "insert", "remove"}
        BY <3>1, <3>2 DEF RowFound, RowMissing
      <3> QED
        BY <1>3, <3>3
    <2>2. CASE CreateEffect(r)
      BY <1>3, <2>2, <1>n DEF CreateEffect
    <2>3. CASE DeleteEffect(r)
      <3>1. /\ req'[r].pc = "remove" /\ kafka'[n] = kafka[n]
            /\ ~req'[r].hit => ~Deletable(n)
        BY <1>3, <2>3, <1>n DEF DeleteEffect
      <3>2. ASSUME ~Deletable(n), kafka[n] # None PROVE Marked(n)
        <4>1. PICK d \in doomed : req[d].name = n
          BY <3>2 DEF Deletable
        <4>2. d \in Requests /\ req[d].hit /\ d # r
          BY <2>3 DEF DeleteEffect, PlaceOK, TypeOK
        <4>3. Busy(d) /\ Busy(r)
          BY StepActive DEF Busy
        <4> QED
          BY <1>3, <1>n, <4>1, <4>2, <4>3 DEF Alone, Marked
      <3> QED
        BY <1>3, <1>m, <3>1, <3>2
    <2>4. CASE WaitEffect(r)
      <3>1. /\ req'[r].pc \in {"insert", "error"} /\ kafka'[n] = kafka[n]
            /\ req'[r].hit = req[r].hit /\ req[r].pc = "wait"
        BY <1>3, <2>4, <1>n DEF WaitEffect, KafkaSame
      <3>2. ~req[r].hit /\ kafka[n] = None => Marked(n)
        BY <1>3, <3>1, <1>n DEF Overtaken
      <3> QED
        BY <1>3, <3>1, <3>2, <1>m
    <2>5. CASE KafkaErrorEffect(r) \/ InsertEffect(r) \/ RemoveEffect(r) \/ CheckEffect(r)
      <3>1. req'[r].pc \in Answers
        BY <2>5 DEF KafkaErrorEffect, InsertEffect, RemoveEffect, CheckEffect, Answers, Refusals
      <3> QED
        BY <1>3, <3>1 DEF Answers, Refusals
    <2> QED
      BY <2>1, <2>2, <2>3, <2>4, <2>5 DEF Effect
  <1> QED
    BY <1>1, <1>2, <1>3

\* Request r accounts for a divergence of its name.
Accounts(r) ==
    /\ req[r].hit
    /\ \/ Busy(r)
       \/ r \in disturbed
       \/ req[r].op = "create" /\ ~RowAccepted(req[r].cfg)

\* The stores disagree about n.
Diverges(n) == ~(pg[n] = None <=> kafka[n] = None)

\* DivergenceTraced in these terms.
LEMMA Divergence ==
    DivergenceTraced <=>
        \A n \in Names : Diverges(n) => \E r \in Requests : req[r].name = n /\ Accounts(r)
  BY DEF DivergenceTraced, ListTopics, ListKafkaTopics, Diverges, Accounts

\* Every divergence after a step of a handler is accounted for.
LEMMA DivergenceStep ==
    ASSUME TypeOK, NEW r \in Requests, Frame(r), Effect(r), DivergenceTraced,
           \A o \in Requests : PlaceOK(o) /\ CalmOK(o) /\ Overtaken(o)
    PROVE  DivergenceTraced'
  <1> DEFINE n == req[r].name  c == req[r].cfg
  <1>0. n \in Names /\ c \in TopicConfig /\ RowOf(c) # None
    BY RowType DEF TypeOK, Handler
  <1>f. /\ \A o \in Requests : /\ req'[o].name = req[o].name /\ req'[o].op = req[o].op
                               /\ req'[o].cfg = req[o].cfg
        /\ \A o \in Requests \ {r} : req'[o] = req[o] /\ (o \in doomed' <=> o \in doomed)
        /\ \A m \in Names \ {n} : kafka'[m] = kafka[m] /\ pg'[m] = pg[m]
    BY DEF Frame
  <1>1. \A o \in Requests \ {r} : Accounts(o) => Accounts(o)'
    BY <1>f, DisturbedStays DEF Accounts, Active, Busy
  <1>h. /\ req[r].hit => req'[r].hit
        /\ kafka'[n] # kafka[n] => req'[r].hit
    BY HitStays
  <1>2. req'[r].hit /\ r \in disturbed' => Accounts(r)'
    BY DEF Accounts
  <1>3. ASSUME NEW m \in Names, Diverges(m)'
        PROVE  \E o \in Requests : req'[o].name = m /\ Accounts(o)'
    <2>1. CASE m # n
      <3>1. Diverges(m)
        BY <1>3, <1>f, <2>1 DEF Diverges
      <3>2. PICK o \in Requests : req[o].name = m /\ Accounts(o)
        BY <3>1, Divergence
      <3>3. o # r
        BY <2>1, <3>2
      <3> QED
        BY <1>f, <1>1, <3>2, <3>3
    <2>2. CASE m = n
      <3>s. SUFFICES ASSUME ~Accounts(r)', \A o \in Requests \ {r} : req[o].name = n => ~Accounts(o)
                     PROVE  FALSE
        BY <1>1, <1>f, <2>2
      <3>n. ~Marked(n) \/ req[r].hit
        <4>1. ASSUME NEW d \in disturbed, req[d].name = n, req[d].hit PROVE req[r].hit
          <5>1. d \in Requests /\ Accounts(d)
            BY <4>1 DEF TypeOK, Accounts
          <5> QED
            BY <4>1, <5>1, <3>s
        <4> QED
          BY <4>1 DEF Marked
      <3>i. CalmOK(r) /\ Overtaken(r) /\ PlaceOK(r)
        OBVIOUS
      <3>d. Diverges(n) => Accounts(r)
        BY <1>0, <3>s, Divergence
      <3>v. ~(pg'[n] = None <=> kafka'[n] = None)
        BY <1>3, <2>2 DEF Diverges
      <3> HIDE DEF n, c
      <3>1. CASE ReadEffect(r) \/ CheckEffect(r)
        <4>1. ~req[r].hit /\ pg'[n] = pg[n] /\ kafka'[n] = kafka[n]
          BY <3>1, <3>i DEF ReadEffect, CheckEffect, KafkaSame, RowSame, PlaceOK, n
        <4> QED
          BY <3>d, <3>v, <4>1 DEF Diverges, Accounts
      <3>2. CASE CreateEffect(r) \/ DeleteEffect(r) \/ KafkaErrorEffect(r)
        <4>1. ~req[r].hit /\ pg'[n] = pg[n]
          BY <3>2, <3>i DEF CreateEffect, DeleteEffect, KafkaErrorEffect, RowSame, PlaceOK, n
        <4>2. CASE kafka'[n] = kafka[n]
          BY <3>d, <3>v, <4>1, <4>2 DEF Diverges, Accounts
        <4>3. CASE kafka'[n] # kafka[n]
          <5>1. req'[r].hit
            BY <1>h, <4>3 DEF n
          <5>2. req'[r].pc \in {"wait", "remove"} \/ Met(r)
            BY <3>2, <4>3 DEF CreateEffect, DeleteEffect, KafkaErrorEffect, KafkaSame, n
          <5>3. Active(r)' \/ r \in disturbed'
            BY <5>2 DEF Active, Answers, Refusals, Met
          <5> QED
            BY <3>s, <5>1, <5>3 DEF Accounts, Busy
        <4> QED
          BY <4>2, <4>3
      <3>3. CASE WaitEffect(r)
        <4>1. pg'[n] = pg[n] /\ kafka'[n] = kafka[n] /\ req'[r].hit = req[r].hit
          BY <3>3 DEF WaitEffect, KafkaSame, RowSame, n
        <4>2. req'[r].pc = "insert" \/ Met(r)
          BY <3>3 DEF WaitEffect
        <4>3. req[r].hit
          BY <3>d, <3>v, <4>1 DEF Diverges, Accounts
        <4>4. Active(r)' \/ r \in disturbed'
          BY <4>2 DEF Active, Answers, Refusals, Met
        <4> QED
          BY <3>s, <4>1, <4>3, <4>4 DEF Accounts, Busy
      <3>4. CASE InsertEffect(r)
        <4>1. kafka'[n] = kafka[n] /\ req'[r].hit = req[r].hit /\ req[r].pc = "insert"
          BY <3>4 DEF InsertEffect, KafkaSame, n
        <4>2. req[r].op = "create"
          BY <3>i, <4>1 DEF PlaceOK
        <4>3. CASE r \notin disturbed'
          <5>1. r \notin disturbed /\ ~Met(r)
            BY <4>3, DisturbedStays DEF Met
          <5>2. pg[n] = None /\ kafka[n] # None
            BY <3>i, <4>1, <5>1 DEF CalmOK, n
          <5>3. CASE pg'[n] = RowOf(c)
            BY <1>0, <3>v, <4>1, <5>2, <5>3
          <5>4. CASE ~RowAccepted(c) /\ pg'[n] = pg[n]
            <6>1. req[r].hit
              BY <3>d, <3>v, <4>1, <5>4 DEF Diverges, Accounts
            <6>2. req'[r].op = "create" /\ req'[r].cfg = c
              BY <1>f, <4>2 DEF c
            <6> QED
              BY <3>s, <4>1, <5>4, <6>1, <6>2 DEF Accounts
          <5> QED
            BY <3>4, <5>1, <5>2, <5>3, <5>4 DEF InsertEffect, RowSame, n, c
        <4>4. CASE r \in disturbed'
          <5>1. ~req[r].hit
            BY <1>2, <3>s, <4>1, <4>4
          <5>2. pg'[n] # pg[n]
            BY <3>d, <3>v, <4>1, <5>1 DEF Diverges, Accounts
          <5>3. pg[n] = None /\ kafka[n] = None
            <6>1. pg[n] = None
              BY <3>4, <5>2 DEF InsertEffect, RowSame, n
            <6> QED
              BY <6>1, <3>d, <5>1 DEF Diverges, Accounts
          <5>4. Marked(n)
            BY <3>i, <4>1, <5>1, <5>3 DEF Overtaken, n
          <5> QED
            BY <3>n, <5>1, <5>4
        <4> QED
          BY <4>3, <4>4
      <3>5. CASE RemoveEffect(r)
        <4>1. kafka'[n] = kafka[n] /\ req'[r].hit = req[r].hit /\ req[r].pc = "remove"
          BY <3>5 DEF RemoveEffect, KafkaSame, n
        <4>2. CASE r \notin disturbed'
          <5>1. r \notin disturbed /\ ~Met(r)
            BY <4>2, DisturbedStays DEF Met
          <5>2. pg'[n] = None /\ (kafka[n] = None \/ r \in doomed)
            BY <3>5, <3>i, <4>1, <5>1 DEF CalmOK, RemoveEffect, n
          <5>3. r \in doomed => Accounts(r)'
            BY <3>i, <4>1 DEF Accounts, Busy, PlaceOK, Frame
          <5> QED
            BY <3>s, <3>v, <4>1, <5>2, <5>3
        <4>3. CASE r \in disturbed'
          <5>1. ~req[r].hit
            BY <1>2, <3>s, <4>1, <4>3
          <5>2. pg'[n] # pg[n]
            BY <3>d, <3>v, <4>1, <5>1 DEF Diverges, Accounts
          <5>3. pg'[n] = None /\ kafka[n] # None
            BY <3>5, <3>v, <4>1, <5>2 DEF RemoveEffect, RowSame, n
          <5>4. Marked(n)
            BY <3>i, <4>1, <5>1, <5>3 DEF Overtaken, n
          <5> QED
            BY <3>n, <5>1, <5>4
        <4> QED
          BY <4>2, <4>3
      <3> QED
        BY <3>1, <3>2, <3>3, <3>4, <3>5 DEF Effect
    <2> QED
      BY <2>1, <2>2
  <1> QED
    BY <1>3 DEF DivergenceTraced, ListTopics, ListKafkaTopics, Diverges, Accounts

-----------------------------------------------------------------------------
(* Arrivals and the end of the process *)

\* What is common to them: handlers that have changed a topic are kept as they
\* are, or stop and are disturbed; the stores are left alone.
Quiet ==
    /\ kafka' = kafka /\ doomed' = doomed /\ pg' = pg /\ disturbed \subseteq disturbed'
    /\ \A o \in Requests : req[o].hit =>
         /\ req'[o].name = req[o].name /\ req'[o].op = req[o].op /\ req'[o].cfg = req[o].cfg
         /\ req'[o].hit
         /\ req'[o].pc = req[o].pc \/ o \in disturbed'

\* Divergences stay accounted for.
LEMMA QuietTraced ==
    ASSUME TypeOK, Quiet, DivergenceTraced
    PROVE  DivergenceTraced'
  <1>1. ASSUME NEW m \in Names, Diverges(m)'
        PROVE  \E o \in Requests : req'[o].name = m /\ Accounts(o)'
    <2>1. Diverges(m)
      BY <1>1 DEF Diverges, Quiet
    <2>2. PICK o \in Requests : req[o].name = m /\ Accounts(o)
      BY <2>1, Divergence
    <2>3. Accounts(o)' /\ req'[o].name = m
      BY <2>2 DEF Accounts, Quiet, Active, Busy
    <2> QED
      BY <2>3
  <1> QED
    BY <1>1 DEF DivergenceTraced, ListTopics, ListKafkaTopics, Diverges, Accounts

\* So do marks.
LEMMA QuietMarked ==
    ASSUME TypeOK, Quiet, NEW m, Marked(m)
    PROVE  Marked(m)'
  <1>1. PICK d \in disturbed : req[d].name = m /\ req[d].hit
    BY DEF Marked
  <1>2. d \in Requests /\ d \in disturbed'
    BY DEF TypeOK, Quiet
  <1> QED
    BY <1>1, <1>2 DEF Marked, Quiet

\* The counters are within their bounds.
LEMMA Counters ==
    ASSUME TypeOK
    PROVE  /\ arrivals \in Nat /\ arrivals <= MaxArrivals /\ MaxArrivals \in Nat
           /\ faults \in Nat /\ faults <= MaxFaults /\ MaxFaults \in Nat
  <1>1. arrivals \in 0..MaxArrivals /\ faults \in 0..MaxFaults
    BY DEF TypeOK
  <1>2. MaxArrivals \in Nat /\ MaxFaults \in Nat
    BY ConstantsAssumption
  <1> QED
    BY <1>1, <1>2

\* A request arrives.
LEMMA ArriveInvariant ==
    ASSUME TopicInvariant, NEW r \in Requests, NEW n \in Names,
           NEW op \in {"create", "delete", "get"}, NEW first \in {"get", "invalid"},
           NEW cfg \in TopicConfig, Arrive(r, op, n, first, cfg)
    PROVE  TopicInvariant'
  <1>i. /\ TypeOK /\ Unborn /\ Alone /\ DivergenceTraced
        /\ \A o \in Requests : PlaceOK(o) /\ CalmOK(o) /\ Overtaken(o)
    BY DEF TopicInvariant
  <1>u. /\ kafka' = kafka /\ doomed' = doomed /\ pg' = pg /\ faults' = faults /\ arrivals' = r /\ r = arrivals + 1
    BY DEF Arrive
  <1>q. req' = [req EXCEPT ![r] = [pc |-> first, op |-> op, name |-> n, cfg |-> cfg, hit |-> FALSE]]
    BY DEF Arrive
  <1>r. /\ req' \in [Requests -> Handler]
        /\ \A o \in Requests : o # r => req'[o] = req[o]
        /\ req'[r].pc = first /\ req'[r].name = n /\ req'[r].hit = FALSE
    BY <1>q, <1>i DEF TypeOK, Handler, Answers, Refusals
  <1>d. /\ disturbed \subseteq disturbed' /\ disturbed' \subseteq Requests
        /\ \A o \in Requests : Busy(o) /\ req[o].name = n => o \in disturbed' /\ r \in disturbed'
    <2>1. disturbed' = IF Rivals(n) = {} THEN disturbed ELSE disturbed \cup Rivals(n) \cup {r}
      BY DEF Arrive
    <2>2. \A o \in Requests : Busy(o) /\ req[o].name = n => o \in Rivals(n)
      BY DEF Rivals
    <2>3. Rivals(n) \subseteq Requests /\ disturbed \subseteq Requests
      BY <1>i DEF Rivals, TypeOK
    <2> QED
      BY <2>1, <2>2, <2>3
  <1>h. ~req[r].hit /\ r \notin doomed
    <2>1. arrivals \in Nat
      BY <1>i, Counters
    <2>2. req[r].pc = "idle"
      BY <1>i, <1>u, <2>1 DEF Unborn
    <2> QED
      BY <1>i, <2>2 DEF PlaceOK
  <1>1. TypeOK'
    <2>1. arrivals' \in 0..MaxArrivals
      BY <1>u, <1>i, Counters DEF Requests
    <2> QED
      BY <1>i, <1>u, <1>r, <1>d, <2>1 DEF TypeOK
  <1>2. Unborn'
    <2>1. arrivals \in Nat
      BY <1>i, Counters
    <2>2. ASSUME NEW o \in Requests, o > arrivals' PROVE req'[o].pc = "idle"
      <3>1. o # r /\ o > arrivals
        BY <1>u, <2>1, <2>2 DEF Requests
      <3> QED
        BY <1>i, <1>r, <3>1 DEF Unborn
    <2> QED
      BY <2>2 DEF Unborn
  <1>3. Alone'
    <2> SUFFICES ASSUME NEW o \in Requests, NEW m \in Requests, o # m, Busy(o)', Busy(m)',
                        req'[o].name = req'[m].name
                 PROVE  o \in disturbed'
      BY DEF Alone
    <2>1. CASE o = r
      <3>1. Busy(m) /\ req[m].name = n
        BY <1>u, <1>r, <2>1 DEF Active, Busy
      <3> QED
        BY <1>d, <2>1, <3>1
    <2>2. CASE m = r
      <3>1. Busy(o) /\ req[o].name = n
        BY <1>u, <1>r, <2>2 DEF Active, Busy
      <3> QED
        BY <1>d, <3>1
    <2>3. CASE o # r /\ m # r
      <3>1. Busy(o) /\ Busy(m) /\ req[o].name = req[m].name
        BY <1>u, <1>r, <2>3 DEF Active, Busy
      <3> QED
        BY <1>d, <1>i, <3>1 DEF Alone
    <2> QED
      BY <2>1, <2>2, <2>3
  <1>4. Quiet
    BY <1>u, <1>d, <1>r, <1>h DEF Quiet
  <1>5. ASSUME NEW o \in Requests PROVE PlaceOK(o)' /\ CalmOK(o)' /\ Overtaken(o)'
    <2>1. CASE o = r
      BY <1>u, <1>h, <1>r, <2>1 DEF PlaceOK, CalmOK, Overtaken
    <2>2. CASE o # r
      <3>1. req'[o] = req[o]
        BY <1>r, <2>2
      <3>2. PlaceOK(o)'
        BY <1>i, <1>u, <3>1 DEF PlaceOK
      <3>3. CalmOK(o)'
        BY <1>i, <1>u, <1>d, <3>1 DEF CalmOK, Active
      <3>4. Overtaken(o)'
        <4>1. PICK m \in Names : m = req[o].name
          BY <1>i DEF TypeOK, Handler
        <4>2. Marked(m) => Marked(m)'
          BY <1>i, <1>4, QuietMarked
        <4>3. /\ req[o].pc \in {"wait", "insert"} /\ ~req[o].hit /\ kafka[m] = None => Marked(m)
              /\ req[o].pc = "remove" /\ ~req[o].hit /\ kafka[m] # None => Marked(m)
          BY <1>i, <4>1 DEF Overtaken
        <4> QED
          BY <1>u, <3>1, <4>1, <4>2, <4>3 DEF Overtaken, Marked
      <3> QED
        BY <3>2, <3>3, <3>4
    <2> QED
      BY <2>1, <2>2
  <1>6. DivergenceTraced'
    BY <1>i, <1>4, QuietTraced
  <1> QED
    BY <1>1, <1>2, <1>3, <1>5, <1>6 DEF TopicInvariant

\* The gateway dies.
LEMMA CrashInvariant ==
    ASSUME TopicInvariant, Crash
    PROVE  TopicInvariant'
  <1>i. /\ TypeOK /\ Unborn /\ Alone /\ DivergenceTraced
        /\ \A o \in Requests : PlaceOK(o) /\ CalmOK(o) /\ Overtaken(o)
    BY DEF TopicInvariant
  <1> DEFINE cut == {r \in Requests : Active(r)}
  <1>u. /\ kafka' = kafka /\ doomed' = doomed /\ pg' = pg /\ arrivals' = arrivals
        /\ disturbed' = disturbed \cup cut
        /\ faults' = faults + 1 /\ faults < MaxFaults
    BY DEF Crash
  <1>q. \A o \in Requests : req'[o] = IF o \in cut THEN [req[o] EXCEPT !.pc = "error"] ELSE req[o]
    BY DEF Crash
  <1>r. /\ req' \in [Requests -> Handler]
        /\ \A o \in Requests :
             /\ req'[o].name = req[o].name /\ req'[o].op = req[o].op /\ req'[o].cfg = req[o].cfg
             /\ req'[o].hit = req[o].hit
             /\ IF Active(o) THEN req'[o].pc = "error" ELSE req'[o].pc = req[o].pc
    <2>1. req' = [o \in Requests |-> IF o \in cut THEN [req[o] EXCEPT !.pc = "error"] ELSE req[o]]
      BY DEF Crash
    <2>2. \A o \in Requests : req[o] \in Handler /\ [req[o] EXCEPT !.pc = "error"] \in Handler
      BY <1>i DEF TypeOK, Handler, Answers, Refusals
    <2>3. req' \in [Requests -> Handler]
      BY <2>1, <2>2
    <2>4. \A o \in Requests :
             /\ [req[o] EXCEPT !.pc = "error"].name = req[o].name
             /\ [req[o] EXCEPT !.pc = "error"].op = req[o].op
             /\ [req[o] EXCEPT !.pc = "error"].cfg = req[o].cfg
             /\ [req[o] EXCEPT !.pc = "error"].hit = req[o].hit
             /\ [req[o] EXCEPT !.pc = "error"].pc = "error"
      BY <2>2 DEF Handler
    <2> QED
      BY <1>q, <2>3, <2>4
  <1>c. \A o \in Requests : Active(o) => o \in disturbed'
    BY <1>u
  <1> HIDE DEF cut
  <1>1. TypeOK'
    <2>1. faults' \in 0..MaxFaults
      BY <1>i, <1>u, Counters
    <2>2. disturbed' \subseteq Requests
      BY <1>i, <1>u DEF TypeOK, cut
    <2> QED
      BY <1>i, <1>u, <1>r, <2>1, <2>2 DEF TypeOK
  <1>2. Unborn'
    <2>1. \A o \in Requests : req[o].pc = "idle" => ~Active(o)
      BY DEF Active
    <2> QED
      BY <1>i, <1>u, <1>r, <2>1 DEF Unborn
  <1>n. \A o \in Requests : Busy(o)' => Busy(o)
    BY <1>u, <1>r DEF Active, Busy, Answers, Refusals
  <1>3. Alone'
    BY <1>i, <1>u, <1>r, <1>n DEF Alone
  <1>4. Quiet
    BY <1>u, <1>r, <1>c DEF Quiet
  <1>5. ASSUME NEW o \in Requests PROVE PlaceOK(o)' /\ CalmOK(o)' /\ Overtaken(o)'
    <2>1. CASE Active(o)
      BY <1>i, <1>u, <1>r, <1>c, <2>1 DEF PlaceOK, CalmOK, Overtaken
    <2>2. CASE ~Active(o)
      <3>1. /\ req'[o].pc = req[o].pc
            /\ req[o].pc \notin {"get", "kafka", "wait", "insert", "remove", "metadata"}
        BY <1>r, <2>2 DEF Active, Answers, Refusals
      <3>2. PlaceOK(o)'
        BY <1>i, <1>u, <1>r, <3>1 DEF PlaceOK
      <3>3. CalmOK(o)'
        BY <1>i, <1>r, <1>u, <3>1 DEF CalmOK, Active
      <3>4. Overtaken(o)'
        BY <3>1 DEF Overtaken
      <3> QED
        BY <3>2, <3>3, <3>4
    <2> QED
      BY <2>1, <2>2
  <1>6. DivergenceTraced'
    BY <1>i, <1>4, QuietTraced
  <1> QED
    BY <1>1, <1>2, <1>3, <1>5, <1>6 DEF TopicInvariant

-----------------------------------------------------------------------------
(* The cluster removes a topic *)

\* A rival at work is marked by the deletion that runs into it; without one, the
\* row went before the topic.
LEMMA PurgeInvariant ==
    ASSUME TopicInvariant, NEW r \in Requests, Purge(r)
    PROVE  TopicInvariant'
  <1>i. /\ TypeOK /\ Unborn /\ Alone /\ DivergenceTraced
        /\ \A o \in Requests : PlaceOK(o) /\ CalmOK(o) /\ Overtaken(o)
    BY DEF TopicInvariant
  <1>u. /\ r \in doomed /\ doomed' = doomed \ {r} /\ pg' = pg /\ req' = req /\ arrivals' = arrivals
        /\ disturbed' = disturbed /\ faults' = faults
    BY DEF Purge, OK
  <1>n. PICK n \in Names : n = req[r].name
    BY <1>i DEF TypeOK, Handler
  <1>k. /\ kafka' \in [Names -> TopicConfig \cup {None}] /\ kafka'[n] = None
        /\ \A m \in Names : m # n => kafka'[m] = kafka[m]
    <2>1. kafka' = [kafka EXCEPT ![n] = None]
      BY <1>n DEF Purge
    <2> QED
      BY <1>i, <2>1 DEF TypeOK
  <1>h. req[r].hit /\ req[r].op = "delete"
    BY <1>i, <1>u DEF PlaceOK
  <1>m. \A m : Marked(m)' <=> Marked(m)
    BY <1>u DEF Marked
  <1>a. ASSUME NEW o \in Requests, o # r, Busy(o), req[o].name = n
        PROVE  o \in disturbed /\ Marked(n)
    <2>1. Busy(r)
      BY <1>u DEF Busy
    <2>2. o \in disturbed /\ r \in disturbed
      BY <1>a, <1>i, <1>n, <2>1 DEF Alone
    <2> QED
      BY <1>n, <1>h, <2>2 DEF Marked
  <1>1. TypeOK'
    BY <1>i, <1>u, <1>k DEF TypeOK
  <1>2. Unborn' /\ Alone'
    BY <1>i, <1>u DEF Unborn, Alone, Busy, Active
  <1>3. ASSUME NEW o \in Requests PROVE PlaceOK(o)' /\ CalmOK(o)' /\ Overtaken(o)'
    <2>1. PlaceOK(o)'
      BY <1>i, <1>u DEF PlaceOK
    <2>2. PICK m \in Names : m = req[o].name
      BY <1>i DEF TypeOK, Handler
    <2>3. CASE m # n
      <3>1. o # r /\ kafka'[m] = kafka[m]
        BY <1>n, <1>k, <2>2, <2>3
      <3>2. CalmOK(o)'
        BY <1>i, <1>u, <2>2, <3>1 DEF CalmOK, Active
      <3>3. Overtaken(o)'
        BY <1>i, <1>u, <1>m, <2>2, <3>1 DEF Overtaken
      <3> QED
        BY <2>1, <3>2, <3>3
    <2>4. CASE m = n /\ ~Busy(o)
      <3>1. req[o].pc \notin {"kafka", "wait", "insert", "remove", "metadata"} /\ o \notin doomed'
        BY <1>u, <2>4 DEF Active, Busy, Answers, Refusals
      <3>2. CalmOK(o)' /\ Overtaken(o)'
        BY <1>i, <1>u, <3>1 DEF CalmOK, Overtaken
      <3> QED
        BY <2>1, <3>2
    <2>5. CASE m = n /\ o # r /\ Busy(o)
      BY <1>a, <1>u, <1>m, <2>1, <2>2, <2>5 DEF CalmOK, Overtaken
    <2>6. CASE o = r
      <3>1. req[r].pc \notin {"kafka", "wait", "insert", "metadata"}
        BY <1>h, <1>i DEF PlaceOK
      <3>2. CalmOK(o)'
        BY <1>i, <1>u, <1>n, <1>k, <2>6, <3>1 DEF CalmOK
      <3>3. Overtaken(o)'
        BY <1>u, <1>h, <2>6 DEF Overtaken
      <3> QED
        BY <2>1, <3>2, <3>3
    <2> QED
      BY <2>3, <2>4, <2>5, <2>6
  <1>4. DivergenceTraced'
    <2>1. ASSUME NEW m \in Names, Diverges(m)'
          PROVE  \E o \in Requests : req'[o].name = m /\ Accounts(o)'
      <3>1. CASE m # n
        <4>1. Diverges(m)
          BY <1>u, <1>k, <2>1, <3>1 DEF Diverges
        <4>2. PICK o \in Requests : req[o].name = m /\ Accounts(o)
          BY <1>i, <4>1, Divergence
        <4>3. Accounts(o)'
          BY <1>u, <1>n, <3>1, <4>2 DEF Accounts, Busy, Active
        <4> QED
          BY <1>u, <4>2, <4>3
      <3>2. CASE m = n
        <4>1. pg[n] # None
          BY <1>u, <1>k, <2>1, <3>2 DEF Diverges
        <4>2. Active(r) \/ r \in disturbed
          BY <1>i, <1>u, <1>n, <4>1 DEF CalmOK
        <4>3. Accounts(r)'
          BY <1>u, <1>h, <4>2 DEF Accounts, Busy, Active
        <4> QED
          BY <1>u, <1>n, <3>2, <4>3
      <3> QED
        BY <3>1, <3>2
    <2> QED
      BY <2>1 DEF DivergenceTraced, ListTopics, ListKafkaTopics, Diverges, Accounts
  <1> QED
    BY <1>1, <1>2, <1>3, <1>4 DEF TopicInvariant

-----------------------------------------------------------------------------
(* The theorems *)

\* A step of a handler preserves the whole invariant.
LEMMA StepInvariant ==
    ASSUME TopicInvariant, NEW r \in Requests, Step(r)
    PROVE  TopicInvariant'
  <1>i. /\ TypeOK /\ Unborn /\ Alone /\ DivergenceTraced
        /\ \A o \in Requests : PlaceOK(o) /\ CalmOK(o) /\ Overtaken(o)
    BY DEF TopicInvariant
  <1>e. Frame(r) /\ Effect(r)
    BY <1>i, StepEffect
  <1>1. TypeOK'
    BY <1>i, <1>e, TypeStep
  <1>2. Unborn'
    <2>1. req[r].pc # "idle"
      BY <1>e, StepActive DEF Active
    <2> QED
      BY <1>i, <1>e, <2>1 DEF Unborn, Frame
  <1>3. Alone' /\ DivergenceTraced'
    BY <1>i, <1>e, AloneStep, DivergenceStep
  <1>4. \A o \in Requests : PlaceOK(o)' /\ CalmOK(o)' /\ Overtaken(o)'
    BY <1>i, <1>e, PlaceStep, CalmStep, OvertakenStep
  <1> QED
    BY <1>1, <1>2, <1>3, <1>4 DEF TopicInvariant

\* An arrival is one of the three operations.
LEMMA Arrivals ==
    ASSUME TopicInvariant, NEW r \in Requests, NEW n \in Names,
           ArriveGet(r, n) \/ ArriveDelete(r, n) \/ \E q \in Creates : ArriveCreate(r, n, q)
    PROVE  TopicInvariant'
  <1>1. CASE ArriveGet(r, n)
    BY <1>1, ConfigType, ArriveInvariant DEF ArriveGet
  <1>2. CASE ArriveDelete(r, n)
    BY <1>2, ConfigType, ArriveInvariant DEF ArriveDelete
  <1>3. ASSUME NEW q \in Creates, ArriveCreate(r, n, q) PROVE TopicInvariant'
    <2>1. Config(Bound(q)) \in TopicConfig
      BY ConfigType
    <2>2. PICK first \in {"get", "invalid"} : Arrive(r, "create", n, first, Config(Bound(q)))
      BY <1>3 DEF ArriveCreate
    <2> QED
      BY <2>1, <2>2, ArriveInvariant
  <1> QED
    BY <1>1, <1>2, <1>3

\* The invariant holds in every reachable state.
THEOREM TopicHolds == Spec => []TopicInvariant
  <1>1. Init => TopicInvariant
    <2> SUFFICES ASSUME Init PROVE TopicInvariant
      OBVIOUS
    <2>1. (CHOOSE n \in Names : TRUE) \in Names /\ AnyConfig \in TopicConfig
      BY ConstantsAssumption, ConfigType
    <2>2. \A r \in Requests : /\ req[r] \in Handler /\ req[r].pc = "idle" /\ req[r].hit = FALSE
      BY <2>1 DEF Init, Handler
    <2>3. req \in [Requests -> Handler]
      BY <2>2 DEF Init
    <2>4. /\ kafka \in [Names -> TopicConfig \cup {None}] /\ pg \in [Names -> TopicConfig \cup {None}]
          /\ \A n \in Names : kafka[n] = None /\ pg[n] = None
      BY DEF Init
    <2>5. arrivals \in 0..MaxArrivals /\ faults \in 0..MaxFaults /\ disturbed = {} /\ doomed = {}
      BY ConstantsAssumption DEF Init
    <2>6. TypeOK
      BY <2>3, <2>4, <2>5 DEF TypeOK
    <2>7. Unborn /\ Alone
      BY <2>2, <2>5 DEF Unborn, Alone, Active, Busy
    <2>8. DivergenceTraced
      BY <2>4, Divergence DEF Diverges
    <2>9. \A r \in Requests : PlaceOK(r) /\ CalmOK(r) /\ Overtaken(r)
      BY <2>2, <2>5 DEF PlaceOK, CalmOK, Overtaken
    <2> QED
      BY <2>6, <2>7, <2>8, <2>9 DEF TopicInvariant
  <1>2. TopicInvariant /\ [Next]_vars => TopicInvariant'
    <2> SUFFICES ASSUME TopicInvariant, [Next]_vars PROVE TopicInvariant'
      OBVIOUS
    <2>1. CASE UNCHANGED vars
      BY <2>1 DEF vars, TopicInvariant, TypeOK, Unborn, Alone, Active, Busy, DivergenceTraced,
                  ListTopics, ListKafkaTopics, PlaceOK, CalmOK, Overtaken, Marked
    <2>2. ASSUME NEW r \in Requests, Step(r) PROVE TopicInvariant'
      BY <2>2, StepInvariant
    <2>p. ASSUME NEW r \in Requests, Purge(r) PROVE TopicInvariant'
      BY <2>p, PurgeInvariant
    <2>3. CASE Crash
      BY <2>3, CrashInvariant
    <2>4. ASSUME NEW r \in Requests, NEW n \in Names,
                 ArriveGet(r, n) \/ ArriveDelete(r, n) \/ \E q \in Creates : ArriveCreate(r, n, q)
          PROVE  TopicInvariant'
      BY <2>4, Arrivals
    <2> QED
      BY <2>1, <2>2, <2>p, <2>3, <2>4 DEF Next
  <1> QED
    BY <1>1, <1>2, PTL DEF Spec

\* Both stores and all handlers keep their types: no topic is created without
\* partitions or retention, no row inserted without partitions or policy.
THEOREM TypeCorrect == Spec => []TypeOK
  <1>1. TopicInvariant => TypeOK
    BY DEF TopicInvariant
  <1> QED
    BY <1>1, TopicHolds, PTL

\* An undisturbed request fails only for its own name and configuration,
\* whatever half-done work it finds in Kafka and PostgreSQL.
THEOREM ErrorsJustified == Spec => []CalmErrorJustified
  <1>1. TopicInvariant => CalmErrorJustified
    BY DEF TopicInvariant, CalmOK, CalmErrorJustified
  <1> QED
    BY <1>1, TopicHolds, PTL

\* Kafka and PostgreSQL disagree about a name only after a request that changed
\* Kafka and is at work, was disturbed, has its deletion pending or had its row
\* refused by the table.
THEOREM DivergencesTraced == Spec => []DivergenceTraced
  <1>1. TopicInvariant => DivergenceTraced
    BY DEF TopicInvariant
  <1> QED
    BY <1>1, TopicHolds, PTL

\* The answer of an undisturbed request is true when it is given, in the sense
\* of AnswerTrue: of both stores where the code looks at both, a topic that is
\* still being deleted and an error entry of the metadata excepted.
THEOREM AnswersTrue == Spec => CalmAnswerTrue
  <1> DEFINE True == \A r \in Requests \ disturbed' : req'[r].pc # req[r].pc => AnswerTrue(r)'
  <1>1. TopicInvariant /\ [Next]_vars => [True]_vars
    <2> SUFFICES ASSUME TopicInvariant, Next, NEW o \in Requests \ disturbed', req'[o].pc # req[o].pc
                 PROVE  AnswerTrue(o)'
      OBVIOUS
    <2>i. TypeOK /\ \A r \in Requests : PlaceOK(r) /\ CalmOK(r)
      BY DEF TopicInvariant
    <2>1. ASSUME NEW r \in Requests, NEW n \in Names,
                 ArriveGet(r, n) \/ ArriveDelete(r, n) \/ \E q \in Creates : ArriveCreate(r, n, q)
          PROVE  AnswerTrue(o)'
      <3>1. \E first \in {"get", "invalid"}, op \in {"create", "delete", "get"}, cfg \in TopicConfig :
               Arrive(r, op, n, first, cfg)
        <4>1. CASE ArriveGet(r, n) \/ ArriveDelete(r, n)
          BY <4>1, ConfigType DEF ArriveGet, ArriveDelete
        <4>2. ASSUME NEW q \in Creates, ArriveCreate(r, n, q)
              PROVE  \E first \in {"get", "invalid"} : Arrive(r, "create", n, first, Config(Bound(q)))
          BY <4>2 DEF ArriveCreate
        <4> QED
          BY <2>1, <4>1, <4>2, ConfigType
      <3>2. PICK first \in {"get", "invalid"}, op \in {"create", "delete", "get"}, cfg \in TopicConfig :
               req' = [req EXCEPT ![r] = [pc |-> first, op |-> op, name |-> n, cfg |-> cfg, hit |-> FALSE]]
        BY <3>1 DEF Arrive
      <3>3. req'[o].pc \in {"get", "invalid"}
        BY <2>i, <3>2 DEF TypeOK
      <3> QED
        BY <3>3 DEF AnswerTrue
    <2>2. ASSUME Crash PROVE AnswerTrue(o)'
      <3>1. disturbed' = disturbed \cup {r \in Requests : Active(r)}
        BY <2>2 DEF Crash
      <3>2. req'[o] = req[o]
        BY <2>2, <3>1 DEF Crash
      <3> QED
        BY <3>2
    <2>3. ASSUME NEW r \in Requests, Step(r) PROVE AnswerTrue(o)'
      <3>e. Frame(r) /\ Effect(r)
        BY <2>i, <2>3, StepEffect
      <3>r. o = r
        BY <3>e DEF Frame
      <3>0. PICK n \in Names : n = req[r].name
        BY <2>i DEF TypeOK, Handler
      <3>c. PICK c \in TopicConfig : c = req[r].cfg
        BY <2>i DEF TypeOK, Handler
      <3>f. req'[o].name = n /\ req[r].op \in {"create", "delete", "get"} /\ req'[o].op = req[r].op
        BY <2>i, <3>e, <3>r, <3>0 DEF Frame, TypeOK, Handler
      <3>a. AdminDefaults(RowOf(c)) = AdminDefaults(c) /\ RowOf(c) # None
        BY AdminType, RowType
      <3>d. r \notin disturbed /\ ~Met(r)
        BY <3>e, <3>r, DisturbedStays DEF Met
      <3>k. CalmOK(r) /\ PlaceOK(r)
        BY <2>i
      <3>1. CASE ReadEffect(r)
        <4>1. /\ req'[r].pc = IF pg[n] # None THEN RowFound(req[r].op) ELSE RowMissing(req[r].op)
              /\ pg'[n] = pg[n]
          BY <3>1, <3>d, <3>0 DEF ReadEffect, RowSame
        <4>2. /\ req'[r].pc \in {"exists", "kafka", "metadata", "notfound"}
              /\ req'[r].pc = "exists" => pg[n] # None
              /\ req'[r].pc = "notfound" => pg[n] = None
          BY <3>f, <4>1 DEF RowFound, RowMissing
        <4> QED
          BY <3>r, <3>f, <4>1, <4>2 DEF AnswerTrue, ListTopics, ListKafkaTopics
      <3>2. CASE CreateEffect(r) \/ DeleteEffect(r) \/ WaitEffect(r)
        <4>1. req'[r].pc \in {"error", "wait", "remove", "insert"}
          BY <3>2, <3>d DEF CreateEffect, DeleteEffect, WaitEffect
        <4> QED
          BY <3>r, <4>1 DEF AnswerTrue
      <3>3. CASE InsertEffect(r)
        <4>1. /\ kafka'[n] = kafka[n] /\ req'[r].hit = req[r].hit
              /\ req[r].hit => kafka[n] = AdminDefaults(c)
          BY <3>3, <3>d, <3>k, <3>0, <3>c DEF InsertEffect, KafkaSame, CalmOK
        <4>2. req'[r].pc = "error" \/ (req'[r].pc = "created" /\ pg'[n] = RowOf(c))
          BY <3>3, <3>d, <3>0, <3>c DEF InsertEffect
        <4>3. kafka[n] # None
          BY <3>3, <3>d, <3>k, <3>0 DEF InsertEffect, CalmOK
        <4> QED
          BY <3>r, <3>f, <3>a, <4>1, <4>2, <4>3 DEF AnswerTrue, ListTopics, ListKafkaTopics
      <3>4. CASE RemoveEffect(r)
        <4>1. /\ req'[r].pc = "deleted" /\ pg'[n] = None
              /\ kafka'[n] = None \/ r \in doomed
          BY <3>4, <3>d, <3>k, <3>0 DEF RemoveEffect, KafkaSame, CalmOK
        <4>2. r \in doomed => r \in doomed'
          BY <3>e DEF Frame
        <4> QED
          BY <3>r, <3>f, <4>1, <4>2 DEF AnswerTrue, ListTopics, ListKafkaTopics
      <3>5. CASE CheckEffect(r)
        <4>1. /\ pg'[n] # None /\ kafka'[n] = kafka[n]
              /\ \/ req'[r].pc = "found" /\ (kafka[n] # None \/ n \in ErrorEntries)
                 \/ req'[r].pc = "notfound" /\ kafka[n] = None
          BY <3>5, <3>d, <3>k, <3>0 DEF CheckEffect, KafkaSame, RowSame, CalmOK
        <4> QED
          BY <3>r, <3>f, <4>1 DEF AnswerTrue, ListTopics, ListKafkaTopics
      <3> QED
        BY <3>e, <3>d, <3>1, <3>2, <3>3, <3>4, <3>5 DEF Effect, KafkaErrorEffect
    <2>4. ASSUME NEW r \in Requests, Purge(r) PROVE AnswerTrue(o)'
      BY <2>4 DEF Purge
    <2> QED
      BY <2>1, <2>2, <2>3, <2>4 DEF Next
  <1> QED
    BY <1>1, TopicHolds, PTL DEF Spec, CalmAnswerTrue

=============================================================================
