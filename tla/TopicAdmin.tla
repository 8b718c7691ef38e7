----------------------------- MODULE TopicAdmin -----------------------------
(***************************************************************************)
(* Topic administration: the service that keeps a Kafka topic and a row of *)
(* the topics table in step, behind REST and gRPC. Create and Delete check *)
(* PostgreSQL, then change Kafka, then change PostgreSQL, without a lock   *)
(* or a transaction over both, so that requests interleave and any call    *)
(* may fail half-way. DeleteTopics returns before the topic is gone, and   *)
(* nothing waits for that.                                                 *)
(*                                                                         *)
(* Each request has a goroutine of its own. Its last pc is its answer.     *)
(***************************************************************************)
EXTENDS Integers, FiniteSets

CONSTANTS
    Names,          \* names that requests carry
    ValidNames,     \* those that match topicNamePattern
    LegalNames,     \* those that Kafka takes: not ".", not "..", at most 249 characters
    ErrorEntries,   \* those for which GetMetadata holds an entry, with an error, if there is no topic
    MaxInt,         \* the largest INT of PostgreSQL
    None,           \* no topic, no row
    Brokers,        \* brokers of the cluster
    Creates,        \* bodies of create requests
    MaxArrivals,    \* bound: requests
    MaxFaults       \* bound: faults

Requests == 1..MaxArrivals

Policies == {"", "delete", "compact", "COMPACT", "junk"}

\* models.CreateTopicRequest without the name; via tells REST from gRPC.
CreateTopicRequest ==
    [via : {"rest", "grpc"}, partitions : Int, replicationFactor : Int, replication : Int,
     retentionHours : Int, cleanupPolicy : Policies]

\* kafka.TopicConfig, and the same columns of a row.
TopicConfig == [partitions : Int, replication : Int, retentionHours : Int,
                cleanupPolicy : Policies]

ASSUME ConstantsAssumption ==
    /\ Names # {} /\ ValidNames \subseteq Names /\ LegalNames \subseteq Names
    /\ ErrorEntries \subseteq Names
    /\ MaxInt \in Nat \ {0}
    /\ None \notin TopicConfig
    /\ Brokers \in Nat \ {0}
    /\ Creates \subseteq CreateTopicRequest /\ Creates # {}
    /\ MaxArrivals \in Nat /\ MaxFaults \in Nat

VARIABLES
    kafka,      \* topics of the cluster
    doomed,     \* deletes whose topic is marked for deletion and not yet gone
    pg,         \* rows of the topics table
    req,        \* the handler of each request
    arrivals,   \* requests so far
    disturbed,  \* requests that met a fault, or another one that held their name
    faults      \* faults so far

vars == <<kafka, doomed, pg, req, arrivals, disturbed, faults>>

\* The errors that have a status of their own, and all others.
Refusals == {"exists", "notfound", "invalid", "error"}

Answers == Refusals \cup {"created", "deleted", "found"}

\* hit: the Kafka call of this request changed the cluster.
Handler == [pc : {"idle", "get", "kafka", "wait", "insert", "remove", "metadata"} \cup Answers,
            op : {"create", "delete", "get"}, name : Names, cfg : TopicConfig, hit : BOOLEAN]

TypeOK ==
    /\ kafka \in [Names -> TopicConfig \cup {None}]
    /\ pg \in [Names -> TopicConfig \cup {None}]
    /\ req \in [Requests -> Handler]
    /\ arrivals \in 0..MaxArrivals
    /\ disturbed \subseteq Requests /\ doomed \subseteq Requests
    /\ faults \in 0..MaxFaults
    /\ \A n \in Names :
        /\ kafka[n] # None => kafka[n].partitions > 0 /\ kafka[n].retentionHours > 0
        /\ pg[n] # None => pg[n].partitions > 0 /\ pg[n].cleanupPolicy # ""

-----------------------------------------------------------------------------
(* Defaults and validation *)

Or(x, default) == IF x = 0 THEN default ELSE x

OrDelete(policy) == IF policy = "" THEN "delete" ELSE policy

\* Handler.CreateTopic of REST fills in what the body leaves out.
RestDefaults(q) ==
    [q EXCEPT !.partitions = Or(@, 6), !.retentionHours = Or(@, 168),
              !.cleanupPolicy = OrDelete(@)]

\* TopicServer.CreateTopic copies the fields of the message, which has no replication.
GrpcRequest(q) == [q EXCEPT !.replication = 0]

Bound(q) == IF q.via = "rest" THEN RestDefaults(q) ELSE GrpcRequest(q)

ToLower(policy) == IF policy = "COMPACT" THEN "compact" ELSE policy

\* The default partition count it sets is lost: the request is passed by value.
ValidateCreateRequest(n, q) ==
    /\ n \in ValidNames
    /\ q.partitions \in 0..1000
    /\ ToLower(q.cleanupPolicy) \in {"", "delete", "compact"}

Config(q) ==
    [partitions |-> q.partitions,
     replication |-> Or(Or(q.replicationFactor, q.replication), 1),
     retentionHours |-> q.retentionHours,
     cleanupPolicy |-> q.cleanupPolicy]

\* Mutant of AdminDefaults: a retention of zero hours is passed on.
AdminDefaultsNegative(c) ==
    [partitions |-> IF c.partitions <= 0 THEN 6 ELSE c.partitions,
     replication |-> IF c.replication <= 0 THEN 1 ELSE c.replication,
     retentionHours |-> IF c.retentionHours < 0 THEN 168 ELSE c.retentionHours,
     cleanupPolicy |-> OrDelete(c.cleanupPolicy)]

\* Admin.CreateTopic fills in defaults in its own copy of the configuration.
AdminDefaults(c) ==
    [partitions |-> IF c.partitions <= 0 THEN 6 ELSE c.partitions,
     replication |-> IF c.replication <= 0 THEN 1 ELSE c.replication,
     retentionHours |-> IF c.retentionHours <= 0 THEN 168 ELSE c.retentionHours,
     cleanupPolicy |-> OrDelete(c.cleanupPolicy)]

\* What the cluster accepts: the policy is case-sensitive.
KafkaAccepts(n, c) ==
    n \in LegalNames /\ c.replication <= Brokers /\ c.cleanupPolicy \in {"delete", "compact"}

RowOf(c) == [c EXCEPT !.cleanupPolicy = OrDelete(@)]

\* The CHECK constraints of the topics table, and the range of its INT columns.
RowAccepted(c) == c.partitions > 0 /\ c.replication > 0 /\ c.retentionHours \in -MaxInt..MaxInt

-----------------------------------------------------------------------------
(* Requests *)

AnyConfig == Config(CHOOSE q \in Creates : TRUE)

Init ==
    /\ kafka = [n \in Names |-> None]
    /\ doomed = {}
    /\ pg = [n \in Names |-> None]
    /\ req = [r \in Requests |-> [pc |-> "idle", op |-> "get", name |-> CHOOSE n \in Names : TRUE,
                                  cfg |-> AnyConfig, hit |-> FALSE]]
    /\ arrivals = 0
    /\ disturbed = {}
    /\ faults = 0

Active(r) == req[r].pc \notin {"idle"} \cup Answers

\* Request r holds its name: it is at work, or its deletion is.
Busy(r) == Active(r) \/ r \in doomed

Rivals(n) == {o \in Requests : Busy(o) /\ req[o].name = n}

Goto(r, pc) == req' = [req EXCEPT ![r].pc = pc]

OK == UNCHANGED <<faults, disturbed>>

Fault(r) ==
    /\ faults < MaxFaults /\ faults' = faults + 1
    /\ disturbed' = disturbed \cup {r}

Arrive(r, op, n, first, cfg) ==
    /\ r = arrivals + 1 /\ arrivals' = r
    /\ req' = [req EXCEPT ![r] = [pc |-> first, op |-> op, name |-> n, cfg |-> cfg, hit |-> FALSE]]
    /\ disturbed' = IF Rivals(n) = {} THEN disturbed ELSE disturbed \cup Rivals(n) \cup {r}
    /\ UNCHANGED <<kafka, doomed, pg, faults>>

ArriveCreate(r, n, q) ==
    LET b == Bound(q) IN
    Arrive(r, "create", n, IF ValidateCreateRequest(n, b) THEN "get" ELSE "invalid", Config(b))

ArriveGet(r, n) == Arrive(r, "get", n, "get", AnyConfig)

ArriveDelete(r, n) == Arrive(r, "delete", n, "get", AnyConfig)

\* Mutant of RowFound: Delete removes the row and leaves the topic.
RowFoundRowOnly(op) ==
    CASE op = "create" -> "exists"
      [] op = "delete" -> "remove"
      [] op = "get" -> "metadata"

\* Where a handler goes when its SELECT found the row.
RowFound(op) ==
    CASE op = "create" -> "exists"
      [] op = "delete" -> "kafka"
      [] op = "get" -> "metadata"

\* Mutant of RowMissing: the row is written without a topic.
RowMissingInsert(op) == IF op = "create" THEN "insert" ELSE "notfound"

\* Where it goes when the SELECT returned no row or an error: the two are not told apart.
RowMissing(op) == IF op = "create" THEN "kafka" ELSE "notfound"

GetRow(r) ==
    /\ req[r].pc = "get"
    /\ \/ OK /\ Goto(r, IF pg[req[r].name] # None THEN RowFound(req[r].op) ELSE RowMissing(req[r].op))
       \/ Fault(r) /\ Goto(r, RowMissing(req[r].op))
    /\ UNCHANGED <<kafka, doomed, pg, arrivals>>

\* The effect of CreateTopics in the cluster. A topic that is marked for
\* deletion exists already.
CreateTopics(r) ==
    /\ kafka' = [kafka EXCEPT ![req[r].name] = IF @ = None THEN AdminDefaults(req[r].cfg) ELSE @]
    /\ req' = [req EXCEPT ![r].pc = "wait", ![r].hit = kafka[req[r].name] = None]

\* Mutant of Refused: a topic that exists already is an error.
RefusedExisting(r) ==
    kafka[req[r].name] # None \/ ~KafkaAccepts(req[r].name, AdminDefaults(req[r].cfg))

\* The result carries an error other than TopicAlreadyExists.
Refused(r) ==
    kafka[req[r].name] = None /\ ~KafkaAccepts(req[r].name, AdminDefaults(req[r].cfg))

CreateInKafka(r) ==
    /\ req[r].op = "create" /\ req[r].pc = "kafka"
    /\ \/ OK /\ Refused(r) /\ Goto(r, "error") /\ UNCHANGED kafka
       \/ OK /\ ~Refused(r) /\ CreateTopics(r)
    /\ UNCHANGED <<doomed, pg, arrivals>>

\* Topic n exists and no delete has marked it yet.
Deletable(n) == kafka[n] # None /\ \A d \in doomed : req[d].name # n

\* The effect of DeleteTopics: the topic is marked, with no operation timeout to
\* wait for the rest.
DeleteTopics(r, pc) ==
    /\ doomed' = IF Deletable(req[r].name) THEN doomed \cup {r} ELSE doomed
    /\ req' = [req EXCEPT ![r].pc = pc, ![r].hit = Deletable(req[r].name)]
    /\ UNCHANGED kafka

\* The cluster removes a marked topic, in its own time.
Purge(r) ==
    /\ r \in doomed /\ doomed' = doomed \ {r}
    /\ kafka' = [kafka EXCEPT ![req[r].name] = None]
    /\ OK /\ UNCHANGED <<pg, req, arrivals>>

\* UnknownTopicOrPart is no error.
DeleteInKafka(r) ==
    /\ req[r].op = "delete" /\ req[r].pc = "kafka"
    /\ OK /\ DeleteTopics(r, "remove")
    /\ UNCHANGED <<pg, arrivals>>

\* The call returns an error, and the cluster may have executed it.
KafkaError(r) ==
    /\ req[r].pc = "kafka" /\ Fault(r)
    /\ \/ Goto(r, "error") /\ UNCHANGED <<kafka, doomed>>
       \/ req[r].op = "delete" /\ DeleteTopics(r, "error")
       \/ /\ req[r].op = "create" /\ kafka[req[r].name] = None /\ ~Refused(r)
          /\ kafka' = [kafka EXCEPT ![req[r].name] = AdminDefaults(req[r].cfg)]
          /\ req' = [req EXCEPT ![r].pc = "error", ![r].hit = TRUE]
          /\ UNCHANGED doomed
    /\ UNCHANGED <<pg, arrivals>>

\* TopicExists looks for an entry of the metadata and not at the error in it.
TopicExists(n) == kafka[n] # None \/ n \in ErrorEntries

\* Polls until the topic is listed; 30 seconds or the end of ctx make it fail.
WaitForTopic(r) ==
    /\ req[r].pc = "wait"
    /\ \/ OK /\ TopicExists(req[r].name) /\ Goto(r, "insert")
       \/ Fault(r) /\ Goto(r, "error")
    /\ UNCHANGED <<kafka, doomed, pg, arrivals>>

\* INSERT fails on the UNIQUE name, on the CHECK constraints and on an INT out of range.
InsertRow(r) ==
    LET n == req[r].name
        fits == pg[n] = None /\ RowAccepted(req[r].cfg)
        row == RowOf(req[r].cfg)
    IN
    /\ req[r].pc = "insert"
    /\ \/ OK /\ fits /\ Goto(r, "created") /\ pg' = [pg EXCEPT ![n] = row]
       \/ OK /\ ~fits /\ Goto(r, "error") /\ UNCHANGED pg
       \/ Fault(r) /\ Goto(r, "error")
          /\ pg' \in {pg} \cup (IF fits THEN {[pg EXCEPT ![n] = row]} ELSE {})
    /\ UNCHANGED <<kafka, doomed, arrivals>>

RemoveRow(r) ==
    LET gone == [pg EXCEPT ![req[r].name] = None] IN
    /\ req[r].pc = "remove"
    /\ \/ OK /\ Goto(r, "deleted") /\ pg' = gone
       \/ Fault(r) /\ Goto(r, "error") /\ pg' \in {pg, gone}
    /\ UNCHANGED <<kafka, doomed, arrivals>>

\* The second half of Service.Get.
CheckTopic(r) ==
    /\ req[r].pc = "metadata"
    /\ \/ OK /\ Goto(r, IF TopicExists(req[r].name) THEN "found" ELSE "notfound")
       \/ Fault(r) /\ Goto(r, "error")
    /\ UNCHANGED <<kafka, doomed, pg, arrivals>>

\* The gateway dies: its handlers leave off where they are.
Crash ==
    LET cut == {r \in Requests : Active(r)} IN
    /\ cut # {} /\ faults < MaxFaults /\ faults' = faults + 1
    /\ req' = [r \in Requests |-> IF r \in cut THEN [req[r] EXCEPT !.pc = "error"] ELSE req[r]]
    /\ disturbed' = disturbed \cup cut
    /\ UNCHANGED <<kafka, doomed, pg, arrivals>>

Step(r) ==
    \/ GetRow(r) \/ CreateInKafka(r) \/ DeleteInKafka(r) \/ KafkaError(r)
    \/ WaitForTopic(r) \/ InsertRow(r) \/ RemoveRow(r) \/ CheckTopic(r)

Next ==
    \/ \E r \in Requests, n \in Names :
        ArriveGet(r, n) \/ ArriveDelete(r, n) \/ \E q \in Creates : ArriveCreate(r, n, q)
    \/ \E r \in Requests : Step(r) \/ Purge(r)
    \/ Crash

Spec == Init /\ [][Next]_vars

-----------------------------------------------------------------------------
(* Properties *)

\* Service.List reads the rows alone.
ListTopics == {n \in Names : pg[n] # None}

ListKafkaTopics == {n \in Names : kafka[n] # None}

\* What the answer of request r says of the two stores.
\*   created:  row and topic exist, and a topic it made itself is the one its row
\*             describes, with the defaults of the admin client;
\*   deleted:  the row is gone, and the topic is gone or marked by this request;
\*   notfound: row or topic is missing;
\*   found:    row and topic exist, unless the metadata holds an error entry for
\*             the missing topic, which TopicExists takes for the topic;
\*   exists:   the row exists, which is all that Create has looked for.
AnswerTrue(r) ==
    LET n == req[r].name IN
    CASE req[r].pc = "created" ->
            /\ n \in ListTopics \cap ListKafkaTopics
            /\ req[r].hit => kafka[n] = AdminDefaults(pg[n])
      [] req[r].pc = "deleted" -> n \notin ListTopics /\ (n \in ListKafkaTopics => r \in doomed)
      [] req[r].pc = "notfound" -> n \notin ListTopics \cap ListKafkaTopics
      [] req[r].pc = "found" -> n \in ListTopics \cap (ListKafkaTopics \cup ErrorEntries)
      [] req[r].pc = "exists" -> n \in ListTopics
      [] OTHER -> TRUE

\* The answer of a request that meets no fault and has its name to itself, pending
\* deletions included, is true in the sense of AnswerTrue when it is given,
\* whatever earlier requests left behind in the two stores.
CalmAnswerTrue ==
    [][\A r \in Requests \ disturbed' : req'[r].pc # req[r].pc => AnswerTrue(r)']_vars

\* Such a request is answered with an internal error only for its own name and
\* configuration: what an earlier create or delete left half-done never stands
\* in the way of doing it again. That Kafka or the INSERT may refuse what the
\* validation let through is the exception, not excluded here: no partitions by
\* gRPC, a policy in capitals, a name or a retention out of range.
CalmErrorJustified ==
    \A r \in Requests \ disturbed : req[r].pc = "error" =>
        /\ req[r].op = "create"
        /\ ~KafkaAccepts(req[r].name, AdminDefaults(req[r].cfg)) \/ ~RowAccepted(req[r].cfg)

\* A topic without a row, or a row without a topic, is the trace of a request
\* that changed Kafka and is still at work, was disturbed, has its deletion
\* pending, or had its row refused by the table: other requests leave the
\* stores in step.
DivergenceTraced ==
    \A n \in (ListTopics \ ListKafkaTopics) \cup (ListKafkaTopics \ ListTopics) :
        \E r \in Requests :
            /\ req[r].name = n /\ req[r].hit
            /\ \/ Busy(r)
               \/ r \in disturbed
               \/ req[r].op = "create" /\ ~RowAccepted(req[r].cfg)

=============================================================================
