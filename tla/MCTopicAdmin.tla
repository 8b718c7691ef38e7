---------------------------- MODULE MCTopicAdmin ----------------------------
(***************************************************************************)
(* Instance of TopicAdmin for TLC.                                         *)
(***************************************************************************)
EXTENDS TopicAdmin

Body(via, p, rf, repl, hours, policy) ==
    [via |-> via, partitions |-> p, replicationFactor |-> rf, replication |-> repl,
     retentionHours |-> hours, cleanupPolicy |-> policy]

\* Full, empty by REST, empty by gRPC, one that Kafka refuses for its policy,
\* one with a retention above MaxInt and one that fails validation.
MCCreates ==
    {Body("rest", 12, 1, 0, 24, "compact"),
     Body("rest", 0, 0, 0, 0, ""),
     Body("grpc", 0, 0, 3, 0, ""),
     Body("grpc", 1, 1, 0, -1, "COMPACT"),
     Body("rest", 1, 1, 0, MaxInt + 1, "delete"),
     Body("rest", 1001, 1, 0, 24, "junk")}

=============================================================================
