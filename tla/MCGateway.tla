------------------------------ MODULE MCGateway ------------------------------
(***************************************************************************)
(* Instances of Gateway for TLC.                                           *)
(***************************************************************************)
EXTENDS Gateway

CONSTANTS k1

MCPartitionOf == [k \in Keys \cup {NoKey} |-> IF k = NoKey THEN 0 ELSE 1]

Publish(via, k) == [kind |-> "publish", via |-> via, keys |-> <<k>>, bare |-> FALSE,
                    lo |-> 0, hi |-> 0, part |-> AnyPart]

\* No key and no payload.
BarePublish == [Publish("rest", NoKey) EXCEPT !.bare = TRUE]

\* A batch of two: the first event repeats the key of single publishes.
Batch == [Publish("grpc", k1) EXCEPT !.kind = "batch", !.keys = <<k1, NoKey>>]

DLQReplay(via) == [Publish(via, NoKey) EXCEPT !.kind = "dlq", !.keys = <<>>]

\* The first two events of partition 1.
RangeReplay == [DLQReplay("grpc") EXCEPT !.kind = "range", !.lo = 1, !.hi = 2, !.part = 1]

Reflection == [DLQReplay("grpc") EXCEPT !.kind = "reflection"]

AllShapes ==
    {Publish("rest", k1), BarePublish, Batch, DLQReplay("rest"), RangeReplay, Reflection}

ReplayShapes == {DLQReplay("rest"), DLQReplay("grpc")}

=============================================================================
