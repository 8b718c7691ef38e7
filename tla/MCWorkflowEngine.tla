-------------------------- MODULE MCWorkflowEngine --------------------------
(***************************************************************************)
(* Instances of WorkflowEngine for TLC: runs are model values r1 and r3,   *)
(* the definition has the shape of GalacticCommerce and OrderFulfillment   *)
(* (three steps, compensations on the first two).                          *)
(***************************************************************************)
EXTENDS WorkflowEngine

CONSTANTS r1, r3, g1, g2

\* Two replicas of the gateway.
MCHostOf == [r \in Runs |-> IF r = r3 THEN g2 ELSE g1]

=============================================================================
