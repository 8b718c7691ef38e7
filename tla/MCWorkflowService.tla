-------------------------- MODULE MCWorkflowService -------------------------
(***************************************************************************)
(* Instance of WorkflowService for TLC: two runs that clients request at   *)
(* two gateways, and the demonstration of the workflow-engine process.     *)
(***************************************************************************)
EXTENDS WorkflowService

CONSTANTS r1, r2, r3, g1, g2, g3

\* r1 and r2 run on the gateways, r3 in the workflow-engine process.
MCHostOf == [r \in Runs |-> IF r = r1 THEN g1 ELSE IF r = r2 THEN g2 ELSE g3]

=============================================================================
