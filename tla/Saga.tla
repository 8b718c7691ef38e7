-------------------------------- MODULE Saga --------------------------------
(***************************************************************************)
(* What the workflow engine promises of each workflow, without locks, runs *)
(* or tables: its attempts follow one another, an attempt goes forward one *)
(* step at a time, may turn back once, and then ends in "completed" at the *)
(* far end or in "failed" back at the start. An attempt can also be        *)
(* abandoned half-way (its process died, or the step could not be          *)
(* recorded); several are abandoned at once when one process hosts them.   *)
(***************************************************************************)
EXTENDS Naturals

CONSTANTS Workflows, StepCount

VARIABLES
    phase,  \* phase[w]: is an attempt at w under way, and in which direction
    depth   \* depth[w]: steps done and not yet visited by the compensation

vars == <<phase, depth>>

Init ==
    /\ phase = [w \in Workflows |-> "idle"]
    /\ depth = [w \in Workflows |-> 0]

Begin(w) ==
    /\ phase[w] = "idle"
    /\ phase' = [phase EXCEPT ![w] = "forward"]
    /\ depth' = [depth EXCEPT ![w] = 0]

Do(w) ==
    /\ phase[w] = "forward"
    /\ depth[w] < StepCount
    /\ depth' = [depth EXCEPT ![w] = @ + 1]
    /\ UNCHANGED phase

\* Only a step that failed turns an attempt back: the last step has not been
\* done then.
Turn(w) ==
    /\ phase[w] = "forward"
    /\ depth[w] < StepCount
    /\ phase' = [phase EXCEPT ![w] = "backward"]
    /\ UNCHANGED depth

Undo(w) ==
    /\ phase[w] = "backward"
    /\ depth[w] > 0
    /\ depth' = [depth EXCEPT ![w] = @ - 1]
    /\ UNCHANGED phase

Complete(w) ==
    /\ phase[w] = "forward"
    /\ depth[w] = StepCount
    /\ phase' = [phase EXCEPT ![w] = "idle"]
    /\ depth' = [depth EXCEPT ![w] = 0]

Fail(w) ==
    /\ phase[w] = "backward"
    /\ depth[w] = 0
    /\ phase' = [phase EXCEPT ![w] = "idle"]
    /\ UNCHANGED depth

Abandon(S) ==
    /\ \A w \in S : phase[w] # "idle"
    /\ phase' = [w \in Workflows |-> IF w \in S THEN "idle" ELSE phase[w]]
    /\ depth' = [w \in Workflows |-> IF w \in S THEN 0 ELSE depth[w]]

Next ==
    \/ \E w \in Workflows :
          Begin(w) \/ Do(w) \/ Turn(w) \/ Undo(w) \/ Complete(w) \/ Fail(w)
    \/ \E S \in SUBSET Workflows : Abandon(S)

Spec == Init /\ [][Next]_vars

=============================================================================
