----------------------- MODULE WorkflowEngine_proofs -----------------------
(***************************************************************************)
(* Proofs about WorkflowEngine, for every number of workflows, runs, hosts *)
(* and steps and every combination of faults.                              *)
(***************************************************************************)
EXTENDS WorkflowEngine, TLAPS

-----------------------------------------------------------------------------
(* Type correctness *)

\* The rows the engine builds from a row are rows.
LEMMA RowUpdates ==
    ASSUME NEW x \in Row, NEW st \in Status, NEW k \in 0..StepCount
    PROVE  /\ [x EXCEPT !.status = st] \in Row
           /\ [x EXCEPT !.step = k] \in Row
           /\ [x EXCEPT !.status = st, !.completedAt = TRUE] \in Row
           /\ [x EXCEPT !.status = st, !.failStep = k] \in Row
  BY DEF Row

\* UpdateWorkflow keeps the table and the local copy well-typed.
LEMMA UpdateWorkflowType ==
    ASSUME TypeOK, NEW r \in Runs, wid[r] \in Workflows,
           NEW row \in Row, UpdateWorkflow(r, row)
    PROVE  /\ wf' \in [Workflows -> Row]
           /\ loc' \in [Runs -> Row]
  BY DEF TypeOK, UpdateWorkflow

\* Inserting a step row keeps the table well-typed.
LEMMA InsertStepRowType ==
    ASSUME TypeOK, NEW r \in Runs, pc[r] = "record", InsertStepRow(r)
    PROVE  stepRows' \in [Workflows -> Seq(StepRow)]
  <1>1. wid[r] \in Workflows /\ pos[r] + 1 \in Steps /\ outcome[r] \in {"completed", "failed"}
    BY StepsAssumption DEF TypeOK, Steps
  <1>2. [run |-> r, step |-> pos[r] + 1, status |-> outcome[r]] \in StepRow
    BY <1>1 DEF StepRow
  <1> DEFINE row == [run |-> r, step |-> pos[r] + 1, status |-> outcome[r]]
  <1> HIDE DEF row
  <1>3. stepRows[wid[r]] \in Seq(StepRow)
    BY <1>1 DEF TypeOK
  <1>4. Append(stepRows[wid[r]], row) \in Seq(StepRow)
    BY <1>2, <1>3 DEF row
  <1>5. stepRows' = [stepRows EXCEPT ![wid[r]] = Append(stepRows[wid[r]], row)]
    BY DEF InsertStepRow, row
  <1> QED
    BY <1>4, <1>5 DEF TypeOK

\* A run that goes to another statement finds there what the statement needs.
LEMMA GotoType ==
    ASSUME TypeOK, NEW r \in Runs, wid[r] \in Workflows, NEW l \in PC, Goto(r, l),
           l # "record", l = "exec" => pos[r] < StepCount, UNCHANGED <<wid, pos, outcome>>
    PROVE  /\ pc' \in [Runs -> PC]
           /\ \A q \in Runs : pc'[q] # "idle" => wid'[q] \in Workflows
           /\ \A q \in Runs : pc'[q] \in {"exec", "record"} => pos'[q] < StepCount
           /\ \A q \in Runs : pc'[q] = "record" => outcome'[q] # "none"
  <1>1. pc' \in [Runs -> PC] /\ \A q \in Runs : pc'[q] = IF q = r THEN l ELSE pc[q]
    BY DEF TypeOK, Goto
  <1> QED
    BY <1>1 DEF TypeOK

\* Initially every variable has its type.
LEMMA TypeInit == Init => TypeOK
  BY StepsAssumption, FaultsAssumption
  DEF Init, TypeOK, NoRow, Row, Status, PC, LockedPC, Result, Steps, StepRow

\* Every statement of a run keeps every variable in its type.
LEMMA TypeRunStep ==
    ASSUME TypeOK, NEW r \in Runs, RunStep(r)
    PROVE  TypeOK'
  <1> USE StepsAssumption
  <1>w. pc[r] # "idle" => wid[r] \in Workflows
    BY DEF TypeOK
  <1>k. pos[r] < StepCount => pos[r] + 1 \in 0..StepCount
    BY DEF TypeOK
  <1>1. CASE GetWorkflow(r)
    BY <1>1, <1>w DEF GetWorkflow, TypeOK, Goto, Return, PC, LockedPC, Result, vars, tables, local, outside
  <1>2. CASE GetWorkflowError(r)
    BY <1>2, <1>w DEF GetWorkflowError, TypeOK, Goto, Return, PC, LockedPC, Result, vars, tables, local, outside
  <1>3. CASE LockWorkflow(r)
    BY <1>3, <1>w DEF LockWorkflow, TypeOK, Goto, Return, PC, LockedPC, Result, vars, tables, local, outside
  <1>4. CASE LockRefused(r)
    BY <1>4, <1>w DEF LockRefused, TypeOK, Goto, Return, PC, LockedPC, Result, vars, tables, local, outside
  <1>5. CASE LockError(r)
    BY <1>5, <1>w DEF LockError, TypeOK, Goto, Return, PC, LockedPC, Result, vars, tables, local, outside
  <1>6. CASE MarkRunning(r)
    <2> DEFINE row == [loc[r] EXCEPT !.status = "running"]
    <2>1. wid[r] \in Workflows /\ row \in Row
      <3>1. wid[r] \in Workflows /\ loc[r] \in Row
        BY <1>6, <1>w DEF MarkRunning, TypeOK
      <3>2. "running" \in Status /\ 0 \in 0..StepCount
        BY DEF Status
      <3> QED
        BY <3>1, <3>2, RowUpdates
    <2> HIDE DEF row
    <2>2. UpdateWorkflow(r, row)
      BY <1>6 DEF MarkRunning, row
    <2>3. wf' \in [Workflows -> Row] /\ loc' \in [Runs -> Row]
      BY <2>1, <2>2, UpdateWorkflowType
    <2>4. Goto(r, "step") /\ "step" \in PC /\ UNCHANGED <<wid, pos, outcome>>
      BY <1>6 DEF MarkRunning, PC, LockedPC
    <2>5. /\ pc' \in [Runs -> PC]
          /\ \A q \in Runs : pc'[q] # "idle" => wid'[q] \in Workflows
          /\ \A q \in Runs : pc'[q] \in {"exec", "record"} => pos'[q] < StepCount
          /\ \A q \in Runs : pc'[q] = "record" => outcome'[q] # "none"
      BY <1>6, <2>1, <2>4, GotoType DEF MarkRunning
    <2> QED
      BY <2>3, <2>5, <1>6 DEF MarkRunning, TypeOK, Return, Result, outside
  <1>7. CASE BeginStep(r)
    <2> DEFINE row == [loc[r] EXCEPT !.step = pos[r] + 1]
    <2>1. wid[r] \in Workflows /\ row \in Row
      <3>1. wid[r] \in Workflows /\ loc[r] \in Row
        BY <1>7, <1>w DEF BeginStep, TypeOK
      <3>2. pos[r] + 1 \in 0..StepCount
        BY <1>7, <1>k DEF BeginStep
      <3>3. "running" \in Status
        BY DEF Status
      <3> QED
        BY <3>1, <3>2, <3>3, RowUpdates, Zenon DEF row
    <2> HIDE DEF row
    <2>2. UpdateWorkflow(r, row)
      BY <1>7 DEF BeginStep, row
    <2>3. wf' \in [Workflows -> Row] /\ loc' \in [Runs -> Row]
      BY <2>1, <2>2, UpdateWorkflowType
    <2>4. Goto(r, "exec") /\ "exec" \in PC /\ UNCHANGED <<wid, pos, outcome>>
      BY <1>7 DEF BeginStep, PC, LockedPC
    <2>5. /\ pc' \in [Runs -> PC]
          /\ \A q \in Runs : pc'[q] # "idle" => wid'[q] \in Workflows
          /\ \A q \in Runs : pc'[q] \in {"exec", "record"} => pos'[q] < StepCount
          /\ \A q \in Runs : pc'[q] = "record" => outcome'[q] # "none"
      BY <1>7, <2>1, <2>4, GotoType DEF BeginStep
    <2> QED
      BY <2>3, <2>5, <1>7 DEF BeginStep, TypeOK, Return, Result, outside
  <1>8. CASE ExecuteStep(r)
    <2>1. pos[r] + 1 \in Steps
      BY <1>8 DEF ExecuteStep, TypeOK, Steps
    <2>2. applied' \in [Runs -> SUBSET Steps]
      BY <1>8, <2>1 DEF ExecuteStep, TypeOK
    <2>3. pc' \in [Runs -> PC] /\ \A q \in Runs : q # r => pc'[q] = pc[q]
      BY <1>8 DEF ExecuteStep, TypeOK, Goto, PC, LockedPC
    <2> QED
      BY <1>8, <1>w, <2>2, <2>3 DEF ExecuteStep, TypeOK, Goto, tables, Return
  <1>9. CASE ExecuteStepFails(r)
    <2>1. pos[r] + 1 \in Steps
      BY <1>9 DEF ExecuteStepFails, TypeOK, Steps
    <2>2. applied' \in [Runs -> SUBSET Steps]
      <3>1. applied' = applied \/ applied' = [applied EXCEPT ![r] = @ \cup {pos[r] + 1}]
        BY <1>9 DEF ExecuteStepFails
      <3>2. applied \in [Runs -> SUBSET Steps]
        BY DEF TypeOK
      <3> QED
        BY <2>1, <3>1, <3>2
    <2>3. pc' \in [Runs -> PC] /\ \A q \in Runs : q # r => pc'[q] = pc[q]
      BY <1>9 DEF ExecuteStepFails, TypeOK, Goto, PC, LockedPC
    <2> QED
      BY <1>9, <1>w, <2>2, <2>3 DEF ExecuteStepFails, TypeOK, Goto, tables, Return
  <1>10. CASE CreateWorkflowStep(r)
    <2>1. stepRows' \in [Workflows -> Seq(StepRow)]
      BY <1>10, InsertStepRowType DEF CreateWorkflowStep, TypeOK, tables
    <2>2. pos' \in [Runs -> 0..StepCount] /\ pc' \in [Runs -> PC]
      <3>1. pos[r] + 1 \in 0..StepCount
        BY <1>10, <1>k DEF CreateWorkflowStep, TypeOK
      <3>2. pos \in [Runs -> 0..StepCount] /\ pc \in [Runs -> PC] /\ {"compensate", "step"} \subseteq PC
        BY DEF TypeOK, PC, LockedPC
      <3> QED
        BY <1>10, <3>1, <3>2 DEF CreateWorkflowStep, Goto
    <2> QED
      BY <2>1, <2>2, <1>10 DEF CreateWorkflowStep, TypeOK, Goto, Return, PC, LockedPC, Result, vars, tables, local, outside
  <1>11. CASE CreateWorkflowStepError(r)
    <2>1. stepRows' \in [Workflows -> Seq(StepRow)]
      BY <1>11, InsertStepRowType DEF CreateWorkflowStepError, TypeOK, tables
    <2> QED
      BY <2>1, <1>11 DEF CreateWorkflowStepError, TypeOK, Goto, Return, PC, LockedPC, Result, vars, tables, local, outside
  <1>12. CASE CompleteRun(r)
    <2> DEFINE row == [loc[r] EXCEPT !.status = "completed", !.completedAt = TRUE]
    <2>1. wid[r] \in Workflows /\ row \in Row
      <3>1. wid[r] \in Workflows /\ loc[r] \in Row
        BY <1>12, <1>w DEF CompleteRun, TypeOK
      <3>2. "completed" \in Status /\ 0 \in 0..StepCount
        BY DEF Status
      <3> QED
        BY <3>1, <3>2, RowUpdates
    <2> HIDE DEF row
    <2>2. UpdateWorkflow(r, row)
      BY <1>12 DEF CompleteRun, row
    <2>3. wf' \in [Workflows -> Row] /\ loc' \in [Runs -> Row]
      BY <2>1, <2>2, UpdateWorkflowType
    <2>4. Goto(r, "unlock") /\ "unlock" \in PC /\ UNCHANGED <<wid, pos, outcome>>
      BY <1>12 DEF CompleteRun, PC, LockedPC
    <2>5. /\ pc' \in [Runs -> PC]
          /\ \A q \in Runs : pc'[q] # "idle" => wid'[q] \in Workflows
          /\ \A q \in Runs : pc'[q] \in {"exec", "record"} => pos'[q] < StepCount
          /\ \A q \in Runs : pc'[q] = "record" => outcome'[q] # "none"
      BY <1>12, <2>1, <2>4, GotoType DEF CompleteRun
    <2> QED
      BY <2>3, <2>5, <1>12 DEF CompleteRun, TypeOK, Return, Result, outside
  <1>13. CASE StartCompensation(r)
    <2> DEFINE row == [loc[r] EXCEPT !.status = "compensating"]
    <2>1. wid[r] \in Workflows /\ row \in Row
      <3>1. wid[r] \in Workflows /\ loc[r] \in Row
        BY <1>13, <1>w DEF StartCompensation, TypeOK
      <3>2. "compensating" \in Status /\ 0 \in 0..StepCount
        BY DEF Status
      <3> QED
        BY <3>1, <3>2, RowUpdates
    <2> HIDE DEF row
    <2>2. UpdateWorkflow(r, row)
      BY <1>13 DEF StartCompensation, row
    <2>3. wf' \in [Workflows -> Row] /\ loc' \in [Runs -> Row]
      BY <2>1, <2>2, UpdateWorkflowType
    <2>4. Goto(r, "undo") /\ "undo" \in PC /\ UNCHANGED <<wid, pos, outcome>>
      BY <1>13 DEF StartCompensation, PC, LockedPC
    <2>5. /\ pc' \in [Runs -> PC]
          /\ \A q \in Runs : pc'[q] # "idle" => wid'[q] \in Workflows
          /\ \A q \in Runs : pc'[q] \in {"exec", "record"} => pos'[q] < StepCount
          /\ \A q \in Runs : pc'[q] = "record" => outcome'[q] # "none"
      BY <1>13, <2>1, <2>4, GotoType DEF StartCompensation
    <2> QED
      BY <2>3, <2>5, <1>13 DEF StartCompensation, TypeOK, Return, Result, outside
  <1>14. CASE UndoStep(r)
    <2>1. undoing[r] \in Steps /\ undoLog[r] \in Seq(Steps)
      BY <1>14 DEF UndoStep, TypeOK, Steps
    <2>2. Append(undoLog[r], undoing[r]) \in Seq(Steps)
      BY <2>1
    <2>3. undoLog' \in [Runs -> Seq(Steps)]
      BY <2>2, <1>14 DEF UndoStep, TypeOK, outside
    <2>4. applied' \in [Runs -> SUBSET Steps]
      <3>1. applied \in [Runs -> SUBSET Steps]
        BY DEF TypeOK
      <3>2. applied' = applied \/ \E x : applied' = [applied EXCEPT ![r] = @ \ {x}]
        BY <1>14 DEF UndoStep, outside
      <3> QED
        BY <3>1, <3>2
    <2> QED
      BY <2>1, <2>3, <2>4, <1>14 DEF UndoStep, Steps, TypeOK, Goto, Return, PC, LockedPC, Result, vars, tables, local, outside
  <1>15. CASE FailRun(r)
    <2> DEFINE row == [loc[r] EXCEPT !.status = "failed"]
    <2>1. wid[r] \in Workflows /\ row \in Row
      <3>1. wid[r] \in Workflows /\ loc[r] \in Row
        BY <1>15, <1>w DEF FailRun, TypeOK
      <3>2. "failed" \in Status /\ 0 \in 0..StepCount
        BY DEF Status
      <3> QED
        BY <3>1, <3>2, RowUpdates
    <2> HIDE DEF row
    <2>2. UpdateWorkflow(r, row)
      BY <1>15 DEF FailRun, row
    <2>3. wf' \in [Workflows -> Row] /\ loc' \in [Runs -> Row]
      BY <2>1, <2>2, UpdateWorkflowType
    <2>4. Goto(r, "unlock") /\ "unlock" \in PC /\ UNCHANGED <<wid, pos, outcome>>
      BY <1>15 DEF FailRun, PC, LockedPC
    <2>5. /\ pc' \in [Runs -> PC]
          /\ \A q \in Runs : pc'[q] # "idle" => wid'[q] \in Workflows
          /\ \A q \in Runs : pc'[q] \in {"exec", "record"} => pos'[q] < StepCount
          /\ \A q \in Runs : pc'[q] = "record" => outcome'[q] # "none"
      BY <1>15, <2>1, <2>4, GotoType DEF FailRun
    <2> QED
      BY <2>3, <2>5, <1>15 DEF FailRun, TypeOK, Return, Result, outside
  <1>16. CASE UnlockWorkflow(r)
    BY <1>16, <1>w DEF UnlockWorkflow, TypeOK, Goto, Return, PC, LockedPC, Result, vars, tables, local, outside
  <1> QED
    BY <1>1, <1>2, <1>3, <1>4, <1>5, <1>6, <1>7, <1>8, <1>9, <1>10, <1>11, <1>12, <1>13, <1>14, <1>15, <1>16 DEF RunStep

\* Every step of the system keeps every variable in its type.
LEMMA TypeNext == TypeOK /\ [Next]_vars => TypeOK'
  <1> SUFFICES ASSUME TypeOK, [Next]_vars PROVE TypeOK'
    OBVIOUS
  <1>1. ASSUME NEW w \in Workflows, NEW f \in 0..StepCount, CreateWorkflow(w, f)
        PROVE  TypeOK'
    <2>1. NoRow \in Row
      BY StepsAssumption DEF NoRow, Row, Status
    <2>2. [NoRow EXCEPT !.status = "pending", !.failStep = f] \in Row
      <3>1. "pending" \in Status
        BY DEF Status
      <3> QED
        BY <1>1, <2>1, <3>1, RowUpdates, Zenon
    <2> QED
      BY <1>1, <2>2 DEF CreateWorkflow, TypeOK, local, outside
  <1>2. ASSUME NEW r \in Runs, NEW w \in Workflows, RunWorkflow(r, w)
        PROVE  TypeOK'
    BY <1>2 DEF RunWorkflow, TypeOK, Goto, PC, tables, outside
  <1>3. ASSUME NEW r \in Runs, RunStep(r)
        PROVE  TypeOK'
    BY <1>3, TypeRunStep
  <1>4. ASSUME NEW w \in Workflows, ExpireLock(w)
        PROVE  TypeOK'
    BY <1>4 DEF ExpireLock, TypeOK, tables, local, outside
  <1>5. ASSUME NEW g \in Gateways, Crash(g)
        PROVE  TypeOK'
    BY <1>5, FaultsAssumption DEF Crash, TypeOK, PC, LockedPC, Live, tables, local, outside
  <1>6. CASE UNCHANGED vars
    BY <1>6 DEF TypeOK, vars, tables, local, outside
  <1> QED
    BY <1>1, <1>2, <1>3, <1>4, <1>5, <1>6 DEF Next

\* In every reachable state every variable has its type: rows stay rows, no
\* run records or executes a step beyond the definition's last one.
THEOREM TypeCorrect == Spec => []TypeOK
  BY TypeInit, TypeNext, PTL DEF Spec

-----------------------------------------------------------------------------
(* The lock *)

\* A run's own statements keep the key its own while it is inside, and never
\* touch the key of another run that is inside.
LEMMA LockHeldRunStep ==
    ASSUME TypeOK, LockHeld, LeaseOutlivesRun, NEW r \in Runs, RunStep(r)
    PROVE  LockHeld'
  <1> USE RunsAssumption DEF LockHeld, Locked, LockedPC, TypeOK, Goto, tables, local
  <1>1. CASE GetWorkflow(r)
    BY <1>1 DEF GetWorkflow
  <1>2. CASE GetWorkflowError(r)
    BY <1>2 DEF GetWorkflowError
  <1>3. CASE LockWorkflow(r)
    BY <1>3 DEF LockWorkflow
  <1>4. CASE LockRefused(r)
    BY <1>4 DEF LockRefused
  <1>5. CASE LockError(r)
    BY <1>5 DEF LockError
  <1>6. CASE MarkRunning(r)
    BY <1>6 DEF MarkRunning
  <1>7. CASE BeginStep(r)
    BY <1>7 DEF BeginStep
  <1>8. CASE ExecuteStep(r)
    BY <1>8 DEF ExecuteStep
  <1>9. CASE ExecuteStepFails(r)
    BY <1>9 DEF ExecuteStepFails
  <1>10. CASE CreateWorkflowStep(r)
    BY <1>10 DEF CreateWorkflowStep
  <1>11. CASE CreateWorkflowStepError(r)
    BY <1>11 DEF CreateWorkflowStepError
  <1>12. CASE CompleteRun(r)
    BY <1>12 DEF CompleteRun
  <1>13. CASE StartCompensation(r)
    BY <1>13 DEF StartCompensation
  <1>14. CASE UndoStep(r)
    BY <1>14 DEF UndoStep
  <1>15. CASE FailRun(r)
    BY <1>15 DEF FailRun
  <1>16. CASE UnlockWorkflow(r)
    BY <1>16 DEF UnlockWorkflow
  <1> QED
    BY <1>1, <1>2, <1>3, <1>4, <1>5, <1>6, <1>7, <1>8, <1>9, <1>10, <1>11, <1>12, <1>13, <1>14, <1>15, <1>16 DEF RunStep

\* No step of the system takes the key away from a run that is inside.
LEMMA LockHeldNext == TypeOK /\ LockHeld /\ [Next]_vars => LockHeld'
  <1> SUFFICES ASSUME TypeOK, LockHeld, LeaseOutlivesRun, [Next]_vars
               PROVE  LockHeld'
    BY DEF LockHeld
  <1>1. ASSUME NEW w \in Workflows, NEW f \in 0..StepCount, CreateWorkflow(w, f)
        PROVE  LockHeld'
    BY <1>1 DEF CreateWorkflow, LockHeld, Locked, local
  <1>2. ASSUME NEW r \in Runs, NEW w \in Workflows, RunWorkflow(r, w)
        PROVE  LockHeld'
    BY <1>2 DEF RunWorkflow, LockHeld, Locked, LockedPC, Goto, TypeOK
  <1>3. ASSUME NEW r \in Runs, RunStep(r)
        PROVE  LockHeld'
    BY <1>3, LockHeldRunStep
  <1>4. ASSUME NEW w \in Workflows, ExpireLock(w)
        PROVE  LockHeld'
    BY <1>4 DEF ExpireLock, LockHeld, Locked, local, TypeOK
  <1>5. ASSUME NEW g \in Gateways, Crash(g)
        PROVE  LockHeld'
    BY <1>5 DEF Crash, LockHeld, Locked, LockedPC, Live, local, TypeOK
  <1>6. CASE UNCHANGED vars
    BY <1>6 DEF LockHeld, Locked, vars, local
  <1> QED
    BY <1>1, <1>2, <1>3, <1>4, <1>5, <1>6 DEF Next

-----------------------------------------------------------------------------
(* The compensations called and the effects that stand *)

\* What UndoneSoFar and EffectsSoFar say of a run is about these values.
Footprint(q) == <<pos[q], outcome[q], undoing[q], result[q], applied[q], undoLog[q]>>

\* A run's statements leave every other run's footprint alone.
LEMMA OthersUntouched ==
    ASSUME TypeOK, NEW r \in Runs, RunStep(r), NEW q \in Runs, q # r
    PROVE  pc'[q] = pc[q] /\ Footprint(q)' = Footprint(q)
  <1> USE DEF Footprint, TypeOK, Goto, Return, tables, local, outside
  <1>1. CASE GetWorkflow(r)
    BY <1>1 DEF GetWorkflow
  <1>2. CASE GetWorkflowError(r)
    BY <1>2 DEF GetWorkflowError
  <1>3. CASE LockWorkflow(r)
    BY <1>3 DEF LockWorkflow
  <1>4. CASE LockRefused(r)
    BY <1>4 DEF LockRefused
  <1>5. CASE LockError(r)
    BY <1>5 DEF LockError
  <1>6. CASE MarkRunning(r)
    BY <1>6 DEF MarkRunning
  <1>7. CASE BeginStep(r)
    BY <1>7 DEF BeginStep
  <1>8. CASE ExecuteStep(r)
    BY <1>8 DEF ExecuteStep
  <1>9. CASE ExecuteStepFails(r)
    BY <1>9 DEF ExecuteStepFails
  <1>10. CASE CreateWorkflowStep(r)
    BY <1>10 DEF CreateWorkflowStep
  <1>11. CASE CreateWorkflowStepError(r)
    BY <1>11 DEF CreateWorkflowStepError
  <1>12. CASE CompleteRun(r)
    BY <1>12 DEF CompleteRun
  <1>13. CASE StartCompensation(r)
    BY <1>13 DEF StartCompensation
  <1>14. CASE UndoStep(r)
    BY <1>14 DEF UndoStep
  <1>15. CASE FailRun(r)
    BY <1>15 DEF FailRun
  <1>16. CASE UnlockWorkflow(r)
    BY <1>16 DEF UnlockWorkflow
  <1> QED
    BY <1>1, <1>2, <1>3, <1>4, <1>5, <1>6, <1>7, <1>8, <1>9, <1>10, <1>11, <1>12, <1>13, <1>14, <1>15, <1>16 DEF RunStep

\* Appending to a sequence adds one element to the set of its elements.
LEMMA AppendElements ==
    ASSUME NEW u \in Seq(Steps), NEW x \in Steps
    PROVE  {Append(u, x)[i] : i \in DOMAIN Append(u, x)}
              = {u[i] : i \in DOMAIN u} \cup {x}
  <1> DEFINE v == Append(u, x)
  <1>1. /\ Len(u) \in Nat /\ DOMAIN u = 1..Len(u)
        /\ DOMAIN v = 1..(Len(u) + 1)
        /\ v[Len(u) + 1] = x
        /\ \A i \in 1..Len(u) : v[i] = u[i]
    OBVIOUS
  <1> HIDE DEF v
  <1>2. \A i \in DOMAIN v : i \in DOMAIN u \/ i = Len(u) + 1
    BY <1>1
  <1> QED
    BY <1>1, <1>2 DEF v

\* A descending sequence stays so when a smaller number is appended.
LEMMA AppendDescending ==
    ASSUME NEW u \in Seq(Steps), NEW x \in Steps,
           \A i, j \in DOMAIN u : i < j => u[i] > u[j],
           \A i \in DOMAIN u : u[i] > x
    PROVE  \A i, j \in DOMAIN Append(u, x) :
              i < j => Append(u, x)[i] > Append(u, x)[j]
  <1> DEFINE v == Append(u, x)
  <1>1. /\ Len(u) \in Nat /\ DOMAIN u = 1..Len(u)
        /\ DOMAIN v = 1..(Len(u) + 1)
        /\ v[Len(u) + 1] = x
        /\ \A i \in 1..Len(u) : v[i] = u[i]
    OBVIOUS
  <1> HIDE DEF v
  <1> SUFFICES ASSUME NEW i \in DOMAIN v, NEW j \in DOMAIN v, i < j
               PROVE  v[i] > v[j]
    BY DEF v
  <1>2. i \in DOMAIN u /\ v[i] = u[i]
    BY <1>1
  <1>3. CASE j \in DOMAIN u
    BY <1>1, <1>2, <1>3
  <1>4. CASE j = Len(u) + 1
    BY <1>1, <1>2, <1>4
  <1> QED
    BY <1>1, <1>3, <1>4

\* Each statement of a run keeps the record of its compensations right.
LEMMA UndoneRunStep ==
    ASSUME TypeOK, NEW r \in Runs, UndoneSoFar(r), RunStep(r)
    PROVE  UndoneSoFar(r)'
  <1> USE DEF UndoneSoFar, ForwardPC, TypeOK, PC, LockedPC, Goto, Return, tables, local, outside
  <1>1. CASE GetWorkflow(r)
    BY <1>1 DEF GetWorkflow, Undone
  <1>2. CASE GetWorkflowError(r)
    BY <1>2 DEF GetWorkflowError, Undone
  <1>3. CASE LockWorkflow(r)
    BY <1>3 DEF LockWorkflow, Undone
  <1>4. CASE LockRefused(r)
    BY <1>4 DEF LockRefused, Undone
  <1>5. CASE LockError(r)
    BY <1>5 DEF LockError, Undone
  <1>6. CASE MarkRunning(r)
    BY <1>6 DEF MarkRunning, Undone
  <1>7. CASE BeginStep(r)
    BY <1>7 DEF BeginStep, Undone
  <1>8. CASE ExecuteStep(r)
    BY <1>8 DEF ExecuteStep, Undone
  <1>9. CASE ExecuteStepFails(r)
    BY <1>9 DEF ExecuteStepFails, Undone
  <1>10. CASE CreateWorkflowStep(r)
    BY <1>10 DEF CreateWorkflowStep, Undone
  <1>11. CASE CreateWorkflowStepError(r)
    BY <1>11 DEF CreateWorkflowStepError, Undone
  <1>12. CASE CompleteRun(r)
    BY <1>12 DEF CompleteRun, Undone
  <1>13. CASE StartCompensation(r)
    <2>1. undoLog'[r] = <<>> /\ undoing'[r] = pos[r] /\ pos'[r] = pos[r]
      BY <1>13 DEF StartCompensation
    <2>2. Undone(r)' = {}
      BY <2>1 DEF Undone
    <2>3. pos[r] \in Nat /\ \A s \in Compensable : s \in Nat
      BY StepsAssumption
    <2>4. {s \in Compensable : pos[r] < s /\ s <= pos[r]} = {}
      BY <2>3
    <2>5. pc'[r] = "undo" /\ result'[r] # "failed"
      BY <1>13 DEF StartCompensation
    <2> QED
      BY <2>1, <2>2, <2>3, <2>4, <2>5
  <1>14. CASE UndoStep(r)
    <2> DEFINE s == undoing[r]
    <2>1. /\ s \in Steps /\ s <= pos[r] /\ pos[r] \in Nat
          /\ undoLog[r] \in Seq(Steps)
          /\ Undone(r) = {t \in Compensable : s < t /\ t <= pos[r]}
          /\ pc'[r] = "undo" /\ result'[r] # "failed"
          /\ pos'[r] = pos[r] /\ undoing'[r] = s - 1
      BY <1>14 DEF UndoStep, Steps
    <2>2. \A t \in Compensable : t \in Steps
      BY StepsAssumption DEF Steps
    <2>3. CASE s \notin Compensable
      <3>1. undoLog' = undoLog
        BY <1>14, <2>3 DEF UndoStep
      <3>2. {t \in Compensable : s - 1 < t /\ t <= pos[r]}
              = {t \in Compensable : s < t /\ t <= pos[r]}
        BY <2>1, <2>2, <2>3 DEF Steps
      <3> QED
        BY <2>1, <3>1, <3>2, StepsAssumption DEF Undone, Steps
    <2>4. CASE s \in Compensable
      <3>1. undoLog'[r] = Append(undoLog[r], s)
        BY <1>14, <2>4 DEF UndoStep
      <3>2. Undone(r)' = Undone(r) \cup {s}
        <4>1. {Append(undoLog[r], s)[i] : i \in DOMAIN Append(undoLog[r], s)}
                = {undoLog[r][i] : i \in DOMAIN undoLog[r]} \cup {s}
          BY ONLY <2>1, AppendElements, Zenon
        <4> QED
          BY ONLY <3>1, <4>1, Zenon DEF Undone
      <3>3. {t \in Compensable : s - 1 < t /\ t <= pos[r]}
              = {t \in Compensable : s < t /\ t <= pos[r]} \cup {s}
        BY <2>1, <2>2, <2>4 DEF Steps
      <3>4. \A i \in DOMAIN undoLog[r] : undoLog[r][i] \in Undone(r)
        BY DEF Undone
      <3>5. \A i \in DOMAIN undoLog[r] : undoLog[r][i] > s
        BY <2>1, <2>2, <3>4 DEF Steps
      <3>6. \A i, j \in DOMAIN Append(undoLog[r], s) :
               i < j => Append(undoLog[r], s)[i] > Append(undoLog[r], s)[j]
        BY <2>1, <3>5, AppendDescending
      <3> QED
        BY <2>1, <3>1, <3>2, <3>3, <3>6 DEF Steps
    <2> QED
      BY <2>3, <2>4
  <1>15. CASE FailRun(r)
    <2>1. /\ Undone(r) = {s \in Compensable : 0 < s /\ s <= pos[r]}
          /\ Undone(r)' = Undone(r) /\ pos'[r] = pos[r]
          /\ pc'[r] = "unlock" /\ undoLog' = undoLog
      BY <1>15 DEF FailRun, Undone
    <2>2. \A s \in Compensable : s \in Nat /\ 0 < s
      BY StepsAssumption
    <2>3. Undone(r) = {s \in Compensable : s <= pos[r]}
      BY <2>1, <2>2
    <2> QED
      BY <2>1, <2>3
  <1>16. CASE UnlockWorkflow(r)
    BY <1>16 DEF UnlockWorkflow, Undone
  <1> QED
    BY <1>1, <1>2, <1>3, <1>4, <1>5, <1>6, <1>7, <1>8, <1>9, <1>10, <1>11, <1>12, <1>13, <1>14, <1>15, <1>16 DEF RunStep

\* Each statement of a run keeps the account of its effects right.
LEMMA EffectsRunStep ==
    ASSUME TypeOK, NEW r \in Runs, EffectsSoFar(r), RunStep(r)
    PROVE  EffectsSoFar(r)'
  <1> USE StepsAssumption
      DEF EffectsSoFar, TypeOK, PC, LockedPC, Goto, Return, tables, local, outside
  <1>1. CASE GetWorkflow(r)
    BY <1>1 DEF GetWorkflow
  <1>2. CASE GetWorkflowError(r)
    BY <1>2 DEF GetWorkflowError
  <1>3. CASE LockWorkflow(r)
    BY <1>3 DEF LockWorkflow
  <1>4. CASE LockRefused(r)
    BY <1>4 DEF LockRefused
  <1>5. CASE LockError(r)
    BY <1>5 DEF LockError
  <1>6. CASE MarkRunning(r)
    BY <1>6 DEF MarkRunning
  <1>7. CASE BeginStep(r)
    BY <1>7 DEF BeginStep
  <1>8. CASE ExecuteStep(r)
    BY <1>8 DEF ExecuteStep, Steps
  <1>9. CASE ExecuteStepFails(r)
    BY <1>9 DEF ExecuteStepFails, Steps
  <1>10. CASE CreateWorkflowStep(r)
    BY <1>10 DEF CreateWorkflowStep
  <1>11. CASE CreateWorkflowStepError(r)
    BY <1>11 DEF CreateWorkflowStepError
  <1>12. CASE CompleteRun(r)
    BY <1>12 DEF CompleteRun
  <1>13. CASE StartCompensation(r)
    BY <1>13 DEF StartCompensation
  <1>14. CASE UndoStep(r)
    BY <1>14 DEF UndoStep, Steps
  <1>15. CASE FailRun(r)
    BY <1>15 DEF FailRun
  <1>16. CASE UnlockWorkflow(r)
    BY <1>16 DEF UnlockWorkflow
  <1> QED
    BY <1>1, <1>2, <1>3, <1>4, <1>5, <1>6, <1>7, <1>8, <1>9, <1>10, <1>11, <1>12, <1>13, <1>14, <1>15, <1>16 DEF RunStep

\* The initial states satisfy RunInvariant.
LEMMA RunInvariantInit == Init => RunInvariant
  BY DEF Init, RunInvariant, LockHeld, Locked, LockedPC, UndoneSoFar, EffectsSoFar, ForwardPC

\* Every step of the system preserves RunInvariant.
LEMMA RunInvariantNext ==
    TypeOK /\ RunInvariant /\ [Next]_vars => RunInvariant'
  <1> SUFFICES ASSUME TypeOK, RunInvariant, [Next]_vars
               PROVE  RunInvariant'
    OBVIOUS
  <1> SUFFICES ASSUME NEW q \in Runs
               PROVE  UndoneSoFar(q)' /\ EffectsSoFar(q)'
    BY LockHeldNext DEF RunInvariant
  <1>q. UndoneSoFar(q) /\ EffectsSoFar(q)
    BY DEF RunInvariant
  <1>same. ASSUME pc'[q] = pc[q], Footprint(q)' = Footprint(q)
           PROVE  UndoneSoFar(q)' /\ EffectsSoFar(q)'
    BY <1>q, <1>same DEF UndoneSoFar, EffectsSoFar, Undone, Footprint
  <1>1. ASSUME NEW w \in Workflows, NEW f \in 0..StepCount, CreateWorkflow(w, f)
        PROVE  UndoneSoFar(q)' /\ EffectsSoFar(q)'
    BY <1>1, <1>same DEF CreateWorkflow, Footprint, local, outside
  <1>2. ASSUME NEW r \in Runs, NEW w \in Workflows, RunWorkflow(r, w)
        PROVE  UndoneSoFar(q)' /\ EffectsSoFar(q)'
    <2>1. CASE q # r
      BY <1>2, <2>1, <1>same DEF RunWorkflow, Goto, Footprint, outside, TypeOK
    <2>2. CASE q = r
      BY <1>2, <2>2, <1>q
      DEF RunWorkflow, Goto, outside, TypeOK, UndoneSoFar, EffectsSoFar, Undone, ForwardPC
    <2> QED
      BY <2>1, <2>2
  <1>3. ASSUME NEW r \in Runs, RunStep(r)
        PROVE  UndoneSoFar(q)' /\ EffectsSoFar(q)'
    <2>1. CASE q # r
      BY <1>3, <2>1, <1>same, OthersUntouched
    <2>2. CASE q = r
      BY <1>3, <2>2, <1>q, UndoneRunStep, EffectsRunStep
    <2> QED
      BY <2>1, <2>2
  <1>4. ASSUME NEW w \in Workflows, ExpireLock(w)
        PROVE  UndoneSoFar(q)' /\ EffectsSoFar(q)'
    BY <1>4, <1>same DEF ExpireLock, Footprint, local, outside
  <1>5. ASSUME NEW g \in Gateways, Crash(g)
        PROVE  UndoneSoFar(q)' /\ EffectsSoFar(q)'
    <2>1. Footprint(q)' = Footprint(q)
      BY <1>5 DEF Crash, Footprint, local, outside
    <2>2. pc'[q] = pc[q] \/ (pc'[q] = "crashed" /\ Live(q))
      BY <1>5 DEF Crash, TypeOK
    <2>3. CASE pc'[q] = "crashed" /\ Live(q)
      BY <1>q, <2>1, <2>3 DEF UndoneSoFar, EffectsSoFar, Undone, Footprint, ForwardPC
    <2> QED
      BY <2>1, <2>2, <2>3, <1>same
  <1>6. CASE UNCHANGED vars
    BY <1>6, <1>same DEF vars, Footprint, local, outside
  <1> QED
    BY <1>1, <1>2, <1>3, <1>4, <1>5, <1>6 DEF Next

\* RunInvariant holds in every reachable state.
THEOREM RunInvariantHolds == Spec => []RunInvariant
  <1>1. Init => TypeOK /\ RunInvariant
    BY TypeInit, RunInvariantInit
  <1>2. TypeOK /\ RunInvariant /\ [Next]_vars => (TypeOK /\ RunInvariant)'
    BY TypeNext, RunInvariantNext
  <1> QED
    BY <1>1, <1>2, PTL DEF Spec

-----------------------------------------------------------------------------
(* The properties *)

\* As long as no lock expires under a live run, no two runs of a workflow are
\* ever between SETNX and DEL together: not after crashes, lost DELs, Redis
\* errors whose SETNX was applied, or expiries of dead runs' locks.
THEOREM MutualExclusion ==
    ASSUME LeaseOutlivesRun PROVE Spec => []SingleExecutor
  <1>1. RunInvariant => SingleExecutor
    BY DEF RunInvariant, LockHeld, SingleExecutor
  <1> QED
    BY <1>1, RunInvariantHolds, PTL

\* compensate calls the compensations in reverse step order, each at most
\* once, and all of them before Run reports the failure, with or without the
\* lock's protection.
THEOREM ReverseOrder == Spec => []CompensationLIFO
  <1>1. RunInvariant => CompensationLIFO
    BY DEF RunInvariant, UndoneSoFar, CompensationLIFO
  <1> QED
    BY <1>1, RunInvariantHolds, PTL

\* When Run reports failure no effect of a compensable step stands, unless
\* that step's own Compensation may fail.
THEOREM RollBack == Spec => []FailureRollsBack
  <1>1. RunInvariant => FailureRollsBack
    BY DEF RunInvariant, EffectsSoFar, FailureRollsBack
  <1> QED
    BY <1>1, RunInvariantHolds, PTL

-----------------------------------------------------------------------------
(* The audit trail *)

\* workflow_steps of w shows that run r ended step s in this status.
HasStep(w, r, s, st) ==
    \E i \in DOMAIN stepRows[w] : stepRows[w][i] = [run |-> r, step |-> s, status |-> st]

\* What run r has recorded at each point of Engine.Run and compensate, and that
\* its copy of the row is neither completed nor failed while it is in the loop.
Trail(r) ==
    /\ pc[r] \in {"step", "exec", "record"} => loc[r].status = "running"
    /\ pc[r] \in {"step", "exec", "record", "compensate", "undo"} =>
         \A s \in 1..pos[r] : HasStep(wid[r], r, s, "completed")
    /\ pc[r] \in {"compensate", "undo"} => HasStep(wid[r], r, pos[r] + 1, "failed")

\* Inductive with TypeOK and RunInvariant.
AuditInvariant ==
    /\ CompletedRowAudited
    /\ FailedRowAudited
    /\ \A r \in Runs : Trail(r)

\* No step of the engine removes or changes a row of workflow_steps: the one
\* action that touches the table appends.
LEMMA StepRowsStay ==
    ASSUME TypeOK, [Next]_vars, NEW w \in Workflows
    PROVE  \A i \in DOMAIN stepRows[w] :
             i \in DOMAIN stepRows'[w] /\ stepRows'[w][i] = stepRows[w][i]
  <1>1. CASE stepRows' = stepRows
    BY <1>1
  <1>2. ASSUME NEW r \in Runs, InsertStepRow(r)
        PROVE  \A i \in DOMAIN stepRows[w] :
                 i \in DOMAIN stepRows'[w] /\ stepRows'[w][i] = stepRows[w][i]
    <2> DEFINE row == [run |-> r, step |-> pos[r] + 1, status |-> outcome[r]]
    <2>1. stepRows' = [stepRows EXCEPT ![wid[r]] = Append(@, row)]
      BY <1>2 DEF InsertStepRow
    <2> HIDE DEF row
    <2>2. stepRows \in [Workflows -> Seq(StepRow)]
      BY DEF TypeOK
    <2> QED
      BY <2>1, <2>2
  <1>3. ASSUME NEW r \in Runs, RunStep(r)
        PROVE  stepRows' = stepRows \/ InsertStepRow(r)
    BY <1>3 DEF RunStep, GetWorkflow, GetWorkflowError, LockWorkflow, LockRefused, LockError,
        MarkRunning, BeginStep, ExecuteStep, ExecuteStepFails, CreateWorkflowStep,
        CreateWorkflowStepError, CompleteRun, StartCompensation, UndoStep, FailRun,
        UnlockWorkflow, tables
  <1>4. CASE ~\E r \in Runs : RunStep(r)
    BY <1>4, <1>1 DEF Next, CreateWorkflow, RunWorkflow, ExpireLock, Crash, vars, tables
  <1> QED
    BY <1>1, <1>2, <1>3, <1>4

\* What is recorded stays recorded.
LEMMA HasStepStays ==
    ASSUME TypeOK, [Next]_vars, NEW w \in Workflows, NEW r, NEW s, NEW st, HasStep(w, r, s, st)
    PROVE  HasStep(w, r, s, st)'
  BY StepRowsStay DEF HasStep

\* A compensation that was called stays in the log.
LEMMA UndoneStays ==
    ASSUME TypeOK, [Next]_vars, NEW r \in Runs
    PROVE  Undone(r) \subseteq Undone(r)'
  <1>1. CASE undoLog' = undoLog
    BY <1>1 DEF Undone
  <1>2. ASSUME NEW q \in Runs, NEW s, undoLog' = [undoLog EXCEPT ![q] = Append(@, s)]
        PROVE  Undone(r) \subseteq Undone(r)'
    <2>1. undoLog \in [Runs -> Seq(Steps)]
      BY DEF TypeOK
    <2>2. \A i \in DOMAIN undoLog[r] : i \in DOMAIN undoLog'[r] /\ undoLog'[r][i] = undoLog[r][i]
      BY <1>2, <2>1
    <2> QED
      BY <2>2 DEF Undone
  <1>3. ASSUME NEW q \in Runs, RunStep(q)
        PROVE  undoLog' = undoLog \/ undoLog' = [undoLog EXCEPT ![q] = Append(@, undoing[q])]
    BY <1>3 DEF RunStep, GetWorkflow, GetWorkflowError, LockWorkflow, LockRefused, LockError,
        MarkRunning, BeginStep, ExecuteStep, ExecuteStepFails, CreateWorkflowStep,
        CreateWorkflowStepError, CompleteRun, StartCompensation, UndoStep, FailRun,
        UnlockWorkflow, outside
  <1>4. CASE ~\E q \in Runs : RunStep(q)
    BY <1>4, <1>1 DEF Next, CreateWorkflow, RunWorkflow, ExpireLock, Crash, vars, outside
  <1> QED
    BY <1>1, <1>2, <1>3, <1>4

\* The evidence for a completed row, and for a failed one.
FullRun(w) == \E r \in Runs : \A s \in Steps : HasStep(w, r, s, "completed")

RolledBack(w) ==
    \E i \in DOMAIN stepRows[w] :
        /\ stepRows[w][i].status = "failed"
        /\ {s \in Compensable : s < stepRows[w][i].step} \subseteq Undone(stepRows[w][i].run)

\* Evidence is never lost.
LEMMA EvidenceStays ==
    ASSUME TypeOK, [Next]_vars, NEW w \in Workflows
    PROVE  /\ FullRun(w) => FullRun(w)'
           /\ RolledBack(w) => RolledBack(w)'
  <1>1. ASSUME FullRun(w) PROVE FullRun(w)'
    <2>1. PICK r \in Runs : \A s \in Steps : HasStep(w, r, s, "completed")
      BY <1>1 DEF FullRun
    <2>2. \A s \in Steps : HasStep(w, r, s, "completed")'
      BY <2>1, HasStepStays
    <2> QED
      BY <2>2 DEF FullRun
  <1>2. ASSUME RolledBack(w) PROVE RolledBack(w)'
    <2>1. PICK i \in DOMAIN stepRows[w] :
            /\ stepRows[w][i].status = "failed"
            /\ {s \in Compensable : s < stepRows[w][i].step} \subseteq Undone(stepRows[w][i].run)
      BY <1>2 DEF RolledBack
    <2>2. i \in DOMAIN stepRows'[w] /\ stepRows'[w][i] = stepRows[w][i]
      BY StepRowsStay
    <2>3. stepRows[w] \in Seq(StepRow)
      BY DEF TypeOK
    <2>4. stepRows[w][i] \in StepRow
      BY <2>3
    <2>5. PICK q \in Runs : q = stepRows[w][i].run
      BY <2>4 DEF StepRow
    <2>6. Undone(q) \subseteq Undone(q)'
      BY UndoneStays
    <2>7. {s \in Compensable : s < stepRows'[w][i].step} \subseteq Undone(q)'
      BY <2>1, <2>2, <2>5, <2>6
    <2> QED
      BY <2>1, <2>2, <2>5, <2>7 DEF RolledBack, Undone
  <1> QED
    BY <1>1, <1>2

\* A run's statements leave every other run's argument and copy of the row alone.
LEMMA CopiesUntouched ==
    ASSUME TypeOK, NEW r \in Runs, RunStep(r), NEW q \in Runs, q # r
    PROVE  wid'[q] = wid[q] /\ loc'[q] = loc[q]
  <1>1. wid' = wid
    BY DEF RunStep, GetWorkflow, GetWorkflowError, LockWorkflow, LockRefused, LockError,
        MarkRunning, BeginStep, ExecuteStep, ExecuteStepFails, CreateWorkflowStep,
        CreateWorkflowStepError, CompleteRun, StartCompensation, UndoStep, FailRun,
        UnlockWorkflow, local
  <1>2. loc' = loc \/ \E row : loc' = [loc EXCEPT ![r] = row]
    BY DEF RunStep, GetWorkflow, GetWorkflowError, LockWorkflow, LockRefused, LockError,
        MarkRunning, BeginStep, ExecuteStep, ExecuteStepFails, CreateWorkflowStep,
        CreateWorkflowStepError, CompleteRun, StartCompensation, UndoStep, FailRun,
        UnlockWorkflow, UpdateWorkflow, local
  <1>3. loc'[q] = loc[q]
    BY <1>2 DEF TypeOK
  <1> QED
    BY <1>1, <1>3

\* UpdateWorkflow writes the status of the row it is given, to the row of the
\* run's workflow or to none.
LEMMA UpdateWorkflowStatus ==
    ASSUME TypeOK, NEW r \in Runs, wid[r] \in Workflows, NEW row, UpdateWorkflow(r, row),
           NEW w \in Workflows
    PROVE  wf'[w].status = wf[w].status \/ (w = wid[r] /\ wf'[w].status = row.status)
  BY DEF TypeOK, UpdateWorkflow

\* Only the end of Run makes a row completed, and only the end of compensate
\* makes it failed: the other writes of a run carry another status.
LEMMA StatusWritten ==
    ASSUME TypeOK, AuditInvariant, NEW r \in Runs, RunStep(r), NEW w \in Workflows
    PROVE  \/ wf'[w].status = wf[w].status
           \/ wf'[w].status \notin {"completed", "failed"}
           \/ w = wid[r] /\ CompleteRun(r) /\ wf'[w].status = "completed"
           \/ w = wid[r] /\ FailRun(r) /\ wf'[w].status = "failed"
  <1>r. loc[r] \in Row
    BY DEF TypeOK
  <1>w. pc[r] # "idle" => wid[r] \in Workflows
    BY DEF TypeOK
  <1>1. CASE MarkRunning(r)
    <2> DEFINE row == [loc[r] EXCEPT !.status = "running"]
    <2>1. row.status = "running" /\ UpdateWorkflow(r, row) /\ wid[r] \in Workflows
      BY <1>1, <1>r, <1>w DEF MarkRunning, Row
    <2> HIDE DEF row
    <2> QED
      BY <2>1, UpdateWorkflowStatus
  <1>2. CASE BeginStep(r)
    <2> DEFINE row == [loc[r] EXCEPT !.step = pos[r] + 1]
    <2>1. row.status = loc[r].status /\ UpdateWorkflow(r, row) /\ wid[r] \in Workflows
      BY <1>2, <1>r, <1>w DEF BeginStep, Row
    <2>2. loc[r].status = "running"
      BY <1>2 DEF BeginStep, AuditInvariant, Trail
    <2> HIDE DEF row
    <2> QED
      BY <2>1, <2>2, UpdateWorkflowStatus
  <1>3. CASE CompleteRun(r)
    <2> DEFINE row == [loc[r] EXCEPT !.status = "completed", !.completedAt = TRUE]
    <2>1. row.status = "completed" /\ UpdateWorkflow(r, row) /\ wid[r] \in Workflows
      BY <1>3, <1>r, <1>w DEF CompleteRun, Row
    <2> HIDE DEF row
    <2> QED
      BY <1>3, <2>1, UpdateWorkflowStatus
  <1>4. CASE StartCompensation(r)
    <2> DEFINE row == [loc[r] EXCEPT !.status = "compensating"]
    <2>1. row.status = "compensating" /\ UpdateWorkflow(r, row) /\ wid[r] \in Workflows
      BY <1>4, <1>r, <1>w DEF StartCompensation, Row
    <2> HIDE DEF row
    <2> QED
      BY <2>1, UpdateWorkflowStatus
  <1>5. CASE FailRun(r)
    <2> DEFINE row == [loc[r] EXCEPT !.status = "failed"]
    <2>1. row.status = "failed" /\ UpdateWorkflow(r, row) /\ wid[r] \in Workflows
      BY <1>5, <1>r, <1>w DEF FailRun, Row
    <2> HIDE DEF row
    <2> QED
      BY <1>5, <2>1, UpdateWorkflowStatus
  <1>6. CASE ~(MarkRunning(r) \/ BeginStep(r) \/ CompleteRun(r) \/ StartCompensation(r) \/ FailRun(r))
    <2>1. wf' = wf
      BY <1>6 DEF RunStep, GetWorkflow, GetWorkflowError, LockWorkflow, LockRefused, LockError,
          ExecuteStep, ExecuteStepFails, CreateWorkflowStep, CreateWorkflowStepError, UndoStep,
          UnlockWorkflow, tables
    <2> QED
      BY <2>1
  <1> QED
    BY <1>1, <1>2, <1>3, <1>4, <1>5, <1>6

\* What a run has recorded is the evidence its last write of the row needs.
LEMMA EndHasEvidence ==
    ASSUME TypeOK, RunInvariant, AuditInvariant, NEW r \in Runs
    PROVE  /\ CompleteRun(r) => FullRun(wid[r])
           /\ FailRun(r) => RolledBack(wid[r])
  <1>1. ASSUME CompleteRun(r) PROVE FullRun(wid[r])
    <2>1. pc[r] = "step" /\ pos[r] = StepCount
      BY <1>1 DEF CompleteRun
    <2>2. \A s \in 1..StepCount : HasStep(wid[r], r, s, "completed")
      BY <2>1 DEF AuditInvariant, Trail
    <2> QED
      BY <2>2 DEF FullRun, Steps
  <1>2. ASSUME FailRun(r) PROVE RolledBack(wid[r])
    <2>1. pc[r] = "undo" /\ undoing[r] = 0
      BY <1>2 DEF FailRun
    <2>2. HasStep(wid[r], r, pos[r] + 1, "failed")
      BY <2>1 DEF AuditInvariant, Trail
    <2>3. PICK i \in DOMAIN stepRows[wid[r]] :
            stepRows[wid[r]][i] = [run |-> r, step |-> pos[r] + 1, status |-> "failed"]
      BY <2>2 DEF HasStep
    <2>4. Undone(r) = {s \in Compensable : 0 < s /\ s <= pos[r]}
      BY <2>1 DEF RunInvariant, UndoneSoFar
    <2>5. \A s \in Compensable : s < pos[r] + 1 => 0 < s /\ s <= pos[r]
      <3>1. pos[r] \in Nat /\ Compensable \subseteq 1..StepCount /\ StepCount \in Nat
        BY StepsAssumption DEF TypeOK
      <3> QED
        BY <3>1
    <2>6. {s \in Compensable : s < pos[r] + 1} \subseteq Undone(r)
      BY <2>4, <2>5
    <2> QED
      BY <2>3, <2>6 DEF RolledBack
  <1> QED
    BY <1>1, <1>2

\* Every step keeps the evidence behind completed and failed rows.
LEMMA RowsAudited ==
    ASSUME TypeOK, RunInvariant, AuditInvariant, [Next]_vars
    PROVE  CompletedRowAudited' /\ FailedRowAudited'
  <1> SUFFICES ASSUME NEW w \in Workflows
               PROVE  /\ wf'[w].status = "completed" => FullRun(w)'
                      /\ wf'[w].status = "failed" => RolledBack(w)'
    BY DEF CompletedRowAudited, FailedRowAudited, FullRun, RolledBack, HasStep
  <1>0. /\ wf[w].status = "completed" => FullRun(w)
        /\ wf[w].status = "failed" => RolledBack(w)
    BY DEF AuditInvariant, CompletedRowAudited, FailedRowAudited, FullRun, RolledBack, HasStep
  <1>1. CASE wf'[w].status = wf[w].status \/ wf'[w].status \notin {"completed", "failed"}
    BY <1>0, <1>1, EvidenceStays
  <1>2. ASSUME NEW r \in Runs, RunStep(r)
        PROVE  /\ wf'[w].status = "completed" => FullRun(w)'
               /\ wf'[w].status = "failed" => RolledBack(w)'
    <2>1. CASE w = wid[r] /\ CompleteRun(r) /\ wf'[w].status = "completed"
      BY <2>1, EndHasEvidence, EvidenceStays
    <2>2. CASE w = wid[r] /\ FailRun(r) /\ wf'[w].status = "failed"
      BY <2>2, EndHasEvidence, EvidenceStays
    <2> QED
      BY <1>1, <1>2, <2>1, <2>2, StatusWritten
  <1>3. ASSUME NEW v \in Workflows, NEW f \in 0..StepCount, CreateWorkflow(v, f)
        PROVE  wf'[w].status = wf[w].status \/ wf'[w].status \notin {"completed", "failed"}
    <2> DEFINE row == [NoRow EXCEPT !.status = "pending", !.failStep = f]
    <2>1. row.status = "pending"
      BY DEF NoRow
    <2>2. wf' = [wf EXCEPT ![v] = row]
      BY <1>3 DEF CreateWorkflow
    <2> HIDE DEF row
    <2> QED
      BY <2>1, <2>2 DEF TypeOK
  <1>4. CASE \/ \E r \in Runs, v \in Workflows : RunWorkflow(r, v)
             \/ \E v \in Workflows : ExpireLock(v)
             \/ \E g \in Gateways : Crash(g)
             \/ UNCHANGED vars
    BY <1>4, <1>1 DEF RunWorkflow, ExpireLock, Crash, vars, tables
  <1> QED
    BY <1>1, <1>2, <1>3, <1>4 DEF Next

\* A run's own statements keep its trail.
LEMMA TrailRunStep ==
    ASSUME TypeOK, RunInvariant, AuditInvariant, NEW r \in Runs, RunStep(r)
    PROVE  Trail(r)'
  <1> DEFINE Looping == {"step", "exec", "record", "compensate", "undo"}
  <1>t. Trail(r)
    BY DEF AuditInvariant
  <1>w. pc[r] # "idle" => wid[r] \in Workflows
    BY DEF TypeOK
  <1>n. [Next]_vars
    BY DEF Next
  <1>p. pos[r] \in Nat /\ loc[r] \in Row /\ pc \in [Runs -> PC] /\ loc \in [Runs -> Row]
        /\ pos \in [Runs -> 0..StepCount]
    BY StepsAssumption DEF TypeOK
  <1>a. wid' = wid
    BY DEF RunStep, GetWorkflow, GetWorkflowError, LockWorkflow, LockRefused, LockError,
        MarkRunning, BeginStep, ExecuteStep, ExecuteStepFails, CreateWorkflowStep,
        CreateWorkflowStepError, CompleteRun, StartCompensation, UndoStep, FailRun,
        UnlockWorkflow, local
  <1>h. \A s, st : pc[r] # "idle" /\ HasStep(wid[r], r, s, st) => HasStep(wid[r], r, s, st)'
    <2> SUFFICES ASSUME NEW s, NEW st, pc[r] # "idle", HasStep(wid[r], r, s, st)
                 PROVE  HasStep(wid[r], r, s, st)'
      OBVIOUS
    <2>1. PICK w \in Workflows : w = wid[r]
      BY <1>w
    <2>2. HasStep(w, r, s, st)'
      BY <2>1, <1>n, HasStepStays
    <2> QED
      BY <2>1, <2>2, <1>a DEF HasStep
  \* Statements that stay in the loop with the same steps behind them.
  <1>same. ASSUME pos' = pos, pc[r] \in Looping, pc'[r] \in Looping,
                  pc'[r] \in {"compensate", "undo"} => pc[r] \in {"compensate", "undo"},
                  pc'[r] \in {"step", "exec", "record"} => loc'[r].status = "running"
           PROVE  Trail(r)'
    BY <1>t, <1>h, <1>same DEF Trail
  \* Statements that are outside of the loop.
  <1>out. ASSUME pc'[r] \notin Looping PROVE Trail(r)'
    BY <1>out DEF Trail
  <1>1. CASE MarkRunning(r)
    <2>1. pos[r] = 0 /\ pos' = pos
      BY <1>1 DEF MarkRunning, RunInvariant, EffectsSoFar
    <2>2. pc'[r] = "step"
      BY <1>1, <1>p DEF MarkRunning, Goto
    <2>3. loc'[r] = [loc[r] EXCEPT !.status = "running"]
      BY <1>1, <1>p DEF MarkRunning, UpdateWorkflow
    <2>4. loc'[r].status = "running"
      BY <2>3, <1>p DEF Row
    <2> QED
      BY <2>1, <2>2, <2>4 DEF Trail
  <1>2. CASE BeginStep(r)
    <2>1. pos' = pos /\ pc[r] = "step" /\ pc'[r] = "exec"
      BY <1>2, <1>p DEF BeginStep, Goto
    <2>2. loc'[r] = [loc[r] EXCEPT !.step = pos[r] + 1]
      BY <1>2, <1>p DEF BeginStep, UpdateWorkflow
    <2>3. loc'[r].status = "running"
      BY <2>1, <2>2, <1>p, <1>t DEF Row, Trail
    <2> QED
      BY <2>1, <2>3, <1>same
  <1>3. CASE ExecuteStep(r) \/ ExecuteStepFails(r)
    <2>1. pos' = pos /\ pc[r] = "exec" /\ pc'[r] = "record" /\ loc' = loc
      BY <1>3, <1>p DEF ExecuteStep, ExecuteStepFails, Goto, local
    <2> QED
      BY <2>1, <1>t, <1>same DEF Trail
  <1>4. CASE CreateWorkflowStep(r)
    <2>0. pc[r] = "record" /\ loc' = loc
      BY <1>4 DEF CreateWorkflowStep
    <2>k. PICK k, st : k = pos[r] + 1 /\ st = outcome[r]
      OBVIOUS
    <2>1. HasStep(wid[r], r, k, st)'
      <3> DEFINE row == [run |-> r, step |-> pos[r] + 1, status |-> outcome[r]]
      <3>1. stepRows' = [stepRows EXCEPT ![wid[r]] = Append(@, row)]
        BY <1>4 DEF CreateWorkflowStep, InsertStepRow
      <3> HIDE DEF row
      <3>2. stepRows \in [Workflows -> Seq(StepRow)] /\ wid[r] \in Workflows
        BY <2>0, <1>w DEF TypeOK
      <3>3. PICK i \in DOMAIN stepRows'[wid[r]] : stepRows'[wid[r]][i] = row
        BY <3>1, <3>2
      <3> QED
        BY <3>3, <2>k, <1>a DEF HasStep, row
    <2>2. \A s \in 1..pos[r] : HasStep(wid[r], r, s, "completed")'
      BY <2>0, <1>t, <1>h DEF Trail
    <2>3. CASE outcome[r] = "failed"
      <3>1. pc'[r] = "compensate" /\ pos' = pos
        BY <1>4, <2>3, <1>p DEF CreateWorkflowStep, Goto
      <3> QED
        BY <3>1, <2>k, <2>1, <2>2, <2>3, <1>a DEF Trail, HasStep
    <2>4. CASE outcome[r] = "completed"
      <3>1. pc'[r] = "step" /\ pos'[r] = pos[r] + 1
        BY <1>4, <2>4, <1>p DEF CreateWorkflowStep, Goto
      <3>2. \A s \in 1..pos'[r] : s \in 1..pos[r] \/ s = pos[r] + 1
        BY <3>1, <1>p
      <3>3. \A s \in 1..pos'[r] : HasStep(wid[r], r, s, "completed")'
        BY <2>k, <2>1, <2>2, <2>4, <3>2 DEF HasStep
      <3>4. loc'[r].status = "running"
        BY <2>0, <1>t DEF Trail
      <3> QED
        BY <3>1, <3>3, <3>4, <1>a DEF Trail
    <2> QED
      BY <1>4, <2>3, <2>4 DEF CreateWorkflowStep
  <1>5. CASE StartCompensation(r)
    <2>1. pos' = pos /\ pc[r] = "compensate" /\ pc'[r] = "undo"
      BY <1>5, <1>p DEF StartCompensation, Goto
    <2> QED
      BY <2>1, <1>same
  <1>6. CASE UndoStep(r)
    <2>1. pos' = pos /\ pc[r] = "undo" /\ pc' = pc
      BY <1>6 DEF UndoStep
    <2> QED
      BY <2>1, <1>same
  <1>7. CASE \/ GetWorkflow(r) \/ GetWorkflowError(r) \/ LockWorkflow(r) \/ LockRefused(r)
             \/ LockError(r) \/ CreateWorkflowStepError(r) \/ CompleteRun(r) \/ FailRun(r)
             \/ UnlockWorkflow(r)
    <2>1. pc'[r] \in {"lock", "done", "mark", "unlock"}
      BY <1>7, <1>p DEF GetWorkflow, GetWorkflowError, LockWorkflow, LockRefused, LockError,
          CreateWorkflowStepError, CompleteRun, FailRun, UnlockWorkflow, Goto
    <2> QED
      BY <2>1, <1>out
  <1> QED
    BY <1>1, <1>2, <1>3, <1>4, <1>5, <1>6, <1>7 DEF RunStep

\* Every step preserves AuditInvariant.
LEMMA AuditNext ==
    TypeOK /\ RunInvariant /\ AuditInvariant /\ [Next]_vars => AuditInvariant'
  <1> SUFFICES ASSUME TypeOK, RunInvariant, AuditInvariant, [Next]_vars
               PROVE  AuditInvariant'
    OBVIOUS
  <1> SUFFICES ASSUME NEW q \in Runs PROVE Trail(q)'
    BY RowsAudited DEF AuditInvariant
  <1>t. Trail(q)
    BY DEF AuditInvariant
  <1>w. pc[q] # "idle" => wid[q] \in Workflows
    BY DEF TypeOK
  <1>same. ASSUME pc'[q] \in {pc[q], "crashed"}, pos'[q] = pos[q], loc'[q] = loc[q], wid'[q] = wid[q]
           PROVE  Trail(q)'
    <2>1. CASE pc'[q] = "crashed"
      BY <2>1 DEF Trail
    <2>2. CASE pc'[q] = pc[q] /\ pc[q] # "idle"
      <3>1. PICK w \in Workflows : w = wid[q]
        BY <2>2, <1>w
      <3>2. \A s, st : HasStep(w, q, s, st) => HasStep(w, q, s, st)'
        BY HasStepStays
      <3>3. \A s, st : HasStep(wid[q], q, s, st) => HasStep(wid[q], q, s, st)'
        BY <3>1, <3>2, <1>same DEF HasStep
      <3> QED
        BY <2>2, <3>3, <1>t, <1>same DEF Trail
    <2>3. CASE pc'[q] = "idle"
      BY <2>3 DEF Trail
    <2> QED
      BY <1>same, <2>1, <2>2, <2>3
  <1>1. ASSUME NEW r \in Runs, RunStep(r)
        PROVE  Trail(q)'
    <2>1. CASE q # r
      BY <1>1, <2>1, <1>same, OthersUntouched, CopiesUntouched DEF Footprint
    <2>2. CASE q = r
      BY <1>1, <2>2, TrailRunStep
    <2> QED
      BY <2>1, <2>2
  <1>2. ASSUME NEW r \in Runs, NEW w \in Workflows, RunWorkflow(r, w)
        PROVE  Trail(q)'
    <2>1. CASE q # r
      BY <1>2, <2>1, <1>same DEF RunWorkflow, Goto, TypeOK
    <2>2. CASE q = r
      <3>1. pc'[q] = "load"
        BY <1>2, <2>2 DEF RunWorkflow, Goto, TypeOK
      <3> QED
        BY <3>1 DEF Trail
    <2> QED
      BY <2>1, <2>2
  <1>3. ASSUME NEW g \in Gateways, Crash(g)
        PROVE  Trail(q)'
    BY <1>3, <1>same DEF Crash, local
  <1>4. CASE \/ \E w \in Workflows, f \in 0..StepCount : CreateWorkflow(w, f)
             \/ \E w \in Workflows : ExpireLock(w)
             \/ UNCHANGED vars
    BY <1>4, <1>same DEF CreateWorkflow, ExpireLock, vars, local
  <1> QED
    BY <1>1, <1>2, <1>3, <1>4 DEF Next

\* AuditInvariant holds in every reachable state.
THEOREM AuditHolds == Spec => []AuditInvariant
  <1>1. Init => TypeOK /\ RunInvariant /\ AuditInvariant
    <2>1. Init => AuditInvariant
      BY DEF Init, AuditInvariant, CompletedRowAudited, FailedRowAudited, Trail, NoRow
    <2> QED
      BY <2>1, TypeInit, RunInvariantInit
  <1>2. TypeOK /\ RunInvariant /\ AuditInvariant /\ [Next]_vars
          => (TypeOK /\ RunInvariant /\ AuditInvariant)'
    BY TypeNext, RunInvariantNext, AuditNext
  <1> QED
    BY <1>1, <1>2, PTL DEF Spec

\* A row says "completed" only when one run has recorded every step, although
\* every error of UpdateWorkflow is discarded.
THEOREM CompletedAudited == Spec => []CompletedRowAudited
  <1>1. AuditInvariant => CompletedRowAudited
    BY DEF AuditInvariant
  <1> QED
    BY <1>1, AuditHolds, PTL

\* A row says "failed" only when one run has recorded a failed step and has
\* called the compensation of every compensable step before it.
THEOREM FailedAudited == Spec => []FailedRowAudited
  <1>1. AuditInvariant => FailedRowAudited
    BY DEF AuditInvariant
  <1> QED
    BY <1>1, AuditHolds, PTL

-----------------------------------------------------------------------------
(* The step table *)

\* Where a run has recorded nothing yet.
Fresh(r) ==
    pc[r] \in {"idle", "load", "lock", "mark"} =>
        \A w \in Workflows : \A i \in DOMAIN stepRows[w] : stepRows[w][i].run # r

\* While a run is in the loop, its rows are among the last pos[r] of its
\* workflow, each at the place of its step and completed.
LastRows(r) ==
    LET rows == stepRows[wid[r]]
        skip == Len(rows) - pos[r] IN
    pc[r] \in {"step", "exec", "record"} =>
        \A i \in DOMAIN rows :
            rows[i].run = r => /\ i > skip
                               /\ rows[i].step = i - skip
                               /\ rows[i].status = "completed"

\* Inductive strengthening of StepRowsSequential, given SingleExecutor.
SequentialInvariant ==
    /\ StepRowsSequential
    /\ \A r \in Runs : Fresh(r) /\ LastRows(r)

\* A table nobody has written to keeps its order, and so do the rows of a run
\* that stays in the loop at the same step.
LEMMA LastRowsStay ==
    ASSUME NEW q \in Runs, LastRows(q), pos'[q] = pos[q], wid'[q] = wid[q],
           stepRows'[wid[q]] = stepRows[wid[q]],
           pc'[q] \in {"step", "exec", "record"} => pc[q] \in {"step", "exec", "record"}
    PROVE  LastRows(q)'
  BY DEF LastRows

\* INSERT INTO workflow_steps by the run that holds the lock.
LEMMA InsertKeepsOrder ==
    ASSUME TypeOK, SequentialInvariant, NEW r \in Runs, pc[r] = "record", InsertStepRow(r),
           wid' = wid
    PROVE  /\ StepRowsSequential'
           /\ \A q \in Runs : q # r =>
                \A w \in Workflows : \A i \in DOMAIN stepRows'[w] :
                  stepRows'[w][i].run = q => i \in DOMAIN stepRows[w] /\ stepRows[w][i].run = q
           /\ \A w \in Workflows : w # wid[r] => stepRows'[w] = stepRows[w]
           /\ outcome[r] = "completed" /\ pos'[r] = pos[r] + 1 => LastRows(r)'
  <1>1. PICK w \in Workflows : w = wid[r]
    BY DEF TypeOK
  <1>2. PICK s \in Seq(StepRow) : s = stepRows[w]
    BY DEF TypeOK
  <1>3. PICK k \in Nat : k = pos[r]
    BY StepsAssumption DEF TypeOK
  <1> DEFINE row == [run |-> r, step |-> k + 1, status |-> outcome[r]]
  <1>4. row \in StepRow /\ row.run = r /\ row.step = k + 1 /\ row.status = outcome[r]
    <2>1. k + 1 \in Steps /\ outcome[r] \in {"completed", "failed"}
      BY <1>3, StepsAssumption DEF TypeOK, Steps
    <2> QED
      BY <2>1 DEF StepRow
  <1>5. stepRows' = [stepRows EXCEPT ![w] = Append(s, row)]
    BY <1>1, <1>2, <1>3 DEF InsertStepRow
  <1> HIDE DEF row
  <1>6. stepRows'[w] = Append(s, row) /\ \A v \in Workflows : v # w => stepRows'[v] = stepRows[v]
    BY <1>5 DEF TypeOK
  <1> DEFINE n == Len(s)
             t == Append(s, row)
  <1>7. /\ n \in Nat /\ DOMAIN s = 1..n /\ DOMAIN t = 1..(n + 1) /\ Len(t) = n + 1
        /\ t[n + 1] = row
        /\ \A i \in 1..n : t[i] = s[i]
    BY <1>4
  <1>8. \A i \in 1..n : s[i].run = r =>
           i > n - k /\ s[i].step = i - (n - k) /\ s[i].status = "completed"
    <2>1. LastRows(r)
      BY DEF SequentialInvariant
    <2> QED
      BY <1>1, <1>2, <1>3, <1>7, <2>1 DEF LastRows
  <1>9. \A i, j \in 1..n : i < j /\ s[i].run = s[j].run
                           => s[i].status = "completed" /\ s[j].step = s[i].step + (j - i)
    BY <1>2, <1>7 DEF SequentialInvariant, StepRowsSequential
  <1> HIDE DEF n, t
  <1>10. \A i, j \in 1..(n + 1) : i < j /\ t[i].run = t[j].run
                                  => t[i].status = "completed" /\ t[j].step = t[i].step + (j - i)
    <2> SUFFICES ASSUME NEW i \in 1..(n + 1), NEW j \in 1..(n + 1), i < j, t[i].run = t[j].run
                 PROVE  t[i].status = "completed" /\ t[j].step = t[i].step + (j - i)
      OBVIOUS
    <2>1. i \in 1..n /\ t[i] = s[i]
      BY <1>7
    <2>2. CASE j = n + 1
      <3>1. t[j] = row /\ s[i].run = r
        BY <1>4, <1>7, <2>1, <2>2
      <3>2. s[i].step = i - (n - k) /\ s[i].status = "completed"
        BY <1>8, <2>1, <3>1
      <3> QED
        BY <1>4, <1>7, <2>1, <2>2, <3>1, <3>2
    <2>3. CASE j # n + 1
      BY <1>7, <1>9, <2>1, <2>3
    <2> QED
      BY <2>2, <2>3
  <1>11. StepRowsSequential'
    <2> SUFFICES ASSUME NEW v \in Workflows
                 PROVE  (\A i, j \in DOMAIN stepRows[v] :
                           i < j /\ stepRows[v][i].run = stepRows[v][j].run
                           => /\ stepRows[v][i].status = "completed"
                              /\ stepRows[v][j].step = stepRows[v][i].step + (j - i))'
      BY DEF StepRowsSequential
    <2>1. CASE v = w
      BY <1>6, <1>7, <1>10, <2>1 DEF t
    <2>2. CASE v # w
      BY <1>6, <2>2 DEF SequentialInvariant, StepRowsSequential
    <2> QED
      BY <2>1, <2>2
  <1>12. ASSUME NEW q \in Runs, q # r, NEW v \in Workflows, NEW i \in DOMAIN stepRows'[v],
                stepRows'[v][i].run = q
         PROVE  i \in DOMAIN stepRows[v] /\ stepRows[v][i].run = q
    <2>1. CASE v = w
      <3>1. i \in 1..(n + 1) /\ t[i].run = q
        BY <1>6, <1>7, <1>12, <2>1 DEF t
      <3>2. i # n + 1
        BY <1>4, <1>7, <1>12, <3>1
      <3> QED
        BY <1>2, <1>7, <2>1, <3>1, <3>2
    <2>2. CASE v # w
      BY <1>6, <1>12, <2>2
    <2> QED
      BY <2>1, <2>2
  <1>13. ASSUME outcome[r] = "completed", pos'[r] = pos[r] + 1 PROVE LastRows(r)'
    <2>1. stepRows'[wid'[r]] = t /\ pos'[r] = k + 1 /\ Len(t) - (k + 1) = n - k
      BY <1>1, <1>3, <1>6, <1>7, <1>13 DEF t
    <2>2. ASSUME NEW i \in 1..(n + 1), t[i].run = r
          PROVE  i > n - k /\ t[i].step = i - (n - k) /\ t[i].status = "completed"
      <3>1. CASE i = n + 1
        BY <1>4, <1>7, <1>13, <3>1
      <3>2. CASE i # n + 1
        BY <1>7, <1>8, <2>2, <3>2
      <3> QED
        BY <3>1, <3>2
    <2> QED
      BY <1>7, <2>1, <2>2 DEF LastRows
  <1> QED
    BY <1>1, <1>6, <1>11, <1>12, <1>13

\* Every statement of a run keeps the table in order.
LEMMA SequentialRunStep ==
    ASSUME TypeOK, SingleExecutor, SequentialInvariant, NEW r \in Runs, EffectsSoFar(r), RunStep(r)
    PROVE  SequentialInvariant'
  <1>t. pc \in [Runs -> PC] /\ pos \in [Runs -> 0..StepCount]
    BY DEF TypeOK
  <1>w. wid' = wid
    BY DEF RunStep, GetWorkflow, GetWorkflowError, LockWorkflow, LockRefused, LockError,
        MarkRunning, BeginStep, ExecuteStep, ExecuteStepFails, CreateWorkflowStep,
        CreateWorkflowStepError, CompleteRun, StartCompensation, UndoStep, FailRun,
        UnlockWorkflow, local
  <1>o. \A q \in Runs : q # r => pc'[q] = pc[q] /\ pos'[q] = pos[q]
    BY OthersUntouched DEF Footprint
  <1>1. CASE stepRows' = stepRows
    <2>1. StepRowsSequential'
      BY <1>1 DEF SequentialInvariant, StepRowsSequential
    <2>2. ASSUME NEW q \in Runs, q # r PROVE Fresh(q)' /\ LastRows(q)'
      <3>1. Fresh(q) /\ LastRows(q)
        BY DEF SequentialInvariant
      <3>2. Fresh(q)'
        BY <1>1, <1>o, <2>2, <3>1 DEF Fresh
      <3> QED
        BY <1>1, <1>o, <1>w, <2>2, <3>1, <3>2, LastRowsStay
    <2>3. Fresh(r) /\ LastRows(r)
      BY DEF SequentialInvariant
    <2>4. pc'[r] \in {"idle", "load", "lock", "mark"} => pc[r] \in {"idle", "load", "lock", "mark"}
      BY <1>t DEF RunStep, GetWorkflow, GetWorkflowError, LockWorkflow, LockRefused, LockError,
        MarkRunning, BeginStep, ExecuteStep, ExecuteStepFails, CreateWorkflowStep,
        CreateWorkflowStepError, CompleteRun, StartCompensation, UndoStep, FailRun,
        UnlockWorkflow, Goto
    <2>5. Fresh(r)'
      BY <1>1, <2>3, <2>4 DEF Fresh
    <2>6. LastRows(r)'
      <3>1. CASE MarkRunning(r)
        <4>1. pc[r] = "mark" /\ wid[r] \in Workflows
          BY <3>1 DEF MarkRunning, TypeOK
        <4> QED
          BY <1>1, <1>w, <2>3, <4>1 DEF Fresh, LastRows
      <3>2. CASE CreateWorkflowStep(r)
        <4>1. pc[r] = "record" /\ InsertStepRow(r) /\ wid[r] \in Workflows
          BY <3>2 DEF CreateWorkflowStep, TypeOK
        <4>2. stepRows[wid[r]] \in Seq(StepRow)
          BY <4>1 DEF TypeOK
        <4>3. stepRows'[wid[r]] = Append(stepRows[wid[r]], [run |-> r, step |-> pos[r] + 1, status |-> outcome[r]])
          BY <4>1 DEF InsertStepRow, TypeOK
        <4> DEFINE row == [run |-> r, step |-> pos[r] + 1, status |-> outcome[r]]
        <4> HIDE DEF row
        <4>4. stepRows'[wid[r]] = Append(stepRows[wid[r]], row)
          BY <4>3 DEF row
        <4>5. Len(Append(stepRows[wid[r]], row)) = Len(stepRows[wid[r]]) + 1 /\ Len(stepRows[wid[r]]) \in Nat
          BY <4>2
        <4> QED
          BY <1>1, <4>4, <4>5
      <3>3. CASE ~MarkRunning(r) /\ ~CreateWorkflowStep(r)
        <4>1. /\ pos' = pos
              /\ pc'[r] \in {"step", "exec", "record"} => pc[r] \in {"step", "exec", "record"}
          BY <1>t, <3>3 DEF RunStep, GetWorkflow, GetWorkflowError, LockWorkflow, LockRefused, LockError,
            BeginStep, ExecuteStep, ExecuteStepFails,
            CreateWorkflowStepError, CompleteRun, StartCompensation, UndoStep, FailRun,
            UnlockWorkflow, Goto, local
        <4> QED
          BY <1>1, <1>w, <2>3, <4>1, LastRowsStay
      <3> QED
        BY <3>1, <3>2, <3>3
    <2> QED
      BY <2>1, <2>2, <2>5, <2>6 DEF SequentialInvariant
  <1>2. CASE pc[r] = "record" /\ InsertStepRow(r)
    <2>1. CreateWorkflowStep(r) \/ CreateWorkflowStepError(r)
      BY <1>2 DEF RunStep, GetWorkflow, GetWorkflowError, LockWorkflow, LockRefused, LockError,
        MarkRunning, BeginStep, ExecuteStep, ExecuteStepFails, CompleteRun, StartCompensation,
        UndoStep, FailRun, UnlockWorkflow
    <2>2. /\ pc'[r] \in {"compensate", "step", "unlock"}
          /\ pc'[r] = "step" => outcome[r] = "completed" /\ pos'[r] = pos[r] + 1
      BY <1>t, <2>1 DEF CreateWorkflowStep, CreateWorkflowStepError, Goto
    <2>3. Fresh(r)' /\ LastRows(r)'
      <3>1. Fresh(r)'
        BY <2>2 DEF Fresh
      <3>2. CASE pc'[r] = "step"
        BY <1>2, <1>w, <2>2, <3>1, <3>2, InsertKeepsOrder
      <3>3. CASE pc'[r] # "step"
        BY <2>2, <3>1, <3>3 DEF LastRows
      <3> QED
        BY <3>2, <3>3
    <2>4. ASSUME NEW q \in Runs, q # r PROVE Fresh(q)' /\ LastRows(q)'
      <3>1. Fresh(q) /\ LastRows(q)
        BY DEF SequentialInvariant
      <3>2. Fresh(q)'
        <4>1. \A w \in Workflows : \A i \in DOMAIN stepRows'[w] :
                stepRows'[w][i].run = q => i \in DOMAIN stepRows[w] /\ stepRows[w][i].run = q
          BY <1>2, <1>w, <2>4, InsertKeepsOrder
        <4> QED
          BY <1>o, <2>4, <3>1, <4>1 DEF Fresh
      <3>3. CASE pc[q] \in {"step", "exec", "record"}
        <4>1. wid[q] # wid[r] /\ wid[q] \in Workflows
          BY <1>2, <2>4, <3>3 DEF SingleExecutor, Locked, LockedPC, TypeOK
        <4>2. stepRows'[wid[q]] = stepRows[wid[q]]
          BY <1>2, <1>w, <4>1, InsertKeepsOrder
        <4> QED
          BY <1>o, <1>w, <2>4, <3>1, <3>2, <4>2, LastRowsStay
      <3>4. CASE pc[q] \notin {"step", "exec", "record"}
        BY <1>o, <2>4, <3>2, <3>4 DEF LastRows
      <3> QED
        BY <3>3, <3>4
    <2>5. StepRowsSequential'
      BY <1>2, <1>w, InsertKeepsOrder
    <2> QED
      BY <2>3, <2>4, <2>5 DEF SequentialInvariant
  <1> QED
    <2>1. stepRows' = stepRows \/ (pc[r] = "record" /\ InsertStepRow(r))
      BY DEF RunStep, GetWorkflow, GetWorkflowError, LockWorkflow, LockRefused, LockError,
        MarkRunning, BeginStep, ExecuteStep, ExecuteStepFails, CreateWorkflowStep,
        CreateWorkflowStepError, CompleteRun, StartCompensation, UndoStep, FailRun,
        UnlockWorkflow, tables
    <2> QED
      BY <1>1, <1>2, <2>1

\* So does every other step: none of them inserts a row or enters the loop.
LEMMA SequentialNext ==
    ASSUME TypeOK, RunInvariant, SingleExecutor, SequentialInvariant, [Next]_vars
    PROVE  SequentialInvariant'
  <1>1. ASSUME NEW r \in Runs, RunStep(r) PROVE SequentialInvariant'
    BY <1>1, SequentialRunStep DEF RunInvariant
  <1>2. ASSUME stepRows' = stepRows, pos' = pos,
               \A q \in Runs : \/ pc'[q] = pc[q] /\ wid'[q] = wid[q]
                               \/ pc[q] = "idle" /\ pc'[q] = "load"
                               \/ pc'[q] = "crashed"
        PROVE  SequentialInvariant'
    <2>1. StepRowsSequential'
      BY <1>2 DEF SequentialInvariant, StepRowsSequential
    <2>2. ASSUME NEW q \in Runs PROVE Fresh(q)' /\ LastRows(q)'
      <3>1. Fresh(q) /\ LastRows(q)
        BY DEF SequentialInvariant
      <3>2. Fresh(q)'
        BY <1>2, <3>1 DEF Fresh
      <3>3. CASE pc'[q] \in {"step", "exec", "record"}
        <4>1. pc'[q] = pc[q] /\ wid'[q] = wid[q]
          BY <1>2, <3>3
        <4> QED
          BY <1>2, <3>1, <3>2, <4>1, LastRowsStay
      <3>4. CASE pc'[q] \notin {"step", "exec", "record"}
        BY <3>2, <3>4 DEF LastRows
      <3> QED
        BY <3>3, <3>4
    <2> QED
      BY <2>1, <2>2 DEF SequentialInvariant
  <1>t. pc \in [Runs -> PC] /\ wid \in [Runs -> Workflows \cup {NoWorkflow}]
    BY DEF TypeOK
  <1>3. CASE \/ (\E w \in Workflows, f \in 0..StepCount : CreateWorkflow(w, f))
             \/ (\E w \in Workflows : ExpireLock(w)) \/ UNCHANGED vars
    BY <1>2, <1>3 DEF CreateWorkflow, ExpireLock, vars, tables, local
  <1>4. ASSUME NEW r \in Runs, NEW w \in Workflows, RunWorkflow(r, w) PROVE SequentialInvariant'
    BY <1>2, <1>4, <1>t DEF RunWorkflow, Goto, tables
  <1>5. ASSUME NEW g \in Gateways, Crash(g) PROVE SequentialInvariant'
    BY <1>2, <1>5 DEF Crash, tables, local
  <1> QED
    BY <1>1, <1>3, <1>4, <1>5 DEF Next

\* workflow_steps reads as one run after another, as long as the lease outlives
\* the run, also when an INSERT that reported an error was applied after all.
THEOREM StepsSequential ==
    ASSUME LeaseOutlivesRun PROVE Spec => []StepRowsSequential
  <1>1. Init => SequentialInvariant
    BY DEF Init, SequentialInvariant, StepRowsSequential, Fresh, LastRows
  <1>2. TypeOK /\ RunInvariant /\ SingleExecutor /\ SequentialInvariant /\ [Next]_vars
        => SequentialInvariant'
    BY SequentialNext
  <1>3. SequentialInvariant => StepRowsSequential
    BY DEF SequentialInvariant
  <1> QED
    BY <1>1, <1>2, <1>3, TypeCorrect, RunInvariantHolds, MutualExclusion, PTL DEF Spec

-----------------------------------------------------------------------------
(* The status graph *)

\* The row as the run that holds the lock has left it.
RowAgrees(r) ==
    /\ pc[r] \in {"lock"} \cup LockedPC => wf[wid[r]].status # "absent"
    /\ pc[r] \in {"step", "exec", "record", "compensate"} => wf[wid[r]].status = "running"
    /\ pc[r] = "undo" => wf[wid[r]].status = "compensating"

\* What a step may do to the status of a row.
Edge(w) ==
    wf'[w].status # wf[w].status =>
        \/ OnGraph(w)
        \/ wf'[w].status = "running" /\ \E r \in Runs : TakesOver(r, w)

\* When PostgreSQL answers, what a run writes is what the row becomes.
LEMMA WrittenStatus ==
    ASSUME ~StoreMayFail, TypeOK, NEW r \in Runs, wid[r] \in Workflows,
           NEW row, UpdateWorkflow(r, row)
    PROVE  /\ wf'[wid[r]].status = row.status
           /\ \A w \in Workflows : w # wid[r] => wf'[w] = wf[w]
  BY DEF TypeOK, UpdateWorkflow

\* A step that changes no row and moves a run to a point that asks for no more
\* keeps the agreement.
LEMMA AgreesStays ==
    ASSUME NEW q \in Runs, RowAgrees(q), wid'[q] = wid[q], wf'[wid[q]].status = wf[wid[q]].status,
           \/ pc'[q] = pc[q]
           \/ pc'[q] \notin {"lock"} \cup LockedPC
           \/ pc[q] = "lock" /\ pc'[q] = "mark"
           \/ pc[q] \in LockedPC /\ pc'[q] = "unlock"
           \/ pc[q] \in {"step", "exec", "record"} /\ pc'[q] \in {"step", "exec", "record", "compensate"}
    PROVE  RowAgrees(q)'
  BY DEF RowAgrees, LockedPC

\* Every statement of a run keeps the agreement of its own copy and moves its
\* row along an edge.
LEMMA RunStepEdge ==
    ASSUME ~StoreMayFail, TypeOK, NEW r \in Runs, RowAgrees(r), Trail(r), RunStep(r)
    PROVE  /\ RowAgrees(r)' /\ Edge(wid[r])
           /\ \A w \in Workflows : w # wid[r] \/ ~Locked(r) => wf'[w] = wf[w]
  <1>t. /\ pc \in [Runs -> PC] /\ loc[r] \in Row /\ wid[r] \in Workflows /\ wf[wid[r]] \in Row
        /\ loc[r].status \in Status /\ wf[wid[r]].status \in Status
    <2>1. pc[r] # "idle"
      BY DEF RunStep, GetWorkflow, GetWorkflowError, LockWorkflow, LockRefused, LockError,
             MarkRunning, BeginStep, ExecuteStep, ExecuteStepFails, CreateWorkflowStep,
             CreateWorkflowStepError, CompleteRun, StartCompensation, UndoStep, FailRun,
             UnlockWorkflow
    <2>2. pc \in [Runs -> PC] /\ loc[r] \in Row /\ wid[r] \in Workflows /\ wf[wid[r]] \in Row
      BY <2>1 DEF TypeOK
    <2> QED
      BY <2>2 DEF Row
  <1>w. wid' = wid
    BY DEF RunStep, GetWorkflow, GetWorkflowError, LockWorkflow, LockRefused, LockError,
        MarkRunning, BeginStep, ExecuteStep, ExecuteStepFails, CreateWorkflowStep,
        CreateWorkflowStepError, CompleteRun, StartCompensation, UndoStep, FailRun,
        UnlockWorkflow, local
  <1>u. ASSUME wf' = wf,
               \/ pc'[r] = pc[r]
               \/ pc'[r] \notin {"lock"} \cup LockedPC
               \/ pc[r] = "lock" /\ pc'[r] = "mark"
               \/ pc[r] \in LockedPC /\ pc'[r] = "unlock"
               \/ pc[r] \in {"step", "exec", "record"} /\ pc'[r] \in {"step", "exec", "record", "compensate"}
        PROVE  /\ RowAgrees(r)' /\ Edge(wid[r])
               /\ \A w \in Workflows : wf'[w] = wf[w]
    BY <1>u, <1>w, AgreesStays DEF Edge
  <1>1. CASE GetWorkflow(r)
    <2>1. wf' = wf /\ wf[wid[r]].status # "absent" /\ pc'[r] = "lock"
      BY <1>1, <1>t DEF GetWorkflow, Goto, tables
    <2> QED
      BY <1>w, <2>1 DEF RowAgrees, LockedPC, Edge
  <1>2. CASE \/ GetWorkflowError(r) \/ LockWorkflow(r) \/ LockRefused(r) \/ LockError(r)
             \/ UnlockWorkflow(r)
    <2>1. wf' = wf /\ (pc'[r] = "done" \/ (pc[r] = "lock" /\ pc'[r] = "mark"))
      BY <1>2, <1>t
      DEF GetWorkflowError, LockWorkflow, LockRefused, LockError, UnlockWorkflow, Goto, tables
    <2> QED
      BY <1>u, <2>1 DEF LockedPC
  <1>3. CASE \/ ExecuteStep(r) \/ ExecuteStepFails(r) \/ CreateWorkflowStep(r)
             \/ CreateWorkflowStepError(r) \/ UndoStep(r)
    <2>1. /\ wf' = wf
          /\ \/ pc' = pc
             \/ pc[r] \in LockedPC /\ pc'[r] = "unlock"
             \/ pc[r] \in {"step", "exec", "record"} /\ pc'[r] \in {"step", "exec", "record", "compensate"}
      BY <1>3, <1>t
      DEF ExecuteStep, ExecuteStepFails, CreateWorkflowStep, CreateWorkflowStepError, UndoStep,
          Goto, tables, LockedPC
    <2> QED
      BY <1>u, <2>1
  <1>4. CASE MarkRunning(r)
    <2>1. /\ pc[r] = "mark" /\ pc'[r] = "step"
          /\ UpdateWorkflow(r, [loc[r] EXCEPT !.status = "running"])
      BY <1>4, <1>t DEF MarkRunning, Goto
    <2>2. [loc[r] EXCEPT !.status = "running"].status = "running"
      BY <1>t DEF Row
    <2>3. wf'[wid[r]].status = "running" /\ \A w \in Workflows : w # wid[r] => wf'[w] = wf[w]
      BY <1>t, <2>1, <2>2, WrittenStatus
    <2>4. wf[wid[r]].status # "absent"
      BY <2>1 DEF RowAgrees, LockedPC
    <2>5. Edge(wid[r])
      BY <2>1, <2>3 DEF Edge, TakesOver
    <2> QED
      BY <1>w, <2>1, <2>3, <2>5 DEF RowAgrees, Locked, LockedPC
  <1>5. CASE BeginStep(r)
    <2>1. /\ pc[r] = "step" /\ pc'[r] = "exec"
          /\ UpdateWorkflow(r, [loc[r] EXCEPT !.step = pos[r] + 1])
      BY <1>5, <1>t DEF BeginStep, Goto
    <2>2. [loc[r] EXCEPT !.step = pos[r] + 1].status = "running"
      BY <1>t, <2>1 DEF Row, Trail
    <2>3. wf'[wid[r]].status = "running" /\ \A w \in Workflows : w # wid[r] => wf'[w] = wf[w]
      BY <1>t, <2>1, <2>2, WrittenStatus
    <2>4. wf[wid[r]].status = "running"
      BY <2>1 DEF RowAgrees
    <2> QED
      BY <1>w, <2>1, <2>3, <2>4 DEF RowAgrees, Edge, Locked, LockedPC
  <1>6. CASE CompleteRun(r)
    <2>1. /\ pc[r] = "step" /\ pc'[r] = "unlock"
          /\ UpdateWorkflow(r, [loc[r] EXCEPT !.status = "completed", !.completedAt = TRUE])
      BY <1>6, <1>t DEF CompleteRun, Goto
    <2>2. [loc[r] EXCEPT !.status = "completed", !.completedAt = TRUE].status = "completed"
      BY <1>t DEF Row
    <2>3. wf'[wid[r]].status = "completed" /\ \A w \in Workflows : w # wid[r] => wf'[w] = wf[w]
      BY <1>t, <2>1, <2>2, WrittenStatus
    <2>4. wf[wid[r]].status = "running"
      BY <2>1 DEF RowAgrees
    <2> QED
      BY <1>w, <2>1, <2>3, <2>4 DEF RowAgrees, Edge, OnGraph, StatusEdges, Locked, LockedPC
  <1>7. CASE StartCompensation(r)
    <2>1. /\ pc[r] = "compensate" /\ pc'[r] = "undo"
          /\ UpdateWorkflow(r, [loc[r] EXCEPT !.status = "compensating"])
      BY <1>7, <1>t DEF StartCompensation, Goto
    <2>2. [loc[r] EXCEPT !.status = "compensating"].status = "compensating"
      BY <1>t DEF Row
    <2>3. wf'[wid[r]].status = "compensating" /\ \A w \in Workflows : w # wid[r] => wf'[w] = wf[w]
      BY <1>t, <2>1, <2>2, WrittenStatus
    <2>4. wf[wid[r]].status = "running"
      BY <2>1 DEF RowAgrees
    <2> QED
      BY <1>w, <2>1, <2>3, <2>4 DEF RowAgrees, Edge, OnGraph, StatusEdges, Locked, LockedPC
  <1>8. CASE FailRun(r)
    <2>1. /\ pc[r] = "undo" /\ pc'[r] = "unlock"
          /\ UpdateWorkflow(r, [loc[r] EXCEPT !.status = "failed"])
      BY <1>8, <1>t DEF FailRun, Goto
    <2>2. [loc[r] EXCEPT !.status = "failed"].status = "failed"
      BY <1>t DEF Row
    <2>3. wf'[wid[r]].status = "failed" /\ \A w \in Workflows : w # wid[r] => wf'[w] = wf[w]
      BY <1>t, <2>1, <2>2, WrittenStatus
    <2>4. wf[wid[r]].status = "compensating"
      BY <2>1 DEF RowAgrees
    <2> QED
      BY <1>w, <2>1, <2>3, <2>4 DEF RowAgrees, Edge, OnGraph, StatusEdges, Locked, LockedPC
  <1> QED
    BY <1>1, <1>2, <1>3, <1>4, <1>5, <1>6, <1>7, <1>8 DEF RunStep

\* While PostgreSQL answers and the lease outlives the run, every step keeps
\* the agreement of every run with its row, and moves rows along edges only. A
\* row is only written to by the run that holds its lock, or created.
LEMMA AgreesNext ==
    ASSUME ~StoreMayFail, TypeOK, SingleExecutor, AuditInvariant,
           \A r \in Runs : RowAgrees(r), [Next]_vars
    PROVE  /\ \A r \in Runs : RowAgrees(r)'
           /\ \A w \in Workflows : Edge(w)
  <1>t. /\ pc \in [Runs -> PC] /\ wid \in [Runs -> Workflows \cup {NoWorkflow}]
        /\ wf \in [Workflows -> Row]
        /\ \A q \in Runs : pc[q] # "idle" => wid[q] \in Workflows
    BY DEF TypeOK
  <1>0. ASSUME wf' = wf,
               \A q \in Runs : \/ pc'[q] = pc[q] /\ wid'[q] = wid[q]
                               \/ pc'[q] \notin {"lock"} \cup LockedPC
        PROVE  (\A q \in Runs : RowAgrees(q)') /\ \A w \in Workflows : Edge(w)
    <2>1. ASSUME NEW q \in Runs PROVE RowAgrees(q)'
      BY <1>0 DEF RowAgrees, LockedPC
    <2> QED
      BY <1>0, <2>1 DEF Edge
  <1>1. ASSUME NEW r \in Runs, RunStep(r)
        PROVE  (\A q \in Runs : RowAgrees(q)') /\ \A w \in Workflows : Edge(w)
    <2>1. /\ RowAgrees(r)' /\ Edge(wid[r])
          /\ \A w \in Workflows : w # wid[r] \/ ~Locked(r) => wf'[w] = wf[w]
      BY <1>1, RunStepEdge DEF AuditInvariant
    <2>2. \A w \in Workflows : Edge(w)
      BY <2>1 DEF Edge
    <2>3. ASSUME NEW q \in Runs, q # r PROVE RowAgrees(q)'
      <3>1. pc'[q] = pc[q] /\ wid'[q] = wid[q]
        BY <1>1, <2>3, OthersUntouched, CopiesUntouched
      <3>2. CASE Locked(q)
        <4>1. wid[q] \in Workflows /\ (Locked(r) => wid[q] # wid[r])
          BY <1>t, <2>3, <3>2 DEF SingleExecutor, Locked, LockedPC
        <4>2. wf'[wid[q]].status = wf[wid[q]].status
          BY <2>1, <4>1
        <4> QED
          BY <3>1, <4>2, AgreesStays
      <3>3. CASE ~Locked(q) /\ pc[q] = "lock"
        <4>1. wid[q] \in Workflows /\ wf[wid[q]].status # "absent"
          BY <1>t, <3>3 DEF RowAgrees
        <4>2. wf'[wid[q]].status # "absent"
          <5>1. Edge(wid[q])
            BY <2>2, <4>1
          <5>2. OnGraph(wid[q]) => wf'[wid[q]].status # "absent"
            BY DEF OnGraph, StatusEdges
          <5> QED
            BY <4>1, <5>1, <5>2 DEF Edge
        <4> QED
          BY <3>1, <3>3, <4>2 DEF RowAgrees, LockedPC
      <3>4. CASE ~Locked(q) /\ pc[q] # "lock"
        BY <3>1, <3>4 DEF RowAgrees, Locked, LockedPC
      <3> QED
        BY <3>2, <3>3, <3>4
    <2> QED
      BY <2>1, <2>2, <2>3
  <1>2. ASSUME NEW w \in Workflows, NEW f \in 0..StepCount, CreateWorkflow(w, f)
        PROVE  (\A q \in Runs : RowAgrees(q)') /\ \A v \in Workflows : Edge(v)
    <2>1. /\ wf[w].status = "absent" /\ UNCHANGED <<pc, wid>>
          /\ wf' = [wf EXCEPT ![w] = [NoRow EXCEPT !.status = "pending", !.failStep = f]]
      BY <1>2 DEF CreateWorkflow, local
    <2>2. wf'[w].status = "pending" /\ \A v \in Workflows : v # w => wf'[v] = wf[v]
      BY <1>t, <2>1 DEF NoRow
    <2>3. \A v \in Workflows : Edge(v)
      BY <2>1, <2>2 DEF Edge, OnGraph, StatusEdges
    <2>4. ASSUME NEW q \in Runs PROVE RowAgrees(q)'
      <3>1. CASE pc[q] \in {"lock"} \cup LockedPC
        <4>1. wid[q] # w /\ wid[q] \in Workflows
          BY <1>t, <2>1, <3>1 DEF RowAgrees, LockedPC
        <4>2. wf'[wid[q]] = wf[wid[q]]
          BY <2>2, <4>1
        <4> QED
          BY <2>1, <4>2, AgreesStays
      <3>2. CASE pc[q] \notin {"lock"} \cup LockedPC
        BY <2>1, <3>2 DEF RowAgrees, LockedPC
      <3> QED
        BY <3>1, <3>2
    <2> QED
      BY <2>3, <2>4
  <1>3. CASE (\E w \in Workflows : ExpireLock(w)) \/ UNCHANGED vars
    BY <1>0, <1>3 DEF ExpireLock, vars, tables, local
  <1>4. ASSUME NEW r \in Runs, NEW w \in Workflows, RunWorkflow(r, w)
        PROVE  (\A q \in Runs : RowAgrees(q)') /\ \A v \in Workflows : Edge(v)
    BY <1>0, <1>4, <1>t DEF RunWorkflow, Goto, tables, LockedPC
  <1>5. ASSUME NEW g \in Gateways, Crash(g)
        PROVE  (\A q \in Runs : RowAgrees(q)') /\ \A v \in Workflows : Edge(v)
    BY <1>0, <1>5 DEF Crash, tables, local, LockedPC
  <1> QED
    BY <1>1, <1>2, <1>3, <1>4, <1>5 DEF Next

\* With a reliable PostgreSQL and a lease that outlives the run, a row leaves
\* the documented state machine only by the first write of a run, although every
\* run writes back its own copy of the row, read before it had the lock.
THEOREM OffGraphAtStart ==
    ASSUME ~StoreMayFail, LeaseOutlivesRun PROVE Spec => OffGraphOnlyAtStart
  <1> DEFINE Agree == \A r \in Runs : RowAgrees(r)
             Moves == \A w \in Workflows : wf'[w].status # wf[w].status =>
                        \/ OnGraph(w)
                        \/ wf'[w].status = "running" /\ \E r \in Runs : TakesOver(r, w)
  <1>1. Init => Agree
    BY DEF Init, RowAgrees, LockedPC
  <1>2. TypeOK /\ SingleExecutor /\ AuditInvariant /\ Agree /\ [Next]_vars => Agree' /\ Moves
    <2> SUFFICES ASSUME TypeOK, SingleExecutor, AuditInvariant, Agree, [Next]_vars
                 PROVE  Agree' /\ Moves
      OBVIOUS
    <2>1. (\A r \in Runs : RowAgrees(r)') /\ \A w \in Workflows : Edge(w)
      BY AgreesNext
    <2> QED
      BY <2>1 DEF Edge
  <1> HIDE DEF Agree
  <1>3. TypeOK /\ SingleExecutor /\ AuditInvariant /\ Agree /\ [Next]_vars => Agree' /\ [Moves]_vars
    BY <1>2
  <1> QED
    BY <1>1, <1>3, TypeCorrect, MutualExclusion, AuditHolds, PTL DEF Spec, OffGraphOnlyAtStart

=============================================================================
