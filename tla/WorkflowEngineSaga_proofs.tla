---------------------- MODULE WorkflowEngineSaga_proofs ----------------------
(***************************************************************************)
(* Proof that the engine implements Saga, step by step: for every number   *)
(* of workflows, runs, hosts and steps and every fault, as long as the     *)
(* lock's lease outlives the run that holds it.                            *)
(***************************************************************************)
EXTENDS WorkflowEngine_proofs

-----------------------------------------------------------------------------
(* The refinement mapping *)

\* The run at work on w is the only one, and the mapping reads its position.
LEMMA MappedRun ==
    ASSUME SingleExecutor, NEW w \in Workflows, NEW r \in Executors(w)
    PROVE  sagaPhase[w] = Direction(r) /\ sagaDepth[w] = Standing(r)
  <1>1. Executors(w) = {r}
    BY DEF Executors, SingleExecutor, Locked
  <1>2. Executor(w) = r
    BY <1>1 DEF Executor
  <1> QED
    BY <1>1, <1>2 DEF sagaPhase, sagaDepth

\* The same after the step.
LEMMA MappedRunAfter ==
    ASSUME SingleExecutor', NEW w \in Workflows, NEW r \in Executors(w)'
    PROVE  sagaPhase'[w] = Direction(r)' /\ sagaDepth'[w] = Standing(r)'
  <1>1. Executors(w)' = {r}
    BY DEF Executors, SingleExecutor, Locked
  <1>2. Executor(w)' = r
    BY <1>1 DEF Executor
  <1> QED
    BY <1>1, <1>2 DEF sagaPhase, sagaDepth

\* Nobody at work on w: the mapping says so.
LEMMA MappedIdle ==
    ASSUME NEW w \in Workflows
    PROVE  /\ Executors(w) = {} => sagaPhase[w] = "idle" /\ sagaDepth[w] = 0
           /\ Executors(w)' = {} => sagaPhase'[w] = "idle" /\ sagaDepth'[w] = 0
  BY DEF sagaPhase, sagaDepth

\* A workflow whose run is the same before and after, at the same position, is
\* mapped to the same.
LEMMA MappedSame ==
    ASSUME SingleExecutor, SingleExecutor', NEW w \in Workflows,
           Executors(w)' = Executors(w),
           \A r \in Executors(w) : Direction(r)' = Direction(r) /\ Standing(r)' = Standing(r)
    PROVE  sagaPhase'[w] = sagaPhase[w] /\ sagaDepth'[w] = sagaDepth[w]
  <1>1. CASE Executors(w) = {}
    BY <1>1, MappedIdle
  <1>2. CASE Executors(w) # {}
    <2>1. PICK r \in Executors(w) : TRUE
      BY <1>2
    <2>2. r \in Executors(w)'
      BY <2>1
    <2> QED
      BY <2>1, <2>2, MappedRun, MappedRunAfter
  <1> QED
    BY <1>1, <1>2

\* If that is so of every workflow, the step is a stuttering step of Saga.
LEMMA MappedStutter ==
    ASSUME \A w \in Workflows : sagaPhase'[w] = sagaPhase[w] /\ sagaDepth'[w] = sagaDepth[w]
    PROVE  UNCHANGED SagaOf!vars
  <1>1. sagaPhase' = sagaPhase
    BY DEF sagaPhase
  <1>2. sagaDepth' = sagaDepth
    BY DEF sagaDepth
  <1> QED
    BY <1>1, <1>2 DEF SagaOf!vars

\* The mapped variables as functions with one value changed.
LEMMA MappedUpdate ==
    ASSUME NEW w \in Workflows,
           \A v \in Workflows \ {w} : sagaPhase'[v] = sagaPhase[v] /\ sagaDepth'[v] = sagaDepth[v]
    PROVE  /\ sagaPhase' = [sagaPhase EXCEPT ![w] = sagaPhase'[w]]
           /\ sagaDepth' = [sagaDepth EXCEPT ![w] = sagaDepth'[w]]
           /\ sagaPhase'[w] = sagaPhase[w] => sagaPhase' = sagaPhase
           /\ sagaDepth'[w] = sagaDepth[w] => sagaDepth' = sagaDepth
  <1>1. /\ DOMAIN sagaPhase = Workflows /\ DOMAIN sagaPhase' = Workflows
        /\ sagaPhase = [v \in Workflows |-> sagaPhase[v]]
        /\ sagaPhase' = [v \in Workflows |-> sagaPhase'[v]]
    BY DEF sagaPhase
  <1>2. /\ DOMAIN sagaDepth = Workflows /\ DOMAIN sagaDepth' = Workflows
        /\ sagaDepth = [v \in Workflows |-> sagaDepth[v]]
        /\ sagaDepth' = [v \in Workflows |-> sagaDepth'[v]]
    BY DEF sagaDepth
  <1> HIDE DEF sagaPhase, sagaDepth
  <1>3. /\ sagaPhase' = [sagaPhase EXCEPT ![w] = sagaPhase'[w]]
        /\ sagaPhase'[w] = sagaPhase[w] => sagaPhase' = sagaPhase
    BY <1>1
  <1>4. /\ sagaDepth' = [sagaDepth EXCEPT ![w] = sagaDepth'[w]]
        /\ sagaDepth'[w] = sagaDepth[w] => sagaDepth' = sagaDepth
    BY <1>2
  <1> QED
    BY <1>3, <1>4

-----------------------------------------------------------------------------
(* The steps of a run *)

\* A run's step changes the position of no other run.
LEMMA OthersMapped ==
    ASSUME TypeOK, NEW r \in Runs, RunStep(r), NEW q \in Runs, q # r, NEW w
    PROVE  /\ q \in Executors(w)' <=> q \in Executors(w)
           /\ Direction(q)' = Direction(q) /\ Standing(q)' = Standing(q)
  <1>1. pc'[q] = pc[q] /\ Footprint(q)' = Footprint(q) /\ wid'[q] = wid[q]
    BY OthersUntouched, CopiesUntouched
  <1> QED
    BY <1>1 DEF Footprint, Executors, Direction, Standing

\* A run's step is invisible in every workflow but its own.
LEMMA OtherWorkflows ==
    ASSUME TypeOK, SingleExecutor, SingleExecutor', NEW r \in Runs, RunStep(r), wid' = wid,
           NEW w \in Workflows, w # wid[r]
    PROVE  sagaPhase'[w] = sagaPhase[w] /\ sagaDepth'[w] = sagaDepth[w]
  <1>1. r \notin Executors(w) /\ r \notin Executors(w)'
    BY DEF Executors
  <1>2. \A q \in Runs : q # r => (q \in Executors(w)' <=> q \in Executors(w))
    BY OthersMapped
  <1>3. Executors(w) \subseteq Runs /\ Executors(w)' \subseteq Runs
    BY DEF Executors
  <1>4. Executors(w)' = Executors(w)
    BY <1>1, <1>2, <1>3
  <1>5. \A q \in Executors(w) : Direction(q)' = Direction(q) /\ Standing(q)' = Standing(q)
    BY <1>1, <1>3, OthersMapped
  <1> QED
    BY <1>4, <1>5, MappedSame

\* A run that is at work before and after its step.
LEMMA WorkingStep ==
    ASSUME SingleExecutor, SingleExecutor', NEW r \in Runs, wid[r] \in Workflows,
           pc[r] \in LockedPC \ {"unlock"}, pc'[r] \in LockedPC \ {"unlock"}, wid' = wid
    PROVE  /\ sagaPhase[wid[r]] = Direction(r) /\ sagaDepth[wid[r]] = Standing(r)
           /\ sagaPhase'[wid[r]] = Direction(r)' /\ sagaDepth'[wid[r]] = Standing(r)'
  <1>1. PICK w \in Workflows : w = wid[r]
    OBVIOUS
  <1>2. r \in Executors(w) /\ r \in Executors(w)'
    BY <1>1 DEF Executors
  <1> QED
    BY <1>1, <1>2, MappedRun, MappedRunAfter

\* A run whose work ends with its step.
LEMMA EndingStep ==
    ASSUME TypeOK, SingleExecutor, SingleExecutor', NEW r \in Runs, RunStep(r),
           wid[r] \in Workflows, wid' = wid,
           pc[r] \in LockedPC \ {"unlock"}, pc'[r] = "unlock"
    PROVE  /\ sagaPhase[wid[r]] = Direction(r) /\ sagaDepth[wid[r]] = Standing(r)
           /\ sagaPhase'[wid[r]] = "idle" /\ sagaDepth'[wid[r]] = 0
  <1>1. PICK w \in Workflows : w = wid[r]
    OBVIOUS
  <1>2. r \in Executors(w) /\ r \notin Executors(w)'
    BY <1>1 DEF Executors
  <1>3. \A q \in Runs : q # r => q \notin Executors(w)
    BY <1>2 DEF Executors, SingleExecutor, Locked
  <1>4. \A q \in Runs : q # r => q \notin Executors(w)'
    BY <1>3, OthersMapped
  <1>5. Executors(w)' = {}
    BY <1>2, <1>4 DEF Executors
  <1> QED
    BY <1>1, <1>2, <1>5, MappedRun, MappedIdle

\* A run that is at work neither before nor after.
LEMMA IdleStep ==
    ASSUME TypeOK, SingleExecutor, SingleExecutor', NEW r \in Runs, RunStep(r),
           wid[r] \in Workflows, wid' = wid,
           pc[r] \notin LockedPC \ {"unlock"}, pc'[r] \notin LockedPC \ {"unlock"}
    PROVE  sagaPhase'[wid[r]] = sagaPhase[wid[r]] /\ sagaDepth'[wid[r]] = sagaDepth[wid[r]]
  <1>1. PICK w \in Workflows : w = wid[r]
    OBVIOUS
  <1>2. r \notin Executors(w) /\ r \notin Executors(w)'
    BY DEF Executors
  <1>3. \A q \in Runs : q # r => (q \in Executors(w)' <=> q \in Executors(w))
    BY OthersMapped
  <1>4. Executors(w) \subseteq Runs /\ Executors(w)' \subseteq Runs
    BY DEF Executors
  <1>5. Executors(w)' = Executors(w)
    BY <1>2, <1>3, <1>4
  <1>6. \A q \in Executors(w) : Direction(q)' = Direction(q) /\ Standing(q)' = Standing(q)
    BY <1>2, <1>4, OthersMapped
  <1> QED
    BY <1>1, <1>5, <1>6, MappedSame

\* Whoever takes the lock starts an attempt at a workflow nobody is at work on.
LEMMA LockingStep ==
    ASSUME TypeOK, SingleExecutor', LockHeld, LeaseOutlivesRun, NEW r \in Runs, LockWorkflow(r)
    PROVE  /\ sagaPhase[wid[r]] = "idle" /\ sagaDepth[wid[r]] = 0
           /\ sagaPhase'[wid[r]] = Direction(r)' /\ sagaDepth'[wid[r]] = Standing(r)'
  <1>1. pc[r] = "lock" /\ wid[r] \in Workflows /\ lock[wid[r]] = NoRun /\ pc'[r] = "mark" /\ wid' = wid
    BY DEF LockWorkflow, Goto, TypeOK, local
  <1>2. PICK w \in Workflows : w = wid[r]
    BY <1>1
  <1>3. Executors(w) = {}
    <2> SUFFICES ASSUME NEW q \in Runs, Locked(q), wid[q] = w PROVE FALSE
      BY DEF Executors, Locked
    <2>1. lock[w] = q
      BY DEF LockHeld
    <2> QED
      BY <1>1, <1>2, <2>1, RunsAssumption
  <1>4. r \in Executors(w)'
    BY <1>1, <1>2 DEF Executors, LockedPC
  <1> QED
    BY <1>2, <1>3, <1>4, MappedIdle, MappedRunAfter

\* A statement of a run never changes which workflow any run is about.
LEMMA WidStays ==
    ASSUME NEW r \in Runs, RunStep(r) PROVE wid' = wid
  BY DEF RunStep, GetWorkflow, GetWorkflowError, LockWorkflow, LockRefused, LockError,
         MarkRunning, BeginStep, ExecuteStep, ExecuteStepFails, CreateWorkflowStep,
         CreateWorkflowStepError, CompleteRun, StartCompensation, UndoStep, FailRun,
         UnlockWorkflow, local

\* Every statement of Engine.Run and compensate is a step of Saga, or none.
LEMMA RunStepMapped ==
    ASSUME TypeOK, TypeOK', SingleExecutor, SingleExecutor', LockHeld, LeaseOutlivesRun,
           NEW r \in Runs, EffectsSoFar(r), RunStep(r)
    PROVE  [SagaOf!Next]_SagaOf!vars
  <1>w. wid' = wid /\ wid[r] \in Workflows
    <2>1. pc[r] # "idle"
      BY DEF RunStep, GetWorkflow, GetWorkflowError, LockWorkflow, LockRefused, LockError,
             MarkRunning, BeginStep, ExecuteStep, ExecuteStepFails, CreateWorkflowStep,
             CreateWorkflowStepError, CompleteRun, StartCompensation, UndoStep, FailRun,
             UnlockWorkflow
    <2> QED
      BY <2>1, WidStays DEF TypeOK
  <1>0. PICK w \in Workflows : w = wid[r]
    BY <1>w
  <1>v. \A v \in Workflows \ {w} : sagaPhase'[v] = sagaPhase[v] /\ sagaDepth'[v] = sagaDepth[v]
    BY <1>0, <1>w, OtherWorkflows
  <1>u. /\ sagaPhase' = [sagaPhase EXCEPT ![w] = sagaPhase'[w]]
        /\ sagaDepth' = [sagaDepth EXCEPT ![w] = sagaDepth'[w]]
        /\ sagaPhase'[w] = sagaPhase[w] => sagaPhase' = sagaPhase
        /\ sagaDepth'[w] = sagaDepth[w] => sagaDepth' = sagaDepth
    BY <1>v, MappedUpdate
  <1>s. ASSUME sagaPhase'[w] = sagaPhase[w], sagaDepth'[w] = sagaDepth[w]
        PROVE  UNCHANGED SagaOf!vars
    BY <1>s, <1>u DEF SagaOf!vars
  <1>t. /\ pc \in [Runs -> PC] /\ pos \in [Runs -> 0..StepCount] /\ undoing \in [Runs -> 0..StepCount]
        /\ outcome \in [Runs -> {"none", "completed", "failed"}]
        /\ pos[r] \in Nat /\ undoing[r] \in Nat /\ StepCount \in Nat
        /\ pc[r] \in {"exec", "record"} => pos[r] < StepCount
    BY StepsAssumption DEF TypeOK
  <1>a. ASSUME pc[r] \in LockedPC \ {"unlock"}, pc'[r] \in LockedPC \ {"unlock"}
        PROVE  /\ sagaPhase[w] = Direction(r) /\ sagaDepth[w] = Standing(r)
               /\ sagaPhase'[w] = Direction(r)' /\ sagaDepth'[w] = Standing(r)'
    BY <1>0, <1>a, <1>w, WorkingStep
  <1>e. ASSUME pc[r] \in LockedPC \ {"unlock"}, pc'[r] = "unlock"
        PROVE  /\ sagaPhase[w] = Direction(r) /\ sagaDepth[w] = Standing(r)
               /\ sagaPhase'[w] = "idle" /\ sagaDepth'[w] = 0
    BY <1>0, <1>e, <1>w, EndingStep
  <1>i. ASSUME pc[r] \notin LockedPC \ {"unlock"}, pc'[r] \notin LockedPC \ {"unlock"}
        PROVE  UNCHANGED SagaOf!vars
    BY <1>0, <1>i, <1>s, <1>w, IdleStep
  <1>1. CASE \/ GetWorkflow(r) \/ GetWorkflowError(r) \/ LockRefused(r) \/ LockError(r)
             \/ UnlockWorkflow(r)
    <2>1. pc[r] \in {"load", "lock", "unlock"} /\ pc'[r] \in {"lock", "done"}
      BY <1>1, <1>t
      DEF GetWorkflow, GetWorkflowError, LockRefused, LockError, UnlockWorkflow, Goto
    <2> QED
      BY <1>i, <2>1 DEF LockedPC
  <1>2. CASE LockWorkflow(r)
    <2>1. pc[r] = "lock" /\ pc'[r] = "mark" /\ pos' = pos
      BY <1>2, <1>t DEF LockWorkflow, Goto, local
    <2>2. pos'[r] = 0
      BY <2>1 DEF EffectsSoFar
    <2>3. Direction(r)' = "forward" /\ Standing(r)' = 0
      BY <2>1, <2>2 DEF Direction, Standing
    <2>4. SagaOf!Begin(w)
      BY <1>0, <1>2, <1>u, <2>3, LockingStep DEF SagaOf!Begin
    <2> QED
      BY <2>4 DEF SagaOf!Next
  <1>3. CASE MarkRunning(r) \/ BeginStep(r)
    <2>1. pc[r] \in {"mark", "step"} /\ pc'[r] \in {"step", "exec"} /\ pos' = pos
      BY <1>3, <1>t DEF MarkRunning, BeginStep, Goto
    <2>2. Direction(r)' = Direction(r) /\ Standing(r)' = Standing(r)
      BY <2>1 DEF Direction, Standing
    <2> QED
      BY <1>a, <1>s, <2>1, <2>2 DEF LockedPC
  <1>4. CASE ExecuteStep(r)
    <2>1. pc[r] = "exec" /\ pc'[r] = "record" /\ pos' = pos /\ outcome'[r] = "completed"
      BY <1>4, <1>t DEF ExecuteStep, Goto
    <2>2. /\ Direction(r) = "forward" /\ Direction(r)' = "forward"
          /\ Standing(r) = pos[r] /\ Standing(r)' = pos[r] + 1
      BY <2>1 DEF Direction, Standing
    <2>3. SagaOf!Do(w)
      BY <1>a, <1>t, <1>u, <2>1, <2>2 DEF SagaOf!Do, LockedPC
    <2> QED
      BY <2>3 DEF SagaOf!Next
  <1>5. CASE ExecuteStepFails(r)
    <2>1. pc[r] = "exec" /\ pc'[r] = "record" /\ pos' = pos /\ outcome'[r] = "failed"
      BY <1>5, <1>t DEF ExecuteStepFails, Goto
    <2>2. Direction(r)' = Direction(r) /\ Standing(r)' = Standing(r)
      BY <2>1 DEF Direction, Standing
    <2> QED
      BY <1>a, <1>s, <2>1, <2>2 DEF LockedPC
  <1>6. CASE CreateWorkflowStep(r) /\ outcome[r] = "failed"
    <2>1. pc[r] = "record" /\ pc'[r] = "compensate" /\ pos' = pos
      BY <1>6, <1>t DEF CreateWorkflowStep, Goto
    <2>2. /\ Direction(r) = "forward" /\ Direction(r)' = "backward"
          /\ Standing(r) = pos[r] /\ Standing(r)' = pos[r]
      BY <1>6, <2>1 DEF Direction, Standing
    <2>3. SagaOf!Turn(w)
      BY <1>a, <1>t, <1>u, <2>1, <2>2 DEF SagaOf!Turn, LockedPC
    <2> QED
      BY <2>3 DEF SagaOf!Next
  <1>7. CASE CreateWorkflowStep(r) /\ outcome[r] = "completed"
    <2>1. pc[r] = "record" /\ pc'[r] = "step" /\ pos'[r] = pos[r] + 1
      BY <1>7, <1>t DEF CreateWorkflowStep, Goto
    <2>2. Direction(r)' = Direction(r) /\ Standing(r)' = Standing(r)
      BY <1>7, <2>1 DEF Direction, Standing
    <2> QED
      BY <1>a, <1>s, <2>1, <2>2 DEF LockedPC
  <1>8. CASE CreateWorkflowStepError(r)
    <2>1. pc[r] = "record" /\ pc'[r] = "unlock"
      BY <1>8, <1>t DEF CreateWorkflowStepError, Goto
    <2>2. sagaPhase[w] # "idle" /\ sagaPhase'[w] = "idle" /\ sagaDepth'[w] = 0
      BY <1>e, <2>1 DEF LockedPC, Direction
    <2>3. SagaOf!Abandon({w})
      <3>1. /\ sagaPhase' = [v \in Workflows |-> sagaPhase'[v]]
            /\ sagaDepth' = [v \in Workflows |-> sagaDepth'[v]]
        BY DEF sagaPhase, sagaDepth
      <3>2. sagaPhase' = [v \in Workflows |-> IF v \in {w} THEN "idle" ELSE sagaPhase[v]]
        BY <1>v, <2>2, <3>1
      <3>3. sagaDepth' = [v \in Workflows |-> IF v \in {w} THEN 0 ELSE sagaDepth[v]]
        BY <1>v, <2>2, <3>1
      <3> QED
        BY <2>2, <3>2, <3>3 DEF SagaOf!Abandon
    <2> QED
      BY <2>3 DEF SagaOf!Next
  <1>9. CASE CompleteRun(r)
    <2>1. pc[r] = "step" /\ pc'[r] = "unlock" /\ pos[r] = StepCount
      BY <1>9, <1>t DEF CompleteRun, Goto
    <2>2. Direction(r) = "forward" /\ Standing(r) = StepCount
      BY <2>1 DEF Direction, Standing
    <2>3. SagaOf!Complete(w)
      BY <1>e, <1>u, <2>1, <2>2 DEF SagaOf!Complete, LockedPC
    <2> QED
      BY <2>3 DEF SagaOf!Next
  <1>10. CASE StartCompensation(r)
    <2>1. pc[r] = "compensate" /\ pc'[r] = "undo" /\ undoing'[r] = pos[r]
      BY <1>10, <1>t DEF StartCompensation, Goto
    <2>2. Direction(r)' = Direction(r) /\ Standing(r)' = Standing(r)
      BY <2>1 DEF Direction, Standing
    <2> QED
      BY <1>a, <1>s, <2>1, <2>2 DEF LockedPC
  <1>11. CASE UndoStep(r)
    <2>1. pc[r] = "undo" /\ pc' = pc /\ undoing[r] > 0 /\ undoing'[r] = undoing[r] - 1
      BY <1>11, <1>t DEF UndoStep
    <2>2. /\ Direction(r) = "backward" /\ Direction(r)' = "backward"
          /\ Standing(r) = undoing[r] /\ Standing(r)' = undoing[r] - 1
      BY <2>1 DEF Direction, Standing
    <2>3. SagaOf!Undo(w)
      BY <1>a, <1>t, <1>u, <2>1, <2>2 DEF SagaOf!Undo, LockedPC
    <2> QED
      BY <2>3 DEF SagaOf!Next
  <1>12. CASE FailRun(r)
    <2>1. pc[r] = "undo" /\ pc'[r] = "unlock" /\ undoing[r] = 0
      BY <1>12, <1>t DEF FailRun, Goto
    <2>2. Direction(r) = "backward" /\ Standing(r) = 0
      BY <2>1 DEF Direction, Standing
    <2>3. SagaOf!Fail(w)
      BY <1>e, <1>u, <2>1, <2>2 DEF SagaOf!Fail, LockedPC
    <2> QED
      BY <2>3 DEF SagaOf!Next
  <1>13. CreateWorkflowStep(r) => outcome[r] \in {"completed", "failed"}
    BY DEF CreateWorkflowStep
  <1> QED
    BY <1>1, <1>2, <1>3, <1>4, <1>5, <1>6, <1>7, <1>8, <1>9, <1>10, <1>11, <1>12, <1>13
    DEF RunStep

-----------------------------------------------------------------------------
(* The other steps *)

\* A crash abandons the attempts of the process, all at once.
LEMMA CrashMapped ==
    ASSUME TypeOK, SingleExecutor, SingleExecutor', NEW g \in Gateways, Crash(g)
    PROVE  [SagaOf!Next]_SagaOf!vars
  <1> DEFINE S == {w \in Workflows : Executors(w) # {} /\ Executors(w)' = {}}
  <1>1. /\ \A r \in Runs : pc'[r] = pc[r] \/ pc'[r] = "crashed"
        /\ UNCHANGED <<wid, pos, outcome, undoing>>
    BY DEF Crash, local
  <1>2. \A w : Executors(w)' \subseteq Executors(w)
    BY <1>1 DEF Executors, LockedPC
  <1>3. \A r \in Runs, w \in Workflows : r \in Executors(w)' =>
            Direction(r)' = Direction(r) /\ Standing(r)' = Standing(r)
    BY <1>1 DEF Executors, LockedPC, Direction, Standing
  <1>4. ASSUME NEW w \in Workflows \ S
        PROVE  sagaPhase'[w] = sagaPhase[w] /\ sagaDepth'[w] = sagaDepth[w]
    <2>1. CASE Executors(w) = {}
      BY <1>2, <2>1, MappedIdle
    <2>2. CASE Executors(w)' # {}
      <3>1. PICK r \in Executors(w)' : r \in Executors(w)
        BY <1>2, <2>2
      <3>2. r \in Runs
        BY <3>1 DEF Executors
      <3> QED
        BY <1>3, <3>1, <3>2, MappedRun, MappedRunAfter
    <2> QED
      BY <2>1, <2>2
  <1>5. ASSUME NEW w \in S
        PROVE  sagaPhase[w] # "idle" /\ sagaPhase'[w] = "idle" /\ sagaDepth'[w] = 0
    <2>1. PICK r \in Executors(w) : TRUE
      OBVIOUS
    <2>2. sagaPhase[w] = Direction(r)
      BY <2>1, MappedRun
    <2>3. Direction(r) # "idle"
      BY DEF Direction
    <2> QED
      BY <2>2, <2>3, MappedIdle
  <1>6. S \in SUBSET Workflows
    OBVIOUS
  <1> HIDE DEF S
  <1>7. /\ sagaPhase' = [v \in Workflows |-> sagaPhase'[v]]
        /\ sagaDepth' = [v \in Workflows |-> sagaDepth'[v]]
    BY DEF sagaPhase, sagaDepth
  <1>8. sagaPhase' = [v \in Workflows |-> IF v \in S THEN "idle" ELSE sagaPhase[v]]
    BY <1>4, <1>5, <1>7
  <1>9. sagaDepth' = [v \in Workflows |-> IF v \in S THEN 0 ELSE sagaDepth[v]]
    BY <1>4, <1>5, <1>7
  <1>10. SagaOf!Abandon(S)
    BY <1>5, <1>8, <1>9 DEF SagaOf!Abandon
  <1> QED
    BY <1>6, <1>10 DEF SagaOf!Next

\* Requests and the expiry of a lease are invisible.
LEMMA RequestMapped ==
    ASSUME TypeOK, SingleExecutor, SingleExecutor',
           \/ \E w \in Workflows, f \in 0..StepCount : CreateWorkflow(w, f)
           \/ \E r \in Runs, w \in Workflows : RunWorkflow(r, w)
           \/ \E w \in Workflows : ExpireLock(w)
           \/ UNCHANGED vars
    PROVE  UNCHANGED SagaOf!vars
  <1>1. /\ UNCHANGED <<pos, outcome, undoing>>
        /\ \A r \in Runs : \/ pc'[r] = pc[r] /\ wid'[r] = wid[r]
                           \/ pc[r] = "idle" /\ pc'[r] = "load"
    <2>1. pc \in [Runs -> PC] /\ wid \in [Runs -> Workflows \cup {NoWorkflow}]
      BY DEF TypeOK
    <2> QED
      BY <2>1 DEF CreateWorkflow, RunWorkflow, ExpireLock, Goto, vars, local
  <1>2. ASSUME NEW w \in Workflows
        PROVE  sagaPhase'[w] = sagaPhase[w] /\ sagaDepth'[w] = sagaDepth[w]
    <2>1. Executors(w)' = Executors(w)
      BY <1>1 DEF Executors, LockedPC
    <2>2. \A r \in Executors(w) : Direction(r)' = Direction(r) /\ Standing(r)' = Standing(r)
      BY <1>1 DEF Executors, LockedPC, Direction, Standing
    <2> QED
      BY <2>1, <2>2, MappedSame
  <1> QED
    BY <1>2, MappedStutter

-----------------------------------------------------------------------------

\* As long as the lease outlives the run that holds it, the engine implements
\* Saga: whatever is lost, crashes or fails, the attempts at a workflow never
\* overlap, go forward step by step, turn back at most once, at a failed step,
\* and report success only from the far end and failure only when every step
\* done has been visited by the compensation.
THEOREM EngineImplementsSaga ==
    ASSUME LeaseOutlivesRun PROVE Spec => ImplementsSaga
  <1>1. Init => SagaOf!Init
    <2> SUFFICES ASSUME Init PROVE SagaOf!Init
      OBVIOUS
    <2>1. \A w : Executors(w) = {}
      BY DEF Init, Executors, LockedPC
    <2> QED
      BY <2>1 DEF SagaOf!Init, sagaPhase, sagaDepth
  <1>2. /\ TypeOK /\ TypeOK' /\ RunInvariant /\ SingleExecutor /\ SingleExecutor'
        /\ [Next]_vars
        => [SagaOf!Next]_SagaOf!vars
    <2> SUFFICES ASSUME TypeOK, TypeOK', RunInvariant, SingleExecutor, SingleExecutor', [Next]_vars
                 PROVE  [SagaOf!Next]_SagaOf!vars
      OBVIOUS
    <2>1. LockHeld /\ \A r \in Runs : EffectsSoFar(r)
      BY DEF RunInvariant
    <2>2. ASSUME NEW r \in Runs, RunStep(r) PROVE [SagaOf!Next]_SagaOf!vars
      BY <2>1, <2>2, RunStepMapped
    <2>3. ASSUME NEW g \in Gateways, Crash(g) PROVE [SagaOf!Next]_SagaOf!vars
      BY <2>3, CrashMapped
    <2> QED
      BY <2>2, <2>3, RequestMapped DEF Next
  <1> QED
    BY <1>1, <1>2, TypeCorrect, RunInvariantHolds, MutualExclusion, PTL
    DEF Spec, ImplementsSaga, SagaOf!Spec

=============================================================================
