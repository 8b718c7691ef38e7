--------------------------- MODULE WorkflowEngine ---------------------------
(***************************************************************************)
(* The saga engine of internal/workflow/engine.go together with the two    *)
(* stores it uses: the workflows and workflow_steps tables of PostgreSQL   *)
(* and the workflow_lock keys of Redis.                                    *)
(*                                                                         *)
(* A "run" is one goroutine that executes Engine.Run; the REST and gRPC    *)
(* handlers start one per POST /workflows/:id/run, on any gateway replica. *)
(* Every call to PostgreSQL, to Redis or to a step's code is an action of  *)
(* its own, so the runs interleave between any two calls.                  *)
(***************************************************************************)
EXTENDS Naturals, Sequences

CONSTANTS
    Workflows,          \* workflow ids that may be created
    Runs,               \* goroutines executing Engine.Run, one per request
    NoRun,              \* "no run": the lock key does not exist
    NoWorkflow,         \* target of a run that has not been requested yet
    Gateways,           \* processes that host runs
    HostOf,             \* HostOf[r]: the process that runs r
    StepCount,          \* number of steps of the workflow definition
    Compensable,        \* steps with a Compensation function
    FlakySteps,         \* steps whose Execute may return an error
    FlakyUndo,          \* steps whose Compensation may return an error
    MaxCrashes,         \* bound: process crashes
    LeaseOutlivesRun,   \* the 5 minute lock never expires under a live run
    StoreMayFail,       \* PostgreSQL calls may return an error
    CacheMayFail        \* Redis calls may return an error

ASSUME StepsAssumption ==
    /\ StepCount \in Nat \ {0}
    /\ Compensable \subseteq 1..StepCount
    /\ FlakySteps \subseteq 1..StepCount
    /\ FlakyUndo \subseteq Compensable

ASSUME RunsAssumption ==
    /\ NoRun \notin Runs
    /\ NoWorkflow \notin Workflows
    /\ HostOf \in [Runs -> Gateways]

ASSUME FaultsAssumption ==
    /\ MaxCrashes \in Nat
    /\ {LeaseOutlivesRun, StoreMayFail, CacheMayFail} \subseteq BOOLEAN

VARIABLES
    wf,         \* the workflows table: wf[w] is the row of w
    stepRows,   \* the workflow_steps table, in order of insertion
    lock,       \* the lock keys; the value names the run whose SETNX set it
    pc,         \* where each run is
    wid,        \* the workflow each run was asked to execute
    loc,        \* each run's local copy w of the workflow row
    pos,        \* len(completedSteps): steps 1..pos completed in this run
    outcome,    \* status of the step the run executed last
    undoing,    \* compensate: steps still to be visited
    result,     \* what Run returned
    applied,    \* effects of the run's steps that stand in the outside world
    undoLog,    \* compensations the run called, in order
    crashes     \* process crashes so far

tables  == <<wf, stepRows>>
local   == <<wid, loc, pos, outcome, undoing>>
outside == <<applied, undoLog>>
vars    == <<tables, lock, pc, local, result, outside, crashes>>

-----------------------------------------------------------------------------
(* Types *)

Steps == 1..StepCount

Status == {"absent", "pending", "running", "completed", "compensating", "failed"}

\* A row of workflows. The input matters only for the step that its
\* "demoFailStep" member makes fail; 0 stands for no such member.
Row == [status : Status, step : 0..StepCount, completedAt : BOOLEAN,
        failStep : 0..StepCount]

NoRow == [status |-> "absent", step |-> 0, completedAt |-> FALSE, failStep |-> 0]

StepRow == [run : Runs, step : Steps, status : {"completed", "failed"}]

\* Between the SETNX that succeeded and the deferred DEL.
LockedPC == {"mark", "step", "exec", "record", "compensate", "undo", "unlock"}

PC == {"idle", "load", "lock", "done", "crashed"} \cup LockedPC

Result == {"none", "notFound", "rejected", "ok", "stepError", "failed"}

Locked(r) == pc[r] \in LockedPC

\* Runs that would lose work if their process died.
Live(r) == pc[r] \notin {"idle", "done", "crashed"}

TypeOK ==
    /\ wf \in [Workflows -> Row]
    /\ stepRows \in [Workflows -> Seq(StepRow)]
    /\ lock \in [Workflows -> Runs \cup {NoRun}]
    /\ pc \in [Runs -> PC]
    /\ wid \in [Runs -> Workflows \cup {NoWorkflow}]
    /\ \A r \in Runs : pc[r] # "idle" => wid[r] \in Workflows
    /\ loc \in [Runs -> Row]
    /\ pos \in [Runs -> 0..StepCount]
    /\ \A r \in Runs : pc[r] \in {"exec", "record"} => pos[r] < StepCount
    /\ outcome \in [Runs -> {"none", "completed", "failed"}]
    /\ \A r \in Runs : pc[r] = "record" => outcome[r] # "none"
    /\ undoing \in [Runs -> 0..StepCount]
    /\ result \in [Runs -> Result]
    /\ applied \in [Runs -> SUBSET Steps]
    /\ undoLog \in [Runs -> Seq(Steps)]
    /\ crashes \in 0..MaxCrashes

Init ==
    /\ wf = [w \in Workflows |-> NoRow]
    /\ stepRows = [w \in Workflows |-> <<>>]
    /\ lock = [w \in Workflows |-> NoRun]
    /\ pc = [r \in Runs |-> "idle"]
    /\ wid = [r \in Runs |-> NoWorkflow]
    /\ loc = [r \in Runs |-> NoRow]
    /\ pos = [r \in Runs |-> 0]
    /\ outcome = [r \in Runs |-> "none"]
    /\ undoing = [r \in Runs |-> 0]
    /\ result = [r \in Runs |-> "none"]
    /\ applied = [r \in Runs |-> {}]
    /\ undoLog = [r \in Runs |-> <<>>]
    /\ crashes = 0

-----------------------------------------------------------------------------
(* Helpers *)

Goto(r, l) == pc' = [pc EXCEPT ![r] = l]

Return(r, res) == result' = [result EXCEPT ![r] = res]

\* shouldFailStep of the next step: its name is the input's "demoFailStep".
ShouldFailStep(r) == loc[r].failStep = pos[r] + 1

\* UpdateWorkflow: the local copy always changes, the row only when the
\* statement succeeds; every caller discards the error.
UpdateWorkflow(r, row) ==
    /\ loc' = [loc EXCEPT ![r] = row]
    /\ \/ wf' = [wf EXCEPT ![wid[r]] = row]
       \/ StoreMayFail /\ wf' = wf

\* INSERT INTO workflow_steps: executeStep's row, status and all.
InsertStepRow(r) ==
    stepRows' = [stepRows EXCEPT ![wid[r]] =
                   Append(@, [run |-> r, step |-> pos[r] + 1, status |-> outcome[r]])]

-----------------------------------------------------------------------------
(* Requests *)

\* Create: the definition is registered, the INSERT succeeds.
CreateWorkflow(w, f) ==
    /\ wf[w].status = "absent"
    /\ wf' = [wf EXCEPT ![w] = [NoRow EXCEPT !.status = "pending", !.failStep = f]]
    /\ UNCHANGED <<stepRows, lock, pc, local, result, outside, crashes>>

\* RunWorkflow answers 202 at once and starts the goroutine.
RunWorkflow(r, w) ==
    /\ pc[r] = "idle"
    /\ Goto(r, "load")
    /\ wid' = [wid EXCEPT ![r] = w]
    /\ UNCHANGED <<tables, lock, loc, pos, outcome, undoing, result, outside, crashes>>

-----------------------------------------------------------------------------
(* Engine.Run *)

\* The row is read before the lock is taken.
GetWorkflow(r) ==
    /\ pc[r] = "load"
    /\ wf[wid[r]].status # "absent"
    /\ loc' = [loc EXCEPT ![r] = wf[wid[r]]]
    /\ Goto(r, "lock")
    /\ UNCHANGED <<tables, lock, wid, pos, outcome, undoing, result, outside, crashes>>

GetWorkflowError(r) ==
    /\ pc[r] = "load"
    /\ wf[wid[r]].status = "absent" \/ StoreMayFail
    /\ Goto(r, "done")
    /\ Return(r, "notFound")
    /\ UNCHANGED <<tables, lock, local, outside, crashes>>

\* Mutant: SET instead of SETNX.
LockWorkflowNoNX(r) ==
    /\ pc[r] = "lock"
    /\ lock' = [lock EXCEPT ![wid[r]] = r]
    /\ Goto(r, "mark")
    /\ UNCHANGED <<tables, local, result, outside, crashes>>

\* SETNX workflow_lock:<id> with a TTL.
LockWorkflow(r) ==
    /\ pc[r] = "lock"
    /\ lock[wid[r]] = NoRun
    /\ lock' = [lock EXCEPT ![wid[r]] = r]
    /\ Goto(r, "mark")
    /\ UNCHANGED <<tables, local, result, outside, crashes>>

LockRefused(r) ==
    /\ pc[r] = "lock"
    /\ lock[wid[r]] # NoRun
    /\ Goto(r, "done")
    /\ Return(r, "rejected")
    /\ UNCHANGED <<tables, lock, local, outside, crashes>>

\* SETNX returns an error; the key may have been set nevertheless.
LockError(r) ==
    /\ CacheMayFail
    /\ pc[r] = "lock"
    /\ \/ UNCHANGED lock
       \/ lock[wid[r]] = NoRun /\ lock' = [lock EXCEPT ![wid[r]] = r]
    /\ Goto(r, "done")
    /\ Return(r, "rejected")
    /\ UNCHANGED <<tables, local, outside, crashes>>

MarkRunning(r) ==
    /\ pc[r] = "mark"
    /\ UpdateWorkflow(r, [loc[r] EXCEPT !.status = "running"])
    /\ Goto(r, "step")
    /\ UNCHANGED <<stepRows, lock, wid, pos, outcome, undoing, result, outside, crashes>>

\* Mutant: the loop runs one step too far.
BeginStepOffByOne(r) ==
    /\ pc[r] = "step"
    /\ pos[r] <= StepCount
    /\ UpdateWorkflow(r, [loc[r] EXCEPT !.step = pos[r] + 1])
    /\ Goto(r, "exec")
    /\ UNCHANGED <<stepRows, lock, wid, pos, outcome, undoing, result, outside, crashes>>

\* Head of the loop over def.Steps.
BeginStep(r) ==
    /\ pc[r] = "step"
    /\ pos[r] < StepCount
    /\ UpdateWorkflow(r, [loc[r] EXCEPT !.step = pos[r] + 1])
    /\ Goto(r, "exec")
    /\ UNCHANGED <<stepRows, lock, wid, pos, outcome, undoing, result, outside, crashes>>

\* executeStep when shouldFailStep is false and Execute returns no error.
ExecuteStep(r) ==
    /\ pc[r] = "exec"
    /\ ~ShouldFailStep(r)
    /\ outcome' = [outcome EXCEPT ![r] = "completed"]
    /\ applied' = [applied EXCEPT ![r] = @ \cup {pos[r] + 1}]
    /\ Goto(r, "record")
    /\ UNCHANGED <<tables, lock, wid, loc, pos, undoing, result, undoLog, crashes>>

\* executeStep when shouldFailStep is true, which keeps Execute from being
\* called, or when Execute returns an error or runs into its timeout: what it had
\* done by then stands.
ExecuteStepFails(r) ==
    /\ pc[r] = "exec"
    /\ \/ ShouldFailStep(r) /\ UNCHANGED applied
       \/ /\ ~ShouldFailStep(r) /\ pos[r] + 1 \in FlakySteps
          /\ \/ UNCHANGED applied
             \/ applied' = [applied EXCEPT ![r] = @ \cup {pos[r] + 1}]
    /\ outcome' = [outcome EXCEPT ![r] = "failed"]
    /\ Goto(r, "record")
    /\ UNCHANGED <<tables, lock, wid, loc, pos, undoing, result, undoLog, crashes>>

\* Mutant: the step joins completedSteps before its status is looked at.
CreateWorkflowStepAppendFirst(r) ==
    /\ pc[r] = "record"
    /\ InsertStepRow(r)
    /\ Goto(r, IF outcome[r] = "failed" THEN "compensate" ELSE "step")
    /\ pos' = [pos EXCEPT ![r] = @ + 1]
    /\ UNCHANGED <<wf, lock, wid, loc, outcome, undoing, result, outside, crashes>>

\* The step is recorded once it has ended; a completed one joins
\* completedSteps, a failed one starts the compensation.
CreateWorkflowStep(r) ==
    /\ pc[r] = "record"
    /\ InsertStepRow(r)
    /\ \/ /\ outcome[r] = "failed"
          /\ Goto(r, "compensate")
          /\ UNCHANGED pos
       \/ /\ outcome[r] = "completed"
          /\ Goto(r, "step")
          /\ pos' = [pos EXCEPT ![r] = @ + 1]
    /\ UNCHANGED <<wf, lock, wid, loc, outcome, undoing, result, outside, crashes>>

\* Mutant: the error of the INSERT is discarded like that of UpdateWorkflow.
CreateWorkflowStepErrorIgnored(r) ==
    /\ StoreMayFail
    /\ pc[r] = "record"
    /\ outcome[r] = "completed"
    /\ Goto(r, "step")
    /\ pos' = [pos EXCEPT ![r] = @ + 1]
    /\ UNCHANGED <<tables, lock, wid, loc, outcome, undoing, result, outside, crashes>>

\* The INSERT reports an error (it may have been applied): Run returns,
\* leaving the workflow row and the effects of its steps behind.
CreateWorkflowStepError(r) ==
    /\ StoreMayFail
    /\ pc[r] = "record"
    /\ \/ UNCHANGED stepRows
       \/ InsertStepRow(r)
    /\ Goto(r, "unlock")
    /\ Return(r, "stepError")
    /\ UNCHANGED <<wf, lock, local, outside, crashes>>

CompleteRun(r) ==
    /\ pc[r] = "step"
    /\ pos[r] = StepCount
    /\ UpdateWorkflow(r, [loc[r] EXCEPT !.status = "completed", !.completedAt = TRUE])
    /\ Goto(r, "unlock")
    /\ Return(r, "ok")
    /\ UNCHANGED <<stepRows, lock, wid, pos, outcome, undoing, outside, crashes>>

-----------------------------------------------------------------------------
(* Engine.compensate *)

\* Mutant: the backward loop starts one step too low.
StartCompensationLow(r) ==
    /\ pc[r] = "compensate"
    /\ UpdateWorkflow(r, [loc[r] EXCEPT !.status = "compensating"])
    /\ undoing' = [undoing EXCEPT ![r] = IF pos[r] > 0 THEN pos[r] - 1 ELSE 0]
    /\ Goto(r, "undo")
    /\ UNCHANGED <<stepRows, lock, wid, pos, outcome, result, outside, crashes>>

\* Mutant: the failed step is compensated too.
StartCompensationHigh(r) ==
    /\ pc[r] = "compensate"
    /\ UpdateWorkflow(r, [loc[r] EXCEPT !.status = "compensating"])
    /\ undoing' = [undoing EXCEPT ![r] = pos[r] + 1]
    /\ Goto(r, "undo")
    /\ UNCHANGED <<stepRows, lock, wid, pos, outcome, result, outside, crashes>>

\* Mutant: the row is failed before the compensations are called.
StartCompensationFailsFirst(r) ==
    /\ pc[r] = "compensate"
    /\ UpdateWorkflow(r, [loc[r] EXCEPT !.status = "failed"])
    /\ undoing' = [undoing EXCEPT ![r] = pos[r]]
    /\ Goto(r, "undo")
    /\ UNCHANGED <<stepRows, lock, wid, pos, outcome, result, outside, crashes>>

\* w.Status = compensating, then the loop starts at the last completed step.
StartCompensation(r) ==
    /\ pc[r] = "compensate"
    /\ UpdateWorkflow(r, [loc[r] EXCEPT !.status = "compensating"])
    /\ undoing' = [undoing EXCEPT ![r] = pos[r]]
    /\ Goto(r, "undo")
    /\ UNCHANGED <<stepRows, lock, wid, pos, outcome, result, outside, crashes>>

\* Mutant: the "continue" for a step without Compensation skips i--.
UndoStepStuck(r) ==
    LET s == undoing[r] IN
    /\ pc[r] = "undo"
    /\ s \in Compensable
    /\ undoLog' = [undoLog EXCEPT ![r] = Append(@, s)]
    /\ \/ applied' = [applied EXCEPT ![r] = @ \ {s}]
       \/ s \in FlakyUndo /\ UNCHANGED applied
    /\ undoing' = [undoing EXCEPT ![r] = s - 1]
    /\ UNCHANGED <<tables, lock, pc, wid, loc, pos, outcome, result, crashes>>

\* One iteration of the backward loop over completedSteps. An error of the
\* Compensation is logged and the loop goes on.
UndoStep(r) ==
    LET s == undoing[r] IN
    /\ pc[r] = "undo"
    /\ s > 0
    /\ \/ /\ s \notin Compensable
          /\ UNCHANGED outside
       \/ /\ s \in Compensable
          /\ undoLog' = [undoLog EXCEPT ![r] = Append(@, s)]
          /\ \/ applied' = [applied EXCEPT ![r] = @ \ {s}]
             \/ s \in FlakyUndo /\ UNCHANGED applied
    /\ undoing' = [undoing EXCEPT ![r] = s - 1]
    /\ UNCHANGED <<tables, lock, pc, wid, loc, pos, outcome, result, crashes>>

\* Mutant: compensate returns without saving the terminal status.
FailRunUnsaved(r) ==
    /\ pc[r] = "undo"
    /\ undoing[r] = 0
    /\ Goto(r, "unlock")
    /\ Return(r, "failed")
    /\ UNCHANGED <<tables, lock, local, outside, crashes>>

\* Every completed step has been visited: the row becomes failed.
FailRun(r) ==
    /\ pc[r] = "undo"
    /\ undoing[r] = 0
    /\ UpdateWorkflow(r, [loc[r] EXCEPT !.status = "failed"])
    /\ Goto(r, "unlock")
    /\ Return(r, "failed")
    /\ UNCHANGED <<stepRows, lock, wid, pos, outcome, undoing, outside, crashes>>

-----------------------------------------------------------------------------
(* Release of the lock, expiry and crashes *)

\* The deferred DEL: unconditional, whoever set the key.
UnlockWorkflow(r) ==
    /\ pc[r] = "unlock"
    /\ \/ lock' = [lock EXCEPT ![wid[r]] = NoRun]
       \/ CacheMayFail /\ UNCHANGED lock
    /\ Goto(r, "done")
    /\ UNCHANGED <<tables, local, result, outside, crashes>>

\* Mutant: the key is set without a TTL.
ExpireLockNever(w) ==
    /\ FALSE
    /\ UNCHANGED vars

\* Redis drops the key when its TTL is over. With LeaseOutlivesRun that
\* never happens while the run that set it is between SETNX and DEL.
ExpireLock(w) ==
    /\ lock[w] # NoRun
    /\ LeaseOutlivesRun => ~Locked(lock[w])
    /\ lock' = [lock EXCEPT ![w] = NoRun]
    /\ UNCHANGED <<tables, pc, local, result, outside, crashes>>

\* A gateway process dies with every run it hosts; nothing is released.
Crash(g) ==
    /\ crashes < MaxCrashes
    /\ \E r \in Runs : HostOf[r] = g /\ Live(r)
    /\ pc' = [r \in Runs |-> IF HostOf[r] = g /\ Live(r) THEN "crashed" ELSE pc[r]]
    /\ crashes' = crashes + 1
    /\ UNCHANGED <<tables, lock, local, result, outside>>

-----------------------------------------------------------------------------

RunStep(r) ==
    \/ GetWorkflow(r) \/ GetWorkflowError(r)
    \/ LockWorkflow(r) \/ LockRefused(r) \/ LockError(r)
    \/ MarkRunning(r) \/ BeginStep(r)
    \/ ExecuteStep(r) \/ ExecuteStepFails(r)
    \/ CreateWorkflowStep(r) \/ CreateWorkflowStepError(r)
    \/ CompleteRun(r)
    \/ StartCompensation(r) \/ UndoStep(r) \/ FailRun(r)
    \/ UnlockWorkflow(r)

Next ==
    \/ \E w \in Workflows, f \in 0..StepCount : CreateWorkflow(w, f)
    \/ \E r \in Runs, w \in Workflows : RunWorkflow(r, w)
    \/ \E r \in Runs : RunStep(r)
    \/ \E w \in Workflows : ExpireLock(w)
    \/ \E g \in Gateways : Crash(g)

Spec == Init /\ [][Next]_vars

\* A goroutine that is not killed keeps running and its calls return; a TTL
\* always ends. Clients and crashes are under no obligation.
Fairness ==
    /\ \A r \in Runs : WF_vars(RunStep(r))
    /\ \A w \in Workflows : WF_vars(ExpireLock(w))

FairSpec == Spec /\ Fairness

-----------------------------------------------------------------------------
(* Safety *)

\* At most one run of a workflow is between its SETNX and its DEL
\* (LockWorkflow, UnlockWorkflow), whatever is lost, crashes or expires, as
\* long as the lease outlives the run.
SingleExecutor ==
    \A r1, r2 \in Runs :
        Locked(r1) /\ Locked(r2) /\ wid[r1] = wid[r2] => r1 = r2

\* Steps the compensation of r has been called for.
Undone(r) == {undoLog[r][i] : i \in DOMAIN undoLog[r]}

\* Compensations are called in the reverse order of the steps, each once, and
\* a run that reports failure has called one for every compensable step that
\* it had completed (engine.go compensate).
CompensationLIFO ==
    \A r \in Runs :
        /\ \A i, j \in DOMAIN undoLog[r] : i < j => undoLog[r][i] > undoLog[r][j]
        /\ result[r] = "failed" =>
             Undone(r) = {s \in Compensable : s <= pos[r]}

\* After a failed run no effect of a compensable step stands, with two
\* exceptions: steps whose Compensation may return an error (FlakyUndo), and the
\* failed step itself, which compensate does not visit even if its Execute had
\* done something before the error.
FailureRollsBack ==
    \A r \in Runs :
        result[r] = "failed" =>
            applied[r] \cap Compensable \subseteq FlakyUndo \cup {pos[r] + 1}

\* workflow_steps reads as one complete run after another: the rows of a run
\* are consecutive, in step order, and only its last one may be a failure.
StepRowsSequential ==
    \A w \in Workflows : \A i, j \in DOMAIN stepRows[w] :
        /\ i < j
        /\ stepRows[w][i].run = stepRows[w][j].run
        => /\ stepRows[w][i].status = "completed"
           /\ stepRows[w][j].step = stepRows[w][i].step + (j - i)

\* A row says "completed" only when one single run has recorded every step as
\* completed, even if writes to the row were lost.
CompletedRowAudited ==
    \A w \in Workflows :
        wf[w].status = "completed" =>
            \E r \in Runs : \A s \in Steps :
                \E i \in DOMAIN stepRows[w] :
                    stepRows[w][i] = [run |-> r, step |-> s, status |-> "completed"]

\* A row says "failed" only when one run has recorded a failed step and has
\* called the compensation of every compensable step before it.
FailedRowAudited ==
    \A w \in Workflows :
        wf[w].status = "failed" =>
            \E i \in DOMAIN stepRows[w] :
                LET row == stepRows[w][i] IN
                /\ row.status = "failed"
                /\ {s \in Compensable : s < row.step} \subseteq Undone(row.run)

\* The state machine of docs/architecture.md, without the cancellation that no
\* code implements.
StatusEdges ==
    { <<"absent", "pending">>, <<"pending", "running">>,
      <<"running", "completed">>, <<"running", "compensating">>,
      <<"compensating", "failed">> }

OnGraph(w) == <<wf[w].status, wf'[w].status>> \in StatusEdges

\* Run r makes its first write to the row of w.
TakesOver(r, w) == wid[r] = w /\ pc[r] = "mark" /\ pc'[r] = "step"


\* What Run does keep while PostgreSQL answers: a row leaves the documented
\* state machine only by the first write of a run, which sets it to running
\* whatever it was. Every later write of that run is on the graph again, although
\* it writes back a copy of the row that it read before it had the lock.
OffGraphOnlyAtStart ==
    [][\A w \in Workflows : wf'[w].status # wf[w].status =>
          \/ OnGraph(w)
          \/ wf'[w].status = "running" /\ \E r \in Runs : TakesOver(r, w)]_vars

-----------------------------------------------------------------------------
(* Inductive strengthening of the invariants above *)

\* The key of a run between SETNX and DEL still carries that run's value.
LockHeld ==
    LeaseOutlivesRun => \A r \in Runs : Locked(r) => lock[wid[r]] = r

\* Where a run has called no compensation and has not failed yet.
ForwardPC == {"idle", "load", "lock", "mark", "step", "exec", "record", "compensate"}

UndoneSoFar(r) ==
    /\ pc[r] \in ForwardPC => undoLog[r] = <<>>
    /\ pc[r] = "undo" =>
         /\ undoing[r] <= pos[r]
         /\ Undone(r) = {s \in Compensable : undoing[r] < s /\ s <= pos[r]}
    /\ result[r] = "failed" =>
         /\ pc[r] \in {"unlock", "done", "crashed"}
         /\ Undone(r) = {s \in Compensable : s <= pos[r]}
    /\ \A i, j \in DOMAIN undoLog[r] : i < j => undoLog[r][i] > undoLog[r][j]

EffectsSoFar(r) ==
    /\ pc[r] \in {"idle", "load", "lock", "mark"} => pos[r] = 0 /\ applied[r] = {}
    /\ pc[r] \in {"step", "exec"} => applied[r] \subseteq 1..pos[r]
    /\ pc[r] \in {"record", "compensate"} => applied[r] \subseteq 1..(pos[r] + 1)
    /\ pc[r] = "undo" =>
         applied[r] \cap Compensable \subseteq FlakyUndo \cup 1..undoing[r] \cup {pos[r] + 1}
    /\ result[r] = "failed" =>
         /\ pc[r] \in {"unlock", "done", "crashed"}
         /\ applied[r] \cap Compensable \subseteq FlakyUndo \cup {pos[r] + 1}

\* What holds of the lock, of the compensations called and of the effects
\* that stand at every point of Engine.Run and compensate; it implies
\* SingleExecutor, CompensationLIFO and FailureRollsBack.
RunInvariant ==
    /\ LockHeld
    /\ \A r \in Runs : UndoneSoFar(r) /\ EffectsSoFar(r)

-----------------------------------------------------------------------------
(* Refinement: what the engine promises of a workflow is Saga *)

\* Runs at work on w: the lock is theirs and the attempt has not ended.
Executors(w) ==
    {r \in Runs : pc[r] \in LockedPC \ {"unlock"} /\ wid[r] = w}

Executor(w) == CHOOSE r \in Executors(w) : TRUE

Direction(r) == IF pc[r] \in {"compensate", "undo"} THEN "backward" ELSE "forward"

\* Steps done and not yet visited by the compensation. A step counts as soon
\* as it was executed, before its row is written.
Standing(r) ==
    CASE pc[r] = "undo" -> undoing[r]
      [] pc[r] = "record" /\ outcome[r] = "completed" -> pos[r] + 1
      [] OTHER -> pos[r]

sagaPhase ==
    [w \in Workflows |-> IF Executors(w) = {} THEN "idle" ELSE Direction(Executor(w))]

sagaDepth ==
    [w \in Workflows |-> IF Executors(w) = {} THEN 0 ELSE Standing(Executor(w))]

SagaOf == INSTANCE Saga WITH phase <- sagaPhase, depth <- sagaDepth

\* Engine.Run with its lock, its lost writes and its crashes implements Saga:
\* attempts at a workflow never overlap, go forward step by step, turn back at
\* most once, and report success or failure only from the right end.
ImplementsSaga == SagaOf!Spec

-----------------------------------------------------------------------------
(* Liveness *)

\* Every requested run returns unless its process dies.
RunReturns ==
    \A r \in Runs : pc[r] = "load" ~> pc[r] \in {"done", "crashed"}

\* No lock is held forever: neither a crash nor a lost DEL blocks a workflow
\* for good, because the key expires.
LockFreed ==
    \A w \in Workflows : lock[w] # NoRun ~> lock[w] = NoRun

\* A workflow that started reaches a terminal status as long as no process has
\* crashed. After a crash nothing resumes it: the row stays as it is until a
\* client asks for another run.
StartedSettlesUnlessCrash ==
    \A w \in Workflows :
        wf[w].status \in {"running", "compensating"}
            ~> (wf[w].status \in {"completed", "failed"} \/ crashes > 0)

=============================================================================
