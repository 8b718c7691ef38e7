-------------------------- MODULE WorkflowService ---------------------------
(***************************************************************************)
(* The processes around the saga engine: the handlers of the gateways for  *)
(* POST /workflows, POST /workflows/:id/run and GET /workflows/:id with    *)
(* their gRPC twins, and the workflow-engine process, which may run one    *)
(* demonstration workflow of its own at start-up.                          *)
(*                                                                         *)
(* Engine.Get reads the row of workflows and then the rows of              *)
(* workflow_steps, in two queries and outside of a transaction; the runs   *)
(* write both in between.                                                  *)
(***************************************************************************)
EXTENDS WorkflowEngine, FiniteSets

CONSTANTS
    DemoHost,   \* the workflow-engine process, one of Gateways
    MaxRuns     \* bound: runs that are requested

ASSUME ServiceAssumption == DemoHost \in Gateways /\ MaxRuns \in Nat

VARIABLES
    view,   \* what a GET under way has read
    demo    \* where main of workflow-engine is: its demonstration, or serving

serviceVars == <<vars, view, demo>>

\* reads: queries made; of: the workflow asked for.
NoView == [reads |-> 0, of |-> NoWorkflow, status |-> "absent", steps |-> <<>>]

\* DEMO_WORKFLOW may be set or not.
ServiceInit ==
    /\ Init
    /\ view = NoView
    /\ demo \in {[pc |-> l, of |-> NoWorkflow] : l \in {"create", "serve"}}

\* A definition that is not registered, or an error of the INSERT, is answered
\* with 400 and leaves nothing behind.
PostWorkflow(w, f) == CreateWorkflow(w, f) /\ UNCHANGED <<view, demo>>

MoreRuns == Cardinality({r \in Runs : pc[r] # "idle"}) < MaxRuns

PostRun(r, w) ==
    /\ MoreRuns /\ HostOf[r] # DemoHost
    /\ RunWorkflow(r, w)
    /\ UNCHANGED <<view, demo>>

\* The demonstration creates an OrderFulfillment that nothing makes fail, and
\* runs it only if the row was written.
DemoCreate(w) ==
    /\ demo.pc = "create"
    /\ \/ CreateWorkflow(w, 0) /\ demo' = [pc |-> "run", of |-> w]
       \/ StoreMayFail /\ demo' = [demo EXCEPT !.pc = "serve"] /\ UNCHANGED vars
    /\ UNCHANGED view

DemoRun(r) ==
    /\ demo.pc = "run" /\ MoreRuns /\ HostOf[r] = DemoHost
    /\ RunWorkflow(r, demo.of)
    /\ demo' = [demo EXCEPT !.pc = "serve"]
    /\ UNCHANGED view

-----------------------------------------------------------------------------
(* Engine.Get *)

\* Mutant of Order: the steps are listed first.
OrderStepsFirst == <<"steps", "row">>

Order == <<"row", "steps">>

\* SELECT ... FROM workflows.
ReadRow(w) == [view EXCEPT !.reads = @ + 1, !.of = w, !.status = wf[w].status]

\* SELECT ... FROM workflow_steps: the rows written so far.
ListWorkflowSteps(w) == [view EXCEPT !.reads = @ + 1, !.of = w, !.steps = stepRows[w]]

\* The view with the answer of the next query.
Query(w) == IF Order[view.reads + 1] = "row" THEN ReadRow(w) ELSE ListWorkflowSteps(w)

\* After the second query the request is answered. A missing row ends it with
\* 404, and so does an error of either query.
GetView(w) ==
    /\ view.of \in {NoWorkflow, w}
    /\ wf[w].status # "absent"
    /\ view' = IF view.reads = 0 THEN Query(w) ELSE NoView
    /\ UNCHANGED <<vars, demo>>

-----------------------------------------------------------------------------

ServiceNext ==
    \/ \E w \in Workflows, f \in 0..StepCount : PostWorkflow(w, f)
    \/ \E r \in Runs, w \in Workflows : PostRun(r, w)
    \/ \E w \in Workflows : DemoCreate(w) \/ GetView(w)
    \/ \E r \in Runs : DemoRun(r)
    \/ /\ \/ \E r \in Runs : RunStep(r)
          \/ \E w \in Workflows : ExpireLock(w)
          \/ \E g \in Gateways : Crash(g)
       /\ UNCHANGED <<view, demo>>

ServiceSpec == ServiceInit /\ [][ServiceNext]_serviceVars

\* Fairness of the engine; clients and the demonstration are under no obligation.
FairServiceSpec == ServiceSpec /\ Fairness

-----------------------------------------------------------------------------

\* An answer is no further than the steps it lists: "completed" comes with every
\* step of one run, "failed" with the step that failed.
Sound(v) ==
    /\ v.status = "completed" =>
         \E r \in Runs : \A s \in Steps : \E i \in DOMAIN v.steps :
            v.steps[i] = [run |-> r, step |-> s, status |-> "completed"]
    /\ v.status = "failed" =>
         \E i \in DOMAIN v.steps : v.steps[i].status = "failed"

\* Every answer of GET /workflows/:id is sound in this sense, although its row
\* and its steps were read at different times and runs wrote both in between.
GetConsistent ==
    [][\A w \in Workflows : view.of = w /\ view' = NoView => Sound(Query(w))]_serviceVars

=============================================================================
