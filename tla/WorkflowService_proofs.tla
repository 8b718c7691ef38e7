----------------------- MODULE WorkflowService_proofs -----------------------
(***************************************************************************)
(* The processes around the engine implement it, so that what is proved of *)
(* WorkflowEngine holds with the workflow-engine process and with clients  *)
(* that read while runs are under way; and what these clients read is      *)
(* consistent.                                                             *)
(***************************************************************************)
EXTENDS WorkflowService, WorkflowEngineSaga_proofs

\* The demonstration runs a workflow it has created.
DemoOwns ==
    /\ demo \in [pc : {"create", "run", "serve"}, of : Workflows \cup {NoWorkflow}]
    /\ demo.pc = "run" => demo.of \in Workflows

\* A GET between its two queries has read a status that the rows of
\* workflow_steps bear out by now.
ViewSound ==
    \/ view = NoView
    \/ /\ view.of \in Workflows /\ view.reads = 1
       /\ DOMAIN view = DOMAIN NoView
       /\ view.status = "completed" => FullRun(view.of)
       /\ view.status = "failed" =>
            \E i \in DOMAIN stepRows[view.of] : stepRows[view.of][i].status = "failed"

\* Every step of the processes is a step of the engine or leaves its state alone.
LEMMA ServiceStep ==
    ASSUME DemoOwns, [ServiceNext]_serviceVars
    PROVE  [Next]_vars /\ DemoOwns'
  <1> USE DEF Next, DemoOwns
  <1>1. CASE UNCHANGED serviceVars
    BY <1>1 DEF serviceVars
  <1>2. ASSUME NEW w \in Workflows, NEW f \in 0..StepCount, PostWorkflow(w, f)
        PROVE  Next /\ DemoOwns'
    BY <1>2 DEF PostWorkflow
  <1>3. ASSUME NEW r \in Runs, NEW w \in Workflows, PostRun(r, w)
        PROVE  Next /\ DemoOwns'
    BY <1>3 DEF PostRun
  <1>4. ASSUME NEW w \in Workflows, DemoCreate(w)
        PROVE  [Next]_vars /\ DemoOwns'
    <2>1. 0 \in 0..StepCount
      BY StepsAssumption
    <2>2. [Next]_vars
      BY <1>4, <2>1 DEF DemoCreate
    <2>3. demo' = [pc |-> "run", of |-> w] \/ demo' = [demo EXCEPT !.pc = "serve"]
      BY <1>4 DEF DemoCreate
    <2> QED
      BY <2>2, <2>3
  <1>5. ASSUME NEW w \in Workflows, GetView(w)
        PROVE  UNCHANGED vars /\ DemoOwns'
    BY <1>5 DEF GetView
  <1>6. ASSUME NEW r \in Runs, DemoRun(r)
        PROVE  Next /\ DemoOwns'
    BY <1>6 DEF DemoRun
  <1>7. CASE /\ \/ \E r \in Runs : RunStep(r)
                \/ \E w \in Workflows : ExpireLock(w)
                \/ \E g \in Gateways : Crash(g)
             /\ UNCHANGED <<view, demo>>
    BY <1>7
  <1> QED
    BY <1>1, <1>2, <1>3, <1>4, <1>5, <1>6, <1>7 DEF ServiceNext

\* What a GET has read stays borne out while runs write both tables.
LEMMA ViewStays ==
    ASSUME TypeOK, AuditInvariant, DemoOwns, ViewSound, [ServiceNext]_serviceVars
    PROVE  ViewSound'
  <1>n. [Next]_vars
    BY ServiceStep
  <1>1. CASE view' = view
    <2>1. CASE view = NoView
      BY <1>1, <2>1 DEF ViewSound, NoView
    <2>2. CASE view # NoView
      <3>1. PICK w \in Workflows : w = view.of
        BY <2>2 DEF ViewSound
      <3>2. FullRun(w) => FullRun(w)'
        BY <1>n, EvidenceStays
      <3>3. (\E i \in DOMAIN stepRows[w] : stepRows[w][i].status = "failed")
              => (\E i \in DOMAIN stepRows'[w] : stepRows'[w][i].status = "failed")
        BY <1>n, StepRowsStay
      <3> HIDE DEF NoView
      <3>4. view.status = "completed" => FullRun(w)'
        BY <2>2, <3>1, <3>2 DEF ViewSound
      <3>5. view'.of = w
        BY <1>1, <3>1
      <3>6. view'.status = "completed" => FullRun(view.of)'
        BY <1>1, <3>4, <3>5 DEF FullRun, HasStep
      <3> QED
        BY <1>1, <2>2, <3>1, <3>3, <3>5, <3>6 DEF ViewSound
    <2> QED
      BY <2>1, <2>2
  <1>2. ASSUME NEW w \in Workflows, GetView(w)
        PROVE  ViewSound'
    <2>1. CASE view' = NoView
      BY <2>1 DEF ViewSound, NoView
    <2>2. CASE view.reads = 0 /\ view' = Query(w)
      <3>1. view = NoView
        BY <2>2 DEF ViewSound
      <3>2. /\ view'.reads = 1 /\ view'.of = w /\ view'.status = wf[w].status
            /\ DOMAIN view' = DOMAIN NoView
        <4>1. view.reads + 1 = 1 /\ Order[1] = "row"
          BY <2>2 DEF Order
        <4>2. view' = [view EXCEPT !.reads = @ + 1, !.of = w, !.status = wf[w].status]
          BY <2>2, <4>1 DEF Query, ReadRow
        <4> QED
          BY <3>1, <4>2 DEF NoView
      <3>3. stepRows' = stepRows
        BY <1>2 DEF GetView, vars, tables
      <3>4. /\ wf[w].status = "completed" => FullRun(w)
            /\ wf[w].status = "failed" =>
                 \E i \in DOMAIN stepRows[w] : stepRows[w][i].status = "failed"
        BY DEF AuditInvariant, CompletedRowAudited, FailedRowAudited, FullRun, HasStep
      <3>5. view'.status = "completed" => FullRun(view.of)'
        BY <3>2, <3>3, <3>4 DEF FullRun, HasStep
      <3> QED
        BY <3>2, <3>3, <3>4, <3>5 DEF ViewSound
    <2> QED
      BY <1>2, <2>1, <2>2 DEF GetView
  <1>3. CASE UNCHANGED serviceVars
    BY <1>1, <1>3 DEF serviceVars
  <1> QED
    BY <1>1, <1>2, <1>3 DEF ServiceNext, PostWorkflow, PostRun, DemoCreate, DemoRun

\* The inductive invariant of the processes.
ServiceInvariant == TypeOK /\ RunInvariant /\ AuditInvariant /\ DemoOwns /\ ViewSound

\* It holds in every reachable state of the gateways and workflow-engine.
LEMMA ServiceInvariantHolds == ServiceSpec => []ServiceInvariant
  <1>1. ServiceInit => ServiceInvariant
    <2> SUFFICES ASSUME ServiceInit PROVE ServiceInvariant
      OBVIOUS
    <2>1. Init /\ view = NoView /\ demo \in {[pc |-> l, of |-> NoWorkflow] : l \in {"create", "serve"}}
      BY DEF ServiceInit
    <2>2. DemoOwns
      BY <2>1 DEF DemoOwns
    <2>3. ViewSound
      BY <2>1 DEF ViewSound
    <2>4. AuditInvariant
      BY <2>1 DEF Init, AuditInvariant, CompletedRowAudited, FailedRowAudited, Trail, NoRow
    <2> QED
      BY <2>1, <2>2, <2>3, <2>4, TypeInit, RunInvariantInit DEF ServiceInvariant
  <1>2. ServiceInvariant /\ [ServiceNext]_serviceVars => ServiceInvariant'
    BY ServiceStep, ViewStays, TypeNext, RunInvariantNext, AuditNext DEF ServiceInvariant
  <1> QED
    BY <1>1, <1>2, PTL DEF ServiceSpec

\* The gateways' handlers and the workflow-engine process implement the engine.
THEOREM ServiceImplementsEngine == ServiceSpec => Spec
  <1>1. ServiceInit => Init
    BY DEF ServiceInit
  <1>2. ServiceInvariant /\ [ServiceNext]_serviceVars => [Next]_vars
    BY ServiceStep DEF ServiceInvariant
  <1> QED
    BY <1>1, <1>2, ServiceInvariantHolds, PTL DEF ServiceSpec, Spec

\* Every answer of GET /workflows/:id is consistent in itself, although Get
\* reads the row and the steps in two queries.
THEOREM AnswersConsistent == ServiceSpec => GetConsistent
  <1> DEFINE Consistent == \A w \in Workflows : view.of = w /\ view' = NoView => Sound(Query(w))
  <1>1. ASSUME ServiceInvariant, NEW w \in Workflows, view.of = w
        PROVE  Sound(Query(w))
    <2>1. view # NoView
      BY <1>1, RunsAssumption DEF NoView
    <2>2. /\ view.reads = 1 /\ DOMAIN view = DOMAIN NoView
          /\ view.status = "completed" => FullRun(w)
          /\ view.status = "failed" => \E i \in DOMAIN stepRows[w] : stepRows[w][i].status = "failed"
      BY <1>1, <2>1 DEF ServiceInvariant, ViewSound
    <2>3. Query(w) = [view EXCEPT !.reads = @ + 1, !.of = w, !.steps = stepRows[w]]
      BY <2>2 DEF Query, Order, ListWorkflowSteps
    <2>4. Query(w).status = view.status /\ Query(w).steps = stepRows[w]
      BY <2>2, <2>3 DEF NoView
    <2> HIDE DEF Query
    <2> QED
      BY <2>2, <2>4 DEF Sound, FullRun, HasStep
  <1>2. ServiceInvariant /\ [ServiceNext]_serviceVars => [Consistent]_serviceVars
    BY <1>1
  <1> QED
    BY <1>2, ServiceInvariantHolds, PTL DEF ServiceSpec, GetConsistent

\* Mutual exclusion holds across gateways and the workflow-engine process.
THEOREM ServiceExclusion ==
    ASSUME LeaseOutlivesRun PROVE ServiceSpec => []SingleExecutor
  BY ServiceImplementsEngine, MutualExclusion, PTL

\* Seen from the gateways and workflow-engine as well, an execution is a saga:
\* steps in order, each at most once, compensations in reverse.
THEOREM ServiceIsSaga ==
    ASSUME LeaseOutlivesRun PROVE ServiceSpec => ImplementsSaga
  BY ServiceImplementsEngine, EngineImplementsSaga, PTL

\* While no statement fails, the status of a workflow leaves the documented
\* state machine only where a run starts, whichever process runs it.
THEOREM ServiceOffGraphAtStart ==
    ASSUME ~StoreMayFail, LeaseOutlivesRun PROVE ServiceSpec => OffGraphOnlyAtStart
  BY ServiceImplementsEngine, OffGraphAtStart, PTL

=============================================================================
