SPECIFICATION Spec
CONSTANTS
    r1 = r1  r3 = r3  g1 = g1  g2 = g2
    Workflows = {w1}
    Runs = {r1, r3}
    NoRun = NoRun
    NoWorkflow = NoWorkflow
    Gateways = {g1, g2}
    HostOf <- MCHostOf
    StepCount = 3
    Compensable = {1, 2}
    FlakySteps = {2}
    FlakyUndo = {1}
    MaxCrashes = 1
    LeaseOutlivesRun = TRUE
    StoreMayFail = TRUE
    CacheMayFail = TRUE
INVARIANTS
    TypeOK SingleExecutor CompensationLIFO FailureRollsBack
    StepRowsSequential CompletedRowAudited FailedRowAudited RunInvariant
CHECK_DEADLOCK FALSE
PROPERTIES
    ImplementsSaga
