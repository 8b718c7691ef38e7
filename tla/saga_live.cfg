SPECIFICATION FairServiceSpec
CONSTANTS
    r1 = r1  r2 = r2  r3 = r3  g1 = g1  g2 = g2  g3 = g3
    DemoHost = g3  MaxRuns = 3
    Workflows = {w1}
    Runs = {r1, r2, r3}
    NoRun = NoRun
    NoWorkflow = NoWorkflow
    Gateways = {g1, g2, g3}
    HostOf <- MCHostOf
    StepCount = 3
    Compensable = {2}
    FlakySteps = {}
    FlakyUndo = {}
    MaxCrashes = 1
    LeaseOutlivesRun = TRUE
    StoreMayFail = FALSE
    CacheMayFail = TRUE
PROPERTIES
    OffGraphOnlyAtStart RunReturns LockFreed StartedSettlesUnlessCrash GetConsistent
CHECK_DEADLOCK FALSE
