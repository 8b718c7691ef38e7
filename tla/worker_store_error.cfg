SPECIFICATION Spec
CONSTANTS
    Workers = {c1, c2}
    NoWorker = NoWorker
    MaxLog = 2
    Poison = {1}
    Purchases = {}
    Audited = {1}
    MaxAttempts = 2
    BatchLimit = 2
    RetryMayPass = FALSE
    StoreMayFail = TRUE
    ApiMayFail = FALSE
    CommitMayFail = FALSE
    FaultKinds = {}
    MaxFaults = 0
INVARIANTS
    CommittedCovered
CHECK_DEADLOCK FALSE
