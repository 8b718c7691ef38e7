SPECIFICATION FairSpec
CONSTANTS
    Workers = {c1, c2}
    NoWorker = NoWorker
    MaxLog = 2
    Poison = {1}
    Purchases = {}
    Audited = {1}
    MaxAttempts = 2
    BatchLimit = 2
    RetryMayPass = FALSE
    StoreMayFail = FALSE
    ApiMayFail = FALSE
    CommitMayFail = FALSE
    FaultKinds = {"crash"}
    MaxFaults = 1
PROPERTIES
    PoisonReachesDLQ
CHECK_DEADLOCK FALSE
