SPECIFICATION Spec
CONSTANTS
    Workers = {c1, c2}
    NoWorker = NoWorker
    MaxLog = 2
    Poison = {1}
    Purchases = {2}
    Audited = {}
    MaxAttempts = 2
    BatchLimit = 1
    RetryMayPass = TRUE
    StoreMayFail = FALSE
    ApiMayFail = FALSE
    CommitMayFail = TRUE
    FaultKinds = {"crash", "shutdown", "fatal", "rebalance"}
    MaxFaults = 2
SYMMETRY WorkerSymmetry
INVARIANTS
    TypeOK CommittedCovered OffsetRowCovered DeliveryInvariant AttemptsBounded DLQEarned
CHECK_DEADLOCK FALSE
