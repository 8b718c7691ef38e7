SPECIFICATION FairSpec
CONSTANTS
    Workers = {c1, c2}
    NoWorker = NoWorker
    MaxLog = 2
    Poison = {1}
    Purchases = {2}
    Audited = {1}
    MaxAttempts = 2
    BatchLimit = 2
    RetryMayPass = FALSE
    StoreMayFail = FALSE
    ApiMayFail = FALSE
    CommitMayFail = FALSE
    FaultKinds = {"crash", "rebalance", "fatal"}
    MaxFaults = 1
INVARIANTS
    CommittedPurchaseStarted
PROPERTIES
    GoodCommitted PoisonReachesDLQUnlessRestart
CHECK_DEADLOCK FALSE
