SPECIFICATION FairSpec
CONSTANTS
    k1 = k1  NoKey = NoKey  AnyPart = AnyPart
    Keys = {k1}
    PartitionOf <- MCPartitionOf
    Shapes <- AllShapes
    ReplayLimit = 1
    MaxArrivals = 2
    MaxDLQ = 2
    MaxExpiries = 1
    MaxFaults = 1
INVARIANTS
    TypeOK ClaimsInLog KeyOnce RequestOrder FaultFreeComplete SoloReplayOnce
PROPERTIES
    CleanExit RequestsAnswered ShutdownCompletes
CHECK_DEADLOCK FALSE
