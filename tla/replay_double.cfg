SPECIFICATION Spec
CONSTANTS
    k1 = k1  NoKey = NoKey  AnyPart = AnyPart
    Keys = {k1}
    PartitionOf <- MCPartitionOf
    Shapes <- ReplayShapes
    ReplayLimit = 2
    MaxArrivals = 2
    MaxDLQ = 2
    MaxExpiries = 0
    MaxFaults = 0
INVARIANTS
    ReplayedOnce
CHECK_DEADLOCK FALSE
