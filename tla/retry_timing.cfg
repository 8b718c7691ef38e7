SPECIFICATION DemoSpec
CONSTANTS
    Events = {e1}
    Environments <- MCEnvironments
    Scenarios <- MCScenarios
    BatchLimit = 2
    Grain = 1000
    MaxTime = 32000
    MaxLag = 1000
    MaxBehind = 2000
    ReplayLimit = 2
    MaxRows = 3
INVARIANTS
    TypeOK NoStarvation DemoReplayComplete
PROPERTIES
    Spacing
CHECK_DEADLOCK FALSE
