SPECIFICATION Spec
CONSTANTS
    Services = {s1}
    Scenarios <- AllSafety
    MaxT = 1
    MaxPids = 5
    MaxTime = 3
    s1 = s1
INVARIANTS
    ProcessesWatched
    OneGeneration
    RestartBound
    IndexHeld
    BlockedForAReason
PROPERTIES
    ShutdownComplete
CHECK_DEADLOCK FALSE
