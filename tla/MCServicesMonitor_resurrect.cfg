SPECIFICATION Spec
CONSTANTS
    Services = {s1}
    Scenarios <- OnlyDelayed
    MaxT = 1
    MaxPids = 6
    MaxTime = 2
    s1 = s1
PROPERTIES
    TerminatedStays
CHECK_DEADLOCK FALSE
