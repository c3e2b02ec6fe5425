SPECIFICATION Spec
CONSTANTS
    Children = {c1, c2}
    Self = Self
    Ports = 2
    UserOf <- UserIds
    GroupOf <- GroupIds
    IdModulus = 4
    LimitsOf <- Limits
    Inherited <- Own
    MaxLimit = 4
    Closing = {c2}
    Failing = {c1}
    Exits = {0}
    Statuses = {11, 59, 60}
    Endings = {12, 80, 81, 99, 112, 113, 123, 127}
    MaxFd = 17
    Buffered = 1
    MaxLines <- Printed
    c1 = c1
    c2 = c2
INVARIANTS
    KilledForAReason
    
    PollArrayExact
    StartedAsConfigured
    DeathsSeen
    CauseReported
    EndsCleanly
CHECK_DEADLOCK FALSE
