SPECIFICATION Spec
CONSTANTS
    c1 = c1
    c2 = c2
    c3 = c3
    p1 = p1
    p2 = p2
    Undefined = Undefined
    SendCalls <- TwoCalls
    RecvCalls <- NoCalls
    Pids <- TwoPids
    Mortal <- TwoPids
    Forwarding = TRUE
    MaxTransId = 2
    Timeouts <- ShortLong
    Ops <- MixedOps
    RequestTimeoutImmediateMax = 2
    ResponseTimeoutAdjustment = FALSE
    RequestNameLookup = "sync"
    DestRefreshImmediate = FALSE
SYMMETRY Symmetry
INVARIANTS
    TypeOK
    EndedOnceByItsOwn
    MonitorBookkeeping
    MonitorsCover
    PendingWillEnd
CHECK_DEADLOCK FALSE
