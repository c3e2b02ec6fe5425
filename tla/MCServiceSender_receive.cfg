SPECIFICATION Spec
CONSTANTS
    c1 = c1
    c2 = c2
    c3 = c3
    p1 = p1
    p2 = p2
    Undefined = Undefined
    SendCalls <- OneCall
    RecvCalls <- OtherCalls
    Pids <- TwoPids
    Mortal <- NoPid
    Forwarding = FALSE
    MaxTransId = 2
    Timeouts <- Retry
    Ops <- ReceiveOps
    RequestTimeoutImmediateMax = 9
    ResponseTimeoutAdjustment = TRUE
    RequestNameLookup = "sync"
    DestRefreshImmediate = FALSE
SYMMETRY Symmetry
INVARIANTS
    ConsumedOnce
    ResponseKept
CHECK_DEADLOCK FALSE
