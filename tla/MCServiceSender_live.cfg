SPECIFICATION FairSpec
CONSTANTS
    c1 = c1
    c2 = c2
    c3 = c3
    p1 = p1
    p2 = p2
    Undefined = Undefined
    SendCalls <- OneCall
    RecvCalls <- OtherCall
    Pids <- OnePid
    Mortal <- OnePid
    Forwarding = FALSE
    MaxTransId = 2
    Timeouts <- ShortLong
    Ops <- AllOps
    RequestTimeoutImmediateMax = 2
    ResponseTimeoutAdjustment = FALSE
    RequestNameLookup = "sync"
    DestRefreshImmediate = TRUE
PROPERTIES
    EverythingEnds
CHECK_DEADLOCK FALSE
