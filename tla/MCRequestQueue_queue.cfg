SPECIFICATION Spec
CONSTANTS
    Requests <- TwoRequests
    MaxSends = 1
    Infos = {i1}
    Priorities <- HighLow
    Timeouts = {0, 3, 6}
    Sizes = {1, 2}
    MaxUpdates = 1
    UpdateKeys <- AllKeysOrNone
    Terminates = FALSE
    Fails = TRUE
    RateLimited = TRUE
    Undefined = Undefined
    Infinity = Infinity
    QueueLimit = 2
    QueueSize = 2
    RequestPidUses = 2
    InfoPidUses = 1
    ResponseTimeoutImmediateMax = 5
    RequestNameLookup = "async"
    r1 = r1
    r2 = r2
    r3 = r3
    i1 = i1
SYMMETRY Symmetry
INVARIANTS
    QueueExact
    NothingLost
    CallbacksSerial
    QueuesMove
CHECK_DEADLOCK FALSE
