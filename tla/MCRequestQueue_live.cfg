SPECIFICATION FairSpec
CONSTANTS
    Requests <- OneRequest
    MaxSends = 1
    Infos = {i1}
    Priorities <- HighLow
    Timeouts = {0, 6}
    Sizes = {1}
    MaxUpdates = 1
    UpdateKeys <- AllKeysOrNone
    Terminates = TRUE
    Fails = FALSE
    RateLimited = FALSE
    Undefined = Undefined
    Infinity = Infinity
    QueueLimit = 1
    QueueSize = Undefined
    RequestPidUses = 1
    InfoPidUses = Infinity
    ResponseTimeoutImmediateMax = 5
    RequestNameLookup = "sync"
    r1 = r1
    r2 = r2
    r3 = r3
    i1 = i1
PROPERTIES
    QueueDrains
    EndsOnlyWhenIdle
    RequestEnds
    UpdateAnswered
CHECK_DEADLOCK FALSE
