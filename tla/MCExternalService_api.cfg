SPECIFICATION Spec
CONSTANTS
    Requests = {r1}
    Patterns = {x1}
    PatternOf <- OnePattern
    TypeOf <- OneOfEach
    Functions = {f1}
    Calls = {"subscribe_count", "send_async", "mcast_async", "recv_async"}
    MaxCalls = 1
    MaxSubscribes = 1
    CallsBetweenPolls = FALSE
    MaxProcesses = 1
    MayTerminate = TRUE
    MayFail = TRUE
    MayCrash = TRUE
    OsPidKnown = TRUE
    NullFunction = NullFunction
    NoRequest = NoRequest
    r1 = r1
    r2 = r2
    x1 = x1
    f1 = f1
    f2 = f2
PROPERTIES
    RequestsEnd
    
CHECK_DEADLOCK FALSE
