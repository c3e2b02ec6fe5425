SPECIFICATION Spec
CONSTANTS
    Requests = {r1, r2}
    Patterns = {x1}
    PatternOf <- OnePattern
    TypeOf <- OneOfEach
    Functions = {f1}
    Calls = {"send_sync"}
    MaxCalls = 1
    MaxSubscribes = 1
    CallsBetweenPolls = TRUE
    MaxProcesses = 2
    MayTerminate = FALSE
    MayFail = FALSE
    MayCrash = TRUE
    OsPidKnown = TRUE
    NullFunction = NullFunction
    NoRequest = NoRequest
    r1 = r1
    r2 = r2
    x1 = x1
    f1 = f1
    f2 = f2
INVARIANTS
    RequestIntact
    RequestSomewhere
    BothSidesAgree
PROPERTIES
    KeepsContract
CHECK_DEADLOCK FALSE
