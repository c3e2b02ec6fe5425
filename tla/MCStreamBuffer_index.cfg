SPECIFICATION Spec
CONSTANTS
    MaxSize = 4
    MaxWritten = 6
INVARIANT IndexExact
CHECK_DEADLOCK FALSE
