SPECIFICATION FairSpec
CONSTANTS
    MaxSize = 4
    MaxWritten = 6
INVARIANTS
    TypeOK
    InBounds
    BytesInOrder
PROPERTIES
    LineDelivered
CHECK_DEADLOCK FALSE
