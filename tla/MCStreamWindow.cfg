SPECIFICATION WindowFairSpec
CONSTANTS
    MaxLength = 6
    MaxPlace = 4
    Streams <- MCStreams
    Windows <- MCWindows
    ReadSize = 4
INVARIANTS
    WindowTypeOK
    NoLeak
    VerdictIsRight
    BoundedHold
PROPERTIES
    LeavingEndsStream
CHECK_DEADLOCK FALSE
