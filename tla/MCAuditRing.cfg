SPECIFICATION RingFairSpec
CONSTANTS
    p1 = p1
    p2 = p2
    NULL = NULL
    Producers <- MCProducers
    Size = 2
    Modulus = 64
    MaxCalls = 2
INVARIANTS
    RingTypeOK
    SlotOwnership
PROPERTIES
    RingIsFifo
    EveryClaimIsDelivered
CHECK_DEADLOCK FALSE
