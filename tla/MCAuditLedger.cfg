SPECIFICATION LedgerFairSpec
CONSTANTS
    p1 = p1
    p2 = p2
    NULL = NULL
    Producers <- MCProducers
    Size = 2
    Modulus = 64
    MaxCalls = 1
    BatchLimit = 2
    MaxBoots = 2
    MaxFaults = 1
INVARIANTS
    LedgerTypeOK
    ChainIntact
    JournalFollowsRing
    QuietCloseFlushes
PROPERTIES
    AckedReachesDisk
    CloseTerminates
CHECK_DEADLOCK FALSE
