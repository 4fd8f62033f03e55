SPECIFICATION BreakerFairSpec
CONSTANTS
    r1 = r1
    r2 = r2
    r3 = r3
    r4 = r4
    Requests <- MCRequests
    FailureThreshold = 3
    HalfOpenProbes = 3
    Cooldown = 2
INVARIANTS
    BreakerTypeOK
    NoProbeSlotLeak
    GaugeTellsTruth
    ProbationBounded
PROPERTIES
    HealsWithUpstream
