SPECIFICATION GatewayFairSpec
CONSTANTS
    r1 = r1
    r2 = r2
    Requests <- MCRequests
    FailureThreshold = 2
    HalfOpenProbes = 1
    Cooldown = 1
INVARIANTS
    HealthyUpstreamServed
