SPECIFICATION LimiterFairSpec
CONSTANTS
    c1 = c1
    c2 = c2
    a = a
    b = b
    NoCaller = NoCaller
    Callers <- MCCallers
    Tenants <- MCTenants
    Entries <- MCEntries
    DefaultLimit <- MCDefaultLimit
    Payloads <- MCPayloads
    IntLimit = 8
    Window = 1
    MaxTime = 3
INVARIANTS
    LimiterTypeOK
    QuotaNeverExceeded
PROPERTIES
    RefusedOnlyOverQuota
    ExecuteReturns
