SPECIFICATION PathSpec
CONSTANTS
    r1 = r1
    r2 = r2
    c1 = c1
    c2 = c2
    x = x
    y = y
    NoTenant = NoTenant
    NoMapping = NoMapping
    NoContext = NoContext
    Zero = Zero
    Nobody = Nobody
    Requests <- MCRequests
    Contexts <- MCContexts
    Secrets <- MCSecrets
    Storers <- MCStorers
    Tenants <- MCTenants
    InitialTenants <- MCInitialTenants
    TenantUpdates <- MCTenantUpdates
    AddedTenants <- MCAddedTenants
    Keys <- MCKeys
    SessionOf <- MCSessionOf
    SessionKeys <- MCSessionKeys
    SecretsIn <- MCSecretsIn
    Pipeline <- MCPipeline
    BodyLengths = {2}
    Streaming = {r1}
    InitialCap = 1
    InitialEntries = 1
    MaxReusable = 2
    MaxUpdates = 1
    MaxDestroyed = 0
SYMMETRY Symmetric
CHECK_DEADLOCK FALSE
INVARIANTS
    UpstreamGetsOwnPayload
