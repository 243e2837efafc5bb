SPECIFICATION MCSpec
CONSTANTS
    None = None
    c1 = c1
    c2 = c2
    t1 = t1
    t2 = t2
    s1 = s1
    Second = 2
    Conns <- MCConns
    Tasks <- MCTasks
    Services <- MCServices
    Grants <- MCGrants
    Skew = 0
    PolicyTtls = {2, 4}
    MaxTime = 4
    MaxUpdates = 1
    Scopes <- MCScopes
    PinnedTenant <- MCTenant
    SKEW = 1
    Drift = 1
    MaxTtl = 2
    MaxDate = 4
    MaxMinted = 2
CHECK_DEADLOCK FALSE
INVARIANTS
    ExposureBounded
    SlotsOwned
    ScopeKept
    GrantsAreUsable
    EndsAreTold
PROPERTIES
    RenewalStands
