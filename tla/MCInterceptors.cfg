SPECIFICATION Spec
SYMMETRY Symmetry
CONSTANTS
    Calls = {c1, c2, c3}
    t1 = t1
    t2 = t2
    Tenants = {t1, t2}
    MaxInFlight = 2
    RateLimited = TRUE
    TierByTenant <- MCTierByTenant
    Tiers <- MCTiers
    Default = 1
    Unlimited = Unlimited
    NoTenant = NoTenant
    MaxGranted = 1
    MaxEvicted = 1
INVARIANTS
    TypeOK
    CounterIsExact
    AtMostMaxInFlight
    RateIsPaced
