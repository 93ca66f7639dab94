\* Two requests of a key with a budget, a limit and an expiry, while the
\* administrator replaces, reposts and deletes it.
SPECIFICATION Spec
CONSTANTS
    k1 = k1
    r1 = r1
    r2 = r2
    m1 = m1
    KeyNames = {k1}
    MasterKeys = {m1}
    NoHeader = NoHeader
    Requests = {r1, r2}
    Settings <- MCSettings
    Budgets = {0, 1}
    Spends = {0}
    RPMs = {0, 20, 30}
    Expiries = {Never, 2}
    Enableds = {TRUE}
    MaxCost = 1
    MaxRPM = 30
    MaxTime = 5
    MaxSpent = 2
    Unregistered = Unregistered
    NoBucket = NoBucket
    Never = Never
SYMMETRY RequestSymmetry
INVARIANTS
    TypeOK
    OvershootBounded
    NoOrphanBucket
    GrantsBounded
PROPERTY
    SpendKept
