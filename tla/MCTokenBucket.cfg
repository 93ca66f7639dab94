SPECIFICATION Spec
CONSTANTS
    c1 = c1
    c2 = c2
    Clients = {c1, c2}
    ConfiguredRPM = 40
    ConfiguredBurst = 3
    MaxAge = 5
    CleanEvery = 2
    MaxBuckets = 1
    MaxTime = 9
    NoBucket = NoBucket
INVARIANTS
    TypeOK
    WindowBounded
    OnlyRecentClients
