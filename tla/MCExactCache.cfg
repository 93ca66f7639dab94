\* Four keys for at most three places: an entry in the middle of the list is
\* hit and unlinked, the tail is evicted, and a snapshot may be larger than
\* the cache it is imported into.
SPECIFICATION Spec
CONSTANTS
    Keys = {k1, k2, k3, k4}
    Values = {v1, v2}
    Capacities = {1, 3}
    TTL = 1
    MaxTime = 2
    Miss = Miss
    Unused = Unused
SYMMETRY Interchangeable
INVARIANTS
    TypeOK
    WellLinked
    NoEarlyEviction
PROPERTIES
    RefinesLRU
