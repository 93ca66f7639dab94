\* Three more entries for at most three places, and for a full cache of twenty,
\* which then drops two at once.
SPECIFICATION Spec
CONSTANTS
    p1 = p1
    p2 = p2
    p3 = p3
    m1 = m1
    m2 = m2
    Prompts = {p1, p2, p3}
    Models = {m1, m2}
    Answers <- MCAnswers
    None = None
    Score <- MCScore
    Threshold = 2
    Capacities = {1, 2, 3, 20}
    Files <- MCFiles
    TTL = 1
    MaxTime = 2
CHECK_DEADLOCK FALSE
INVARIANTS
    TypeOK
    SearchIsBest
    RecentKept
