\* Two answers to different requests fill the caches of the first process and
\* are too many for the second. The entries of the semantic cache live longer, so
\* that the second process finds live ones of different ages in the file. The
\* timer saves once, and main at every stop.
SPECIFICATION Spec
CONSTANTS
    q1 = q1
    q2 = q2
    Answers = {1, 2}
    Asked <- MCAsked
    None = None
    ExactTTL = 1
    SemanticTTL = 2
    Configured <- MCConfigured
    MaxTime = 2
    MaxTicks = 1
CHECK_DEADLOCK FALSE
INVARIANTS
    TypeOK
    FileWhole
    LockInUse
    StopKeeps
    PurgeOutlivesStop
PROPERTIES
    NeverOlder
    RestartResumes
