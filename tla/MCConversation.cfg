\* All conversations of up to four messages, with calls of two tools.
SPECIFICATION ConvSpec
CONSTANTS
    c1 = c1
    c2 = c2
    f1 = f1
    f2 = f2
    Calls = {c1, c2}
    NameOf <- MCNameOf
    NoCall = NoCall
    MaxMessages = 4
SYMMETRY Interchangeable
CHECK_DEADLOCK FALSE
INVARIANTS
    NothingLost
    RolesAlternate
    WindowKeeps
    ResultsFollowCalls
PROPERTY
    EchoesReply
