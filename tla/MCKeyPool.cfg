SPECIFICATION Spec
CONSTANTS
    a = a
    b = b
    d = d
    Blank = Blank
    c1 = c1
    c2 = c2
    ApiKeys = {a, b, d, Blank}
    Callers = {c1, c2}
    Cooldown = 2
    CursorMod = 8
    MaxTime = 4
INVARIANTS
    TypeOK
    RoundRobin
PROPERTY
    KeysRest
