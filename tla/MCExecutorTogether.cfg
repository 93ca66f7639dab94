\* Two requests at a time that fill the caches for each other, with purges
\* and late background writes in between. hello and hi are similar, bye is not.
SPECIFICATION Spec
CONSTANTS
    mA = mA
    mB = mB
    hybrid = hybrid
    pA = pA
    pB = pB
    Greetings = {hello, hi}
    None = None
    Models = {mA, mB}
    Providers = {pA, pB}
    Registered = {pA, pB}
    Alias <- MCAlias
    Weighted <- MCWeighted
    Chain <- MCChain
    Serves <- MCServes
    Prompts = {hello, hi, bye}
    Texts = {hello, hi, bye}
    Similar <- MCSimilar
    Whitelists <- Anyone
    Streaming = {FALSE}
    Forcing = {None}
    Requests = {r1, r2}
    Capacity = 1
    MaxChunks = 0
    MaxWriters = 1
SYMMETRY Symmetry
INVARIANTS
    AnswersFit
