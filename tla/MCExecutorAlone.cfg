\* One request after the other, each with all the ways it can be routed and
\* fail, among what earlier ones left in the caches and in the background.
SPECIFICATION FairSpec
CONSTANTS
    mA = mA
    mB = mB
    hybrid = hybrid
    pA = pA
    pB = pB
    Greetings = {hello}
    None = None
    Models = {mA, mB, hybrid}
    Providers = {pA, pB, off}
    Registered = {pA, pB}
    Alias <- MCAlias
    Weighted <- MCWeighted
    Chain <- MCChain
    Serves <- MCServes
    Prompts = {hello, blank}
    Texts = {hello}
    Similar <- MCSimilar
    Whitelists <- Anyone
    Streaming = {TRUE, FALSE}
    Forcing = {None, pA, pB, off}
    Requests = {r1}
    Capacity = 1
    MaxChunks = 2
    MaxWriters = 1
INVARIANTS
    TypeOK
    SettledOnce
    FailsOver
PROPERTIES
    Answered
