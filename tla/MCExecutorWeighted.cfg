\* A chat for a weighted name goes to a provider that was not drawn.
SPECIFICATION Spec
CONSTANTS
    mA = mA
    mB = mB
    hybrid = hybrid
    pA = pA
    pB = pB
    Greetings = {hello}
    None = None
    Models = {mA, mB, hybrid}
    Providers = {pA, pB}
    Registered = {pA, pB}
    Alias <- MCAlias
    Weighted <- MCWeighted
    Chain <- MCChain
    Serves <- MCServes
    Prompts = {hello}
    Texts = {hello}
    Similar <- MCSimilar
    Whitelists <- Anyone
    Streaming = {TRUE, FALSE}
    Forcing = {None, pA, pB}
    Requests = {r1}
    Capacity = 1
    MaxChunks = 1
    MaxWriters = 1
INVARIANTS
    WeightedProviderServes
