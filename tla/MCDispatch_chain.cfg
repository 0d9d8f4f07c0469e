\* A chain of three, so that a request can pass over a refusing backend between two
\* that it calls; the first failure opens a breaker.
SPECIFICATION Spec
CONSTANTS
    c1 = c1
    c2 = c2
    s1 = s1
    Chats = {c1}
    Streams = {s1}
    NumBackends = 3
    MaxRetries = 1
    FailOnTruncation = TRUE
    Threshold = 1
    Cooldown = 1
INVARIANTS
    ChainWalked
    FailedMeansExhausted
    FallbacksAccounted
PROPERTIES
    DispatchAdvances
