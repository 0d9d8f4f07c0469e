\* Two chats and a stream on a chain of two, one retry, a breaker that opens on
\* the second failure.  No symmetry, which is unsound for liveness.
SPECIFICATION Spec
CONSTANTS
    c1 = c1
    c2 = c2
    s1 = s1
    Chats = {c1, c2}
    Streams = {s1}
    NumBackends = 2
    MaxRetries = 1
    FailOnTruncation = FALSE
    Threshold = 2
    Cooldown = 1
INVARIANTS
    TypeOK
    TrippedIffThreshold
    OneBackendPerStream
PROPERTIES
    OpenAdmitsNobody
    OnlyAnswersRearm
    ImplementsFallbackChain
    EventuallyAllows
    DispatchEnds
