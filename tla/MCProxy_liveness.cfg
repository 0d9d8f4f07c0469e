\* One worker, so that a job waits for the retries, backoffs and fallbacks of another.
\* No symmetry, which is unsound for liveness.
SPECIFICATION Spec
CONSTANTS
    c1 = c1
    c2 = c2
    c3 = c3
    s1 = s1
    w1 = w1
    w2 = w2
    Chats = {c1, c2}
    Streams = {}
    NumBackends = 2
    MaxRetries = 1
    FailOnTruncation = TRUE
    Threshold = 2
    Cooldown = 1
    Workers = {w1}
    QueueMaxsize = 1
    MaxLifespans = 1
CHECK_DEADLOCK FALSE
PROPERTIES
    JobsAreAnswered
    ShutdownCompletes
