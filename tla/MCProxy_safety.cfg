\* A job more than two workers and a queue of one hold, and a stream beside them.
\* The process ends when its lifespan has ended and everybody is answered.
SPECIFICATION Spec
CONSTANTS
    c1 = c1
    c2 = c2
    c3 = c3
    s1 = s1
    w1 = w1
    w2 = w2
    Chats = {c1, c2, c3}
    Streams = {s1}
    NumBackends = 1
    MaxRetries = 0
    FailOnTruncation = TRUE
    Threshold = 1
    Cooldown = 1
    Workers = {w1, w2}
    QueueMaxsize = 1
    MaxLifespans = 1
CHECK_DEADLOCK FALSE
SYMMETRY Symmetry
INVARIANTS
    TypeOK
    DispatchesAreHeld
    HonestStatus
    ChatsKeepTheirClient
    RequestsAccounted
PROPERTIES
    ImplementsRequestService
