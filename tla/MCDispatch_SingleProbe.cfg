\* Expected to be violated: two requests probe one half-open backend.
SPECIFICATION Spec
CONSTANTS
    c1 = c1
    c2 = c2
    s1 = s1
    Chats = {c1, c2, c3}
    Streams = {}
    NumBackends = 2
    MaxRetries = 0
    FailOnTruncation = FALSE
    Threshold = 1
    Cooldown = 1
PROPERTIES
    SingleProbe
