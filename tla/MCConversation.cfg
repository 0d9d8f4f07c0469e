\* An agent and the harness; any deployment.  A client may fall silent.
SPECIFICATION Spec
CONSTANTS
    Ceiling = 16
    Headroom = 2
    PerMessageOverhead = 1
    Lengths = {0, 6}
    Parallels = {1, 2}
    Chain <- MCChain
    LaunchWindow = 6
    Drifts <- MCDrifts
    MaxRetries = 1
    Tolerance = 15
    Messages <- MCMessages
    MaxMessages = 4
    Draws <- MCDraws
    Turns = 3
CHECK_DEADLOCK FALSE
INVARIANTS
    TypeOK
    TrimKeepsLongestTail
    FittingPromptIsDelivered
    NoFalseAlarm
    CutIsLoud
    HarnessAgrees
PROPERTIES
    ForgottenForGood
