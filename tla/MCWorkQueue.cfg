\* A job more than two workers and a queue of one hold, as many as with a queue of two.
\* No symmetry, which is unsound for liveness.
SPECIFICATION Spec
CONSTANTS
    j1 = j1
    j2 = j2
    j3 = j3
    j4 = j4
    w1 = w1
    w2 = w2
    Jobs = {j1, j2, j3, j4}
    Workers = {w1, w2}
    QueueMaxsize = 2
INVARIANTS
    TypeOK
    Whereabouts
    NoJobLost
    NoJobTwice
    DepthShown
PROPERTIES
    SettledOnce
    JobsSettle
