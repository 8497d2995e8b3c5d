SPECIFICATION FairSpec
CONSTANTS
    Workers = {w1, w2}
    Requesters = {r1, r2}
    MaxActions = 3
    Commands = 2
CHECK_DEADLOCK FALSE
INVARIANTS
    TypeOK
    CancellationReachesAll
PROPERTY
    CancelledBuildsEnd
