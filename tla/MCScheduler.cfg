SPECIFICATION FairSpec
CONSTANTS
    w1 = w1
    w2 = w2
    w3 = w3
    NoAction = NoAction
    Pending = Pending
    Actions <- MCActions
    Workers <- MCWorkers
    Graphs <- MCGraphs
    Duration <- MCDuration
    Kind <- MCKind
    DefaultOf <- MCDefaultOf
    Recorded <- MCRecorded
INVARIANTS
    TypeOK
    EachOnceInOrder
    NoStall
    NobodySleepsOnWork
    ReportIsSound
    PlansAreSound
PROPERTIES
    ImplementsBuildOrder
    EveryBuildReports
