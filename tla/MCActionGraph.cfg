SPECIFICATION Spec
CONSTANTS
    Workspaces <- MCAll
    AskedOf <- MCAskedOf
    Tree <- MCTree
    Ignored <- MCIgnored
CHECK_DEADLOCK FALSE
INVARIANTS
    TypeOK
    LoadedIsWhole
    TargetsInOrder
    OutputsAreOwned
    NeedsAreMet
    WalksAreExact
    CleanIsExact
