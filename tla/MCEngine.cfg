SPECIFICATION Spec
CONSTANTS
    Actions <- MCActions
    Sources <- MCSources
    Declared <- MCDeclared
    OrderOnly <- MCOrderOnly
    Outputs <- MCOutputs
    Preserve = {"compile"}
    Values <- MCValues
    Contents <- MCContents
    Reads <- MCReads
    Produce <- MCProduce
    Initially <- MCInitially
    MaxEdits = 2
    MaxBuilds = 3
    MaxDisturbed = 1
CHECK_DEADLOCK FALSE
INVARIANTS
    TypeOK
    QuietBuildIsClean
    TrueTraces
PROPERTY
    NothingRunsTwice
