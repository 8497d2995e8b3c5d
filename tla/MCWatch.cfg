SPECIFICATION WatchSpec
CONSTANTS
    Manifests = {"broken", "small", "large"}
    Versions = {0, 1}
    Outputs <- MCOutputs
    Depfiles <- MCDepfiles
    Parents <- MCParents
    Loadable = {"small", "large"}
    Failing <- MCFailing
    None = None
    MaxEdits = 2
    MaxFaults = 1
    MaxLeft = 1
CHECK_DEADLOCK FALSE
INVARIANTS
    WatchTypeOK
    OneDevelopmentProcess
PROPERTIES
    WatchSettles
