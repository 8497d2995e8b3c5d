SPECIFICATION Spec
CONSTANTS
    Procs = {p1}
    Ids = {a, b}
    CompactAt = 20
    MaxRecords = 3
    MaxFaults = 1
INVARIANT CompletedActionsSurvive
