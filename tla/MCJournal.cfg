SPECIFICATION Spec
CONSTANTS
    Procs = {p1, p2}
    Ids = {a, b}
    CompactAt = 4
    MaxRecords = 3
    MaxFaults = 2
INVARIANTS
    TypeOK
    LoadsWhatWasCompleted
PROPERTIES
    HistoryIsKept
