SPECIFICATION Spec
CONSTANTS
    Paths = {src, out}
    Sources = {src}
    Bytes = {a}
    Manifests = {m1}
    Tools = {t1}
    Absent = Absent
    MISSING = MISSING
    None = None
    Tombstone = Tombstone
    MaxClock = 3
    MaxStarts = 3
    MaxEdits = 3
SYMMETRY Interchangeable
CHECK_DEADLOCK FALSE
INVARIANT
    HitIsExact
