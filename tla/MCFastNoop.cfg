SPECIFICATION Spec
CONSTANTS
    Paths = {src, out}
    Sources = {src}
    Bytes = {a, b}
    Manifests = {m1, m2}
    Tools = {t1, t2}
    Absent = Absent
    MISSING = MISSING
    None = None
    Tombstone = Tombstone
    MaxClock = 2
    MaxStarts = 4
    MaxEdits = 2
SYMMETRY Interchangeable
CHECK_DEADLOCK FALSE
INVARIANTS
    TypeOK
    CacheIsTrue
    UpToDateIsTrue
    StampsAreCurrent
