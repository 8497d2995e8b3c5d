SPECIFICATION Spec
CONSTANTS
    Minimum = 2
    Average = 4
    Maximum = 6
    MaskSmall = {1, 4}
    MaskLarge = {4}
    Word = 16
    Gear <- MCGear
    Samples <- MCSamples
    Earlier <- MCEarlier
    Absent = Absent
    Garbage = Garbage
    None = None
    p1 = p1
    p2 = p2
    Procs = {p1, p2}
    Artifacts = {"bin"}
    Blobs <- MCBlobs
    Threshold = 6
    ChunksOf <- MCChunksOf
    Shrinks <- MCShrinks
    MaxFiles = 6
    MaxOps = 3
    MaxEdits = 1
    MaxFaults = 1
SYMMETRY MCSymmetry
CHECK_DEADLOCK FALSE
INVARIANTS
    TypeOK
    ChunkerIsReference
    StoreIsTrue
    PutsAreKept
PROPERTIES
    RestoresAreSound
