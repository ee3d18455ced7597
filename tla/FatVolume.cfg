SPECIFICATION Spec
CONSTANTS
    ClustCnt = 6
    PerSect = 4
    RootClust = 2
    BadClusts <- NoBad
    Files = {f1, f2}
    Mirrored = TRUE
    CountMod = 10
    MaxFaults = 2
SYMMETRY FileSymmetry
INVARIANTS MediumSound SyncIsDurable FailuresCostOne
PROPERTIES FullMeansFull WindowLosesNothing ImplementsStore
CHECK_DEADLOCK FALSE
