\* One FAT copy and a bad cluster.  No symmetry: it is unsound for liveness.
SPECIFICATION FairSpec
CONSTANTS
    ClustCnt = 7
    PerSect = 4
    RootClust = 2
    BadClusts <- OneBad
    Files = {f1, f2}
    Mirrored = FALSE
    CountMod = 10
    MaxFaults = 1
PROPERTIES CallsReturn
CHECK_DEADLOCK FALSE
