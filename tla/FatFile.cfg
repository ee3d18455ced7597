SPECIFICATION MCSpec
CONSTANTS
    h1 = h1
    h2 = h2
    SectSize = 2
    ClustSects = 1
    MaxClusts = 2
    MaxOff = 4
    MaxLen = 2
    Vals = {0, 1}
    Handles = {h1}
    Flags <- AloneFlags
    Seeks <- AloneSeeks
    Uses = {"read", "write", "seek", "sync", "close"}
    Fresh <- AloneFresh
    MaxFaults = 1
INVARIANT HandlesSound
PROPERTIES CloseIsDurable NoShrink ImplementsFiles
CHECK_DEADLOCK FALSE
