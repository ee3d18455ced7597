SPECIFICATION Spec
CONSTANTS
    Names = {"a", "b", "c"}
    Frags <- TwoFrags
    Short <- Alike
    PerSect = 1
    SectsPerClust = 2
    MaxClust = 3
    Seeds <- EmptyFull
    MaxFaults = 1
INVARIANTS DirectorySound
PROPERTIES SearchIsRight JunkStaysHidden ImplementsStore
