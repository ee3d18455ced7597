SPECIFICATION FairSpec
CONSTANTS
    Names = {"a", "b"}
    Frags <- TwoFrags
    Short <- Alike
    PerSect = 2
    SectsPerClust = 1
    MaxClust = 4
    Seeds <- EmptyFull
    MaxFaults = 2
INVARIANTS PiecesBounded
PROPERTIES CallsReturn
