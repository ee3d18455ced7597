SPECIFICATION Spec
CONSTANTS
    Names = {"a", "b"}
    Frags <- TwoFrags
    Short <- Alike
    PerSect = 2
    SectsPerClust = 2
    MaxClust = 2
    Seeds <- Empty
    MaxFaults = 1
PROPERTIES LongNamesOnly
