SPECIFICATION FairSpec
CONSTANTS
    MaxOpenDirs = 2
    PerSect = 1
    PerClust = 2
    Volumes <- AllVolumes
    MaxFaults = 2
PROPERTIES SlotsSound CallsReturn
