SPECIFICATION FairSpec
CONSTANTS
    Sectors = 3
    MaxCount = 2
    Vals = {0, 1}
    MaxFaults = 2
INVARIANT DriverSound
PROPERTIES ImplementsDevice CallsReturn
