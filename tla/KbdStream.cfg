SPECIFICATION FairSpec
CONSTANTS
    Size = 4
    Keys = {"a", "1"}
    Digits = {"1"}
    Lens <- Lengths
    CountMod = 3
    MaxChars = 5
INVARIANTS TypeOK FirstSleepSafe LineIsEdited
PROPERTIES ImplementsQueue LineArrives
