SPECIFICATION FairSpec
CONSTANTS
    NumVars = 3
    Strings <- MCStrings
    TrueStr = "initialized"
    FalseStr = "not initialized"
    DefaultValue <- MCDefaultValue
    Size <- MCSize
    AtoI <- MCAtoI
    DefaultGapName = "nimble"
    GapNames <- MCGapNames
    AdvNames <- MCAdvNames
    Absent = Absent
    Garbage = Garbage
    Payloads <- IdOnlyPayloads
    FlashImages <- OldDevice
    SetValues <- ShortAndLongName
    Commands = {}
    Faults = {}
    MaxResets = 0
CONSTRAINT CalmLongName
INVARIANTS
    ReadBack
    AdvMatchesStore
PROPERTIES
    AckedIdIsAdvertised
