SPECIFICATION Spec
CONSTANTS
    NumVars = 3
    Strings <- MCStrings
    TrueStr = "initialized"
    FalseStr = "not initialized"
    DefaultValue <- MCDefaultValue
    Size <- MCSize
    AtoI <- MCAtoI
    DefaultGapName = "nimble"
    GapNames <- MCGapNames
    AdvNames <- MCAdvNames
    Absent = Absent
    Garbage = Garbage
    Payloads <- FlagPayloads
    FlashImages <- NewDevice
    SetValues = {}
    Commands = {}
    Faults = {}
    MaxResets = 0
INVARIANTS
    TypeOK
    MemorySafeOnceBooted
PROPERTIES
    NoGarbageStoredOnceBooted
