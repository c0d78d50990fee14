SPECIFICATION Spec
CONSTANTS
    NumVars = 3
    Strings <- MCStrings
    TrueStr = "initialized"
    FalseStr = "not initialized"
    DefaultValue <- MCDefaultValue
    Size <- MCSize
    AtoI <- MCAtoI
    DefaultGapName = "nimble"
    GapNames <- MCGapNames
    AdvNames <- MCAdvNames
    Absent = Absent
    Garbage = Garbage
    Payloads <- IdOnlyPayloads
    FlashImages <- OldDevice
    SetValues = {}
    Commands = {"del", "erase", "print"}
    Faults = {"malloc", "flash", "init"}
    MaxResets = 0
CONSTRAINT Calm
INVARIANTS
    EmptinessTestSound
PROPERTIES
    NoGarbageStoredOnceBooted
