SPECIFICATION FairSpec
CONSTANTS
    NumVars = 3
    Strings <- MCStrings
    TrueStr = "initialized"
    FalseStr = "not initialized"
    DefaultValue <- MCDefaultValue
    Size <- MCSize
    AtoI <- MCAtoI
    DefaultGapName = "nimble"
    GapNames <- MCGapNames
    AdvNames <- MCAdvNames
    Absent = Absent
    Garbage = Garbage
    Payloads <- WholePayloads
    FlashImages <- AnyDevice
    SetValues = {}
    Commands = {}
    Faults = {}
    MaxResets = 1
INVARIANTS
    IdNeverWithoutFlag
    AckedWriteDurable
    NoNullDerefOnceBooted
PROPERTIES
    BootCompletes
    BehavesAsDevice
