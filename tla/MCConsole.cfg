SPECIFICATION FairSpec
CONSTANTS
    Namespaces <- MCNamespaces
    Table = "storage"
    Refused = {"much too long a name"}
    Keys = {k1, k2}
    Values <- MCValues
    Size <- MCSize
    Null = Null
    Absent = Absent
    Contents <- FullTable
    Failures = TRUE
    MaxWrites = 2
INVARIANTS
    TypeOK
    ShownWasStored
PROPERTIES
    UnchangedShown
    PromptReturns
