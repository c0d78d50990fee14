SPECIFICATION Spec
CONSTANTS
    Namespaces <- MCNamespaces
    Table = "storage"
    Refused = {"much too long a name"}
    Keys = {k1, k2}
    Values <- MCValues
    Size <- MCSize
    Null = Null
    Absent = Absent
    Contents <- FullTable
    Failures = FALSE
    MaxWrites = 0
PROPERTIES
    OneNamespaceAtATime
