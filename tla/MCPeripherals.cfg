SPECIFICATION Spec
CONSTANTS
    Callers = {"firmware", "client"}
    Leds = 2
    Formats = {3, 4}
    Indices <- MCIndices
    Colours <- MCColours
    Hues <- MCHues
    Symbols = 24
    Unset = Unset
    MaxFaults = 1
    Addresses <- MCAddresses
    Characters = {"s", "h", "o", "8", "p", "x", ":", "/", "GET ", " HTTP/1.1", "Host: ", "User-Agent"}
    HostSize = 6
    NoAddress = NoAddress
    Clients = {c1, c2, c3}
    NoClient = NoClient
    Backlog = 1
    Visitors = {v1}
    Lengths = {0, 3}
    Content = 2
INVARIANTS
    PeripheralsTypeOK
    NothingLeft
    SentRight
PROPERTIES
    KeepsPromise
    RefreshReturns
    TaskLetsGo
    ServersAttend
CHECK_DEADLOCK FALSE
