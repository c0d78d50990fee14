SPECIFICATION FairSpec
CONSTANTS
    Handles = {h1, h2, h3, h4}
    MaxConns = 3
    MaxErrors = 2
INVARIANTS
    TypeOK
    NeverDark
    LinkFits
    SidesAgree
PROPERTIES
    Relit
