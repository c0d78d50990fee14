SPECIFICATION FairSpec
CONSTANTS
    Start = 5
    Period = 2
    RetryCount = 3
    Skew = 1
    Missing = Missing
    Never = Never
    Failures = TRUE
    MaxTime = 12
    MaxResets = 3
INVARIANTS
    TypeOK
    StampGenuine
    StampFresh
PROPERTIES
    StampNeverBack
    FetchEnds
CHECK_DEADLOCK FALSE
