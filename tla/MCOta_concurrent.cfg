SPECIFICATION FairSpec
CONSTANTS
    Tasks = {t1, t2}
    Urls <- SmallUrls
    Images <- MCImages
    NoImage = "none"
    Serves <- Serves_SmallUrls
    Blocks <- MCBlocks
    Room <- MCRoom
    FactoryImage = "base"
    Erased = "erased"
    NoLine = "noline"
    OtherCommands = TRUE
    Failures = TRUE
    MaxResets = 1
INVARIANTS
    TypeOK
    RunningWhole
PROPERTIES
    RunningUntouched
    TaskEnds
