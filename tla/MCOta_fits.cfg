SPECIFICATION Spec
CONSTANTS
    Tasks = {t1}
    Urls <- AllUrls
    Images <- MCImages
    NoImage = "none"
    Serves <- Serves_AllUrls
    Blocks <- MCBlocks
    Room <- MCRoom
    FactoryImage = "base"
    Erased = "erased"
    NoLine = "noline"
    OtherCommands = FALSE
    Failures = FALSE
    MaxResets = 0
INVARIANTS
    DownloadFits
