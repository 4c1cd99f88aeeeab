SPECIFICATION FairSpec
CONSTANTS
    Files = {f1, f2}
    KeyCount = 2
    Incoming = {n}
    Original = o
    Contents <- MCContents
    NoFile = NoFile
    None = None
    MaxIds = 2
    MaxTabs = 2
    MaxQueue = 2
    MaxSteps = 2
INVARIANTS
    CleanIsSaved
PROPERTIES
    ImportStaysHome
    ImportSparesOthers
    NothingLost
    KeepsPromise
    ImportEnds
CHECK_DEADLOCK FALSE
