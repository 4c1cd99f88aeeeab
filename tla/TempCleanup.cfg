SPECIFICATION FairSpec
CONSTANTS
    Programs = {1, 2}
    Dirs = {1, 2}
    None = None
    Grace = 1
    Unconfirmed = 2
    Abandoned = 2
    Ancient = 2
    MaxRetained = 1
    Busy = {1, 2}
    MaxDeaths = 1
    MaxTime = 5
INVARIANTS
    KeptWhileNeeded
    NoneForgotten
PROPERTIES
    Removed
CHECK_DEADLOCK FALSE
