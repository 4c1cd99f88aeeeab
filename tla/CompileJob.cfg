SPECIFICATION FairSpec
CONSTANTS
    Models = {1, 2, 3, 4}
    a = a
    b = b
    c = c
    Supers = {a, b, c}
    None = None
    SuperOf <- MCSuperOf
    Holds <- MCHolds
    BatchSize = 2
INVARIANTS
    EachAccounted
    ChainStaged
PROPERTIES
    CancelEnds
CHECK_DEADLOCK FALSE
