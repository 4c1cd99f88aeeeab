SPECIFICATION FairSpec
CONSTANTS
    Workers = {w1, w2, w3}
    MaxCount = 4
    Threshold = 2
    None <- NoError
INVARIANTS
    OneWriter
    OkIsComplete
PROPERTIES
    KeepsPromise
    Returns
CHECK_DEADLOCK FALSE
