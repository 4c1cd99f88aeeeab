SPECIFICATION FairRouting
CONSTANTS
    Launches = {a, b, c, d}
    NoListener = NoListener
    TooMany = {d}
    MaxExits = 1
INVARIANTS
    OpenedOnce
    OneWindow
PROPERTY
    EveryLaunchOpens
CHECK_DEADLOCK FALSE
