SPECIFICATION DataSpec
CONSTANTS
    Tabs = {s, t}
    Paths = {f, g}
    KeyCount = 2
    Outside = {x}
    NoPath = NoPath
    Garbage = Garbage
    LateFailure = TRUE
    OverOpen = TRUE
    MaxSteps = 6
INVARIANTS
    EntriesReadBack
SYMMETRY Symmetry
CHECK_DEADLOCK FALSE
