SPECIFICATION Spec
CONSTANTS
    Drags = {1, 2}
    Targets = {t1, t2}
    None = None
    Sizes = {0, 1}
    Offer = TRUE
    MaxMoves = 2
    MaxAsks = 2
INVARIANTS
    GetsWhole
    NoneCutOff
    DropWanted
    NoneLeftHovering
CHECK_DEADLOCK FALSE
SYMMETRY Symmetry
