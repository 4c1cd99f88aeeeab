SPECIFICATION Spec
CONSTANTS
    Tabs = {t1, t2}
    Keys = {k1, k2}
    None = None
    Own = Own
    MaxSteps = 1
    MaxRetained = 1
    MaxStaged = 2
    MaxTurns = 5
INVARIANTS
    PastedReadable
    PastedRestorable
    ClipboardReadable
SYMMETRY Symmetry
CHECK_DEADLOCK FALSE
