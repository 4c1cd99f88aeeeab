SPECIFICATION Spec
CONSTANTS
    Keys = {k1, k2}
    Data = {d1, d2}
    Texts = {t1, t2}
    Foreign = {NoText}
    NoText = NoText
    Read <- MCRead
    NoFile = NoFile
    Twice = {k2}
    MaxCopies = 2
    MaxSteps = 2
    MaxBytes = 3
    Sizes = {2}
    TextSizes = {1,4}
INVARIANTS
    TypeOK
    CleanIsSaved
    StepsBounded
    BytesBounded
PROPERTIES
    KeepsPromise
    UndoReturns
SYMMETRY Symmetry
CHECK_DEADLOCK FALSE
