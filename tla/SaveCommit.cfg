SPECIFICATION SaveSpec
CONSTANTS
    Instances = {p, q}
    MaxAttempts = 2
    MaxCrashes = 2
    Errors = {"io", "dirsync", "helper"}
    Overlap = TRUE
INVARIANTS
    OutputIntact
    SavedSurvives
    LeftoversRemoved
    RecoverySparesLive
SYMMETRY Symmetry
CHECK_DEADLOCK FALSE
