SPECIFICATION Spec
CONSTANTS
    Names = {1, 2, 3}
    KindOf <- MCKindOf
    Versions = {1, 2}
    Files <- MCFiles
    None = None
    Categories = {"image"}
    Incoming <- MCIncoming
    MaxTabs = 2
    MaxOpens = 2
    MaxChanges = 2
    MaxClicks = 2
INVARIANTS
    RowsExist
CHECK_DEADLOCK FALSE
