SPECIFICATION Spec
CONSTANTS
    Roles <- AllRoles
    Interval = 2
    Omit = 2
    Deadline = 6
    MaxTime = 7
    Cap = 8
    Blk = 2
    Buf = 3
    MaxBytes = 5
    MaxBlocks = 2
    Rate = 1
    None = None
INVARIANTS
    RowsAddUp
    RowsTile
    OmitSplit
    WithinLimit
    KeepsRate
CHECK_DEADLOCK FALSE
