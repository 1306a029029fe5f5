CONSTANTS
    r1 = r1
    r2 = r2
    r3 = r3
    PageSize = 3
    HeaderSize = 2
    ArenaSize = 5
    MaxBlock = 4
    Lengths = {6}
    LastPage = 5
    Row <- MCRow
    Torn = torn
    RowsOn <- MCRowsOn
    CheckpointRows = 2
    DiskMayFill = TRUE

SPECIFICATION Spec

INVARIANT ExactOnSuccess
