CONSTANTS
    r1 = r1
    r2 = r2
    r3 = r3
    PageSize = 3
    HeaderSize = 2
    ArenaSize = 5
    MaxBlock = 4
    Lengths = {0, 1, 10, 18}
    LastPage = 5
    Row <- MCRow
    Torn = torn
    RowsOn <- MCRowsOn
    CheckpointRows = 2
    DiskMayFill = FALSE

SPECIFICATION FairSpec

INVARIANTS
    TypeOK
    PagesIntact
    CarveExclusive
    NoDigestLost
    WindowBounded
    ExactOnSuccess

PROPERTIES
    PartsImmutable
    NoCarveAfterError
    ImplementsPageScan
    Termination
