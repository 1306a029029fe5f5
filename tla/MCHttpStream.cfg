CONSTANTS
    Archives <- MCArchives
    Chunk = 6
    MaxRetries = 2

SPECIFICATION FairSpec

INVARIANTS
    TypeOK
    InOrder
    WholeUnlessCut
    NeverRefused
    BufferBounded

PROPERTIES
    SourceEnds
