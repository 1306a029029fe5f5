CONSTANTS
    Archives <- MCArchives
    Chunk = 6
    MaxRetries = 2

SPECIFICATION Spec

INVARIANT DoneMeansWhole
