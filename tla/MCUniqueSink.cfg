CONSTANTS
    Digests <- MCDigests
    Dbs <- MCDbs
    Caps <- MCCaps
    MemoryItems = 2

SPECIFICATION Spec

INVARIANTS
    TypeOK
    NothingDropped
    PacksExact
