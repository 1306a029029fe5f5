CONSTANTS
    LastPart = 4
    AlgosPerGroup = 2

SPECIFICATION FairSpec

INVARIANTS
    TypeOK
    NoPartDropped
    CompleteUnlessMissed

PROPERTIES
    EventuallyUploaded
