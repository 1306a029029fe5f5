CONSTANTS
    Cap = 4
    HeaderSize = 1
    PageSize = 3
    MaxBlock = 6
    Lengths = {0, 2, 3, 11, 15}

SPECIFICATION FairSpec

INVARIANTS
    TypeOK
    RingHolds
    PagesInOrder
    OkMeansAll
    PatientOnlyIfQuit

PROPERTIES
    ImplementsFifo
    PipelineEnds
