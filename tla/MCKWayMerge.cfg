CONSTANTS
    MaxRuns = 3
    MaxDigest = 3
    Inputs <- MCInputs

SPECIFICATION Spec

INVARIANTS
    TypeOK
    StrictlyAscending
    NothingLost
    MergeExact
    CutRunRefused
