CONSTANTS
    HeaderSize = 2
    Limit = 5
    MaxAttempts = 6
    Run = {1, 2}
    Algo <- MCAlgo
    DigestSize <- MCDigestSize
    Db <- MCDb
    MaxFaults = 1
    MaxReruns = 1

SPECIFICATION Spec

INVARIANTS
    TypeOK
    PiecesFit
    PacksExact
    NoMixedText
    ExportAfterDeploy
