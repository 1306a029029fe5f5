CONSTANTS
    HeaderSize = 2
    Limit = 5
    MaxAttempts = 6
    Run = {1, 2}
    Algo <- MCAlgo
    DigestSize <- MCDigestSize
    Db <- MCStaleDb
    MaxFaults = 0
    MaxReruns = 0

SPECIFICATION SequentialSpec

INVARIANT SelfTesting
