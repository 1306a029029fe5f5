CONSTANTS
    LastPart = 4
    AlgosPerGroup = 2

SPECIFICATION Spec

INVARIANT AtMostOneWindowLost
