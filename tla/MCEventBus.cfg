SPECIFICATION Spec
CONSTANTS
    Streams = {s1, s2}
    BufMax = 3
    ChanCap = 2
    MaxSeq = 4
SYMMETRY StreamSymmetry
INVARIANTS
    TypeOK
    HandoffComplete
    DuplicatesOnlyAtHandoff
PROPERTY ImplementsFeed
CHECK_DEADLOCK FALSE
