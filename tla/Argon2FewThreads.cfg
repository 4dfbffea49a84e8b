SPECIFICATION Spec
CONSTANTS
    Lanes = 3
    Threads = 2
    SegmentLength = 3
    Passes = 2
    WordSize = 64
    PseudoRands <- Words
    MayFail = {}
INVARIANTS
    AtMostThreads
    NoDataRace
    ReadsMatchSequential
    TagOfFullMatrix
