SPECIFICATION Spec
CONSTANTS
    Lanes = 3
    Threads = 1
    SegmentLength = 3
    Passes = 2
    WordSize = 64
    PseudoRands <- Words
    MayFail = {}
INVARIANTS
    ReferenceIsFinished
