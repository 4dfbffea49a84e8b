SPECIFICATION Spec
CONSTANTS
    Lanes = 3
    Threads = 2
    SegmentLength = 2
    Passes = 1
    WordSize = 32
    PseudoRands <- Words
    MayFail = {"threads"}
INVARIANTS
    JoinsEachThreadOnce
