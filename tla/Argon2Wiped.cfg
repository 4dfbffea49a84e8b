SPECIFICATION Spec
CONSTANTS
    Lanes = 2
    Threads = 2
    SegmentLength = 2
    Passes = 1
    WordSize = 32
    PseudoRands <- Words
    MayFail = {"memory", "threads"}
INVARIANTS
    InternalMemoryWiped
