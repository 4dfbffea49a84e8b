SPECIFICATION Spec
CONSTANTS
    Lanes = 3
    Threads = 3
    SegmentLength = 2
    Passes = 2
    WordSize = 32
    PseudoRands = {0}
    MayFail = {"memory", "threads"}
INVARIANTS
    TypeOK
    ThreadReadsItsOwnData
    NoThreadOutlivesFill
    JoinsEachThreadOnce
PROPERTIES
    SegmentsInOrder
    Returns
