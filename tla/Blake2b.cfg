SPECIFICATION Spec
CONSTANTS
    BlockBytes = 5
    OutBytes = 4
    KeyBytes = 3
    WordSize = 8
    MaxMessage = 18
    MaxLong = 13
INVARIANTS
    TypeOK
    DigestOfWholeMessage
    LongDigestIsReference
    NothingLeftBehind
