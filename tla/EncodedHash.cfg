SPECIFICATION Spec
CONSTANTS
    WordSize = 256
    PointerSize = 4096
    LongSize = 4096
    BlockSize = 32
    MaxLanes = 15
    NULL = NULL
    Contexts <- MCContexts
    Room <- MCRoom
    BufferSizes <- MCBufferSizes
    Altered <- MCAltered
    MaxDamage = 1
INVARIANTS
    EncodesIntoBuffer
    DecodesWhatWasEncoded
    OneEncodingPerHash
    DecodesIntoBuffers
