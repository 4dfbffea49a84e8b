SPECIFICATION Spec
CONSTANTS
    WordSize = 256
    PointerSize = 4096
    LongSize = 4096
    BlockSize = 32
    MaxLanes = 15
    NULL = NULL
    HashCalls <- MCHashCalls
    UserContexts <- MCUserContexts
    Tags <- MCTags
    Passwords <- MCPasswords
    Altered <- MCAltered
    MaxCalls = 2
    MaxDamage = 1
INVARIANTS
    VerifyAcceptsMade
    VerifyAcceptsOnlyMade
    WholeInputHashed
    HeapBalanced
    HashLeavesTagOnlyWhereAsked
    AcceptedMatrixFits
    SecondAttemptHashesTheSame
