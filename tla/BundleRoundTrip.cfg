SPECIFICATION Spec
CONSTANTS
    id1 = id1
    id2 = id2
    textA = textA
    textB = textB
    textC = textC
    TagSize = 1
    EmptyPassphrase = empty
    manifestSizeMax = 4
    itemSizeMax = 3
    EnvelopeSize = 1
    DescriptorSize = 1
    totalFileSizeMax = 19
    Contents <- AllContents
    Passphrases = {p1, p2, empty}
    ParameterChoices <- AllParameters
    FieldValues = {}
    SpliceLengths = {}
    MaxItems = 3
    MaxExports = 2
    MaxDamage = 0
INVARIANTS
    UndamagedBundleDelivers
    NonceUsedOnce
PROPERTY
    SessionChangesOnlyByUnlockAndLock
