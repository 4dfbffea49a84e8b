SPECIFICATION Spec
CONSTANTS
    id1 = id1
    id2 = id2
    textA = textA
    textB = textB
    textC = textC
    TagSize = 1
    EmptyPassphrase = empty
    manifestSizeMax = 4
    itemSizeMax = 3
    EnvelopeSize = 1
    DescriptorSize = 1
    totalFileSizeMax = 18
    Contents <- EqualSizedContents
    Passphrases = {p1}
    ParameterChoices <- OneParameters
    FieldValues = {0, 1, 3}
    SpliceLengths = {2}
    MaxItems = 2
    MaxExports = 2
    MaxDamage = 1
INVARIANTS
    TypeOK
    RecordsInsideData
    UnlockedManifestWasExported
    DeliveredItemWasExported
PROPERTY
    VaultImplemented
