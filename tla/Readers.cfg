SPECIFICATION Spec
CONSTANTS
    p = 109
    d = 11
    q = 13
    YBits = 7
    SecretBit = 5
    BaseY = 43
    MaxFieldBytes = 26
    MaxMembers = 2
    MaxItems = 4
    MaxParameters = 2
    PortMax = 81
    PortDigits = 2
    LengthDigits = 2
    MaxInt = 5
    MaxTime = 3
    MaxTargetChars = 14
    Aids <- MCAids
    KeyidTexts <- MCKeyidTexts
    KeyTable <- MCTable
    Configured <- MCConfigured
    Files <- MCFiles
    Signatures <- MCSignatures
    Fields <- MCFields
    Hosts <- MCHosts
    Targets <- MCTargets
    Lengths <- MCLengths
    Addresses <- MCAddresses
    Schemes <- MCSchemes
    DefaultPorts <- MCDefaultPorts
INVARIANTS
    WireKeysHaveOneSpelling
    ConfiguredKeysHaveOneSpelling
    FilesHoldTheirKey
    KeyVectorsHold
    SignatureFixesMessage
    EquationsAreTold
    FieldsAreRfc8941
    TargetIsReadAsWritten
    AuthoritySameOnEveryPython
    ZeroLengthIsNoBody
    TimesAreComparedInFull
CHECK_DEADLOCK FALSE
