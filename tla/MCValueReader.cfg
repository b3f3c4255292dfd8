CONSTANTS
    ChunkUnits = 2
    Sizes = {0, 2, 4, 5}
    ReadsFail = TRUE
SPECIFICATION FairSpec
INVARIANTS
    TypeOK
    ChecksumCoversPrefix
    ExactUntilFailure
    NoFalseAlarm
PROPERTY CallsEnd
