CONSTANTS
    Keys = {1, 2}
    HandleSlots = {0, 1}
    ReaderSlots = {0}
    MaxMutations = 2
    InlineSizes = {1, 2}
    StagingSize = 2
    Sizes = {3}
    BankChunks = 4
    MaxHandleGeneration = 3
    FirstTransaction = 2
    MaxBankGeneration = 2
SPECIFICATION Spec
INVARIANTS
    TypeOK
    TransactionOwned
    WriterFollowsTransaction
    ReachableValuesReadBack
    StagedInActiveBank
    LoggedValuesDurable
    StagedValuesIntact
PROPERTY StaleStaysStale
