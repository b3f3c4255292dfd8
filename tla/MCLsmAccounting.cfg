CONSTANTS
    Keys = {1, 2, 3}
    NamespaceOf <- MCNamespaceOf
    Hash <- MCHash
    FilterBits <- MCFilterBits
    InlineSize = 1
    MemHeader = 2
    EntryHeader = 1
    RefSize = 1
    Buckets = 2
    DataSize = 6
    BlockSize = 3
    TableBlocks = 2
    BankSize = 2
    MaxLive = 6
    Sizes <- MCSizes
    MaxMutations = 2
    MaxNamespaces = 2
    WalSize = 2
    CounterModulus = 64
    MaxSeq = 4
SPECIFICATION Spec
INVARIANT RestartAccepted
