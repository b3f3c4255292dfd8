CONSTANTS
    Keys = {k1}
    BankSize = 2
    WalCap = 2
    MaxSeq = 5
    AppendMayPersist = FALSE
    MaxGeneration = 12
SPECIFICATION Spec
INVARIANT EveryCopyRecovers
