CONSTANTS
    Keys = {k1, k2}
    BankSize = 2
    WalCap = 1
    MaxSeq = 3
    AppendMayPersist = TRUE
    MaxGeneration = 13
SPECIFICATION Spec
SYMMETRY KeySymmetry
INVARIANT EveryCopyRecovers
