CONSTANTS
    Payloads = {a, b}
    MaxFrames = 3
    Frames = 4
    MaxSeq = 3
    AppendsFail = TRUE
SPECIFICATION Spec
SYMMETRY PayloadSymmetry
CHECK_DEADLOCK FALSE
INVARIANTS
    TypeOK
    AcceptedScanExact
    RefusedOnlyForLeftovers
