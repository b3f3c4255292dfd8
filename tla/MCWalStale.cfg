CONSTANTS
    Payloads = {a, b}
    MaxFrames = 3
    Frames = 4
    MaxSeq = 3
    AppendsFail = FALSE
SPECIFICATION Spec
SYMMETRY PayloadSymmetry
CHECK_DEADLOCK FALSE
INVARIANT RestartRecovers
