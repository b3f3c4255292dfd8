CONSTANTS
    ChunkUnits = 2
    Sizes = {0, 2, 4, 5}
    ReadsFail = TRUE
SPECIFICATION Spec
INVARIANT DeliveredExact
