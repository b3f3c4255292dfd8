CONSTANTS
    Tasks = {t1, t2, t3}
    None = None
SPECIFICATION FairSpec
INVARIANTS
    TypeOK
    Exclusive
    NoUseAfterFree
PROPERTY CallsReturn
