SPECIFICATION Spec
CONSTANTS
    c1 = c1
    c2 = c2
    Client = {c1, c2}
    ZeroIaid = {}
    Segment = 2
    ScanLimit = 1
    PruneLimit = 1
    Valid = 2
    WireMax = 3
    MayRestart = TRUE
SYMMETRY ClientSymmetry
CHECK_DEADLOCK FALSE
INVARIANTS
    TypeOK
    LeasesExclusive
    HoldersExclusive
PROPERTIES
    PoolIsUsedUp
