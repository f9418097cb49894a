CONSTANTS
    Null = Null
    Readers = {r1, r2}
SYMMETRY Symmetry
SPECIFICATION Spec
INVARIANTS
    ContainersHold
    CachesCoherent
    IteratorsFollow
    TransfersSafe
    NothingLeaked
CHECK_DEADLOCK FALSE
