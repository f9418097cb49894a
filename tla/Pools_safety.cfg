SPECIFICATION Spec
CONSTANTS
    b1 = b1
    b2 = b2
    b3 = b3
    x = x
    y = y
    one = one
    two = two
    NoBlock = NoBlock
    NoBid = NoBid
    NoValue = NoValue
    Blocks <- MCBlocks
    Bids <- MCPlaces
    Disks = {1}
    DiskOf <- MCDiskOf
    Values <- MCValues
    InitWrite = 1
    InitPrefetch = 1
    MayFail = TRUE
    MayResize = TRUE
CHECK_DEADLOCK FALSE
SYMMETRY MCSymmetry
INVARIANTS
    TypeOK
    OneOwner
    NoTransferIntoFree
    ReadsLatest
    ClosedIsDurable
PROPERTIES
    NothingLost
