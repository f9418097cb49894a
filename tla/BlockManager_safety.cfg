SPECIFICATION Spec
CONSTANTS
    t1 = t1
    t2 = t2
    Threads <- MCThreads
    ndisks = 2
    BlockSizes <- MCSizes
    MaxBlocks = 2
    cfg_bytes <- MCBytes
    autogrow <- MCGrow
    MaxGrow = 0
    Writable <- MCWritable
CHECK_DEADLOCK FALSE
SYMMETRY MCSymmetry
INVARIANTS
    TypeOK
    RegionsSeparated
    FreeBytesExact
    Partition
    OverlapDetected
PROPERTIES
    GrowthNeeded
    OwnershipSpec
