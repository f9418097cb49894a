SPECIFICATION Spec
CONSTANTS
    t1 = t1
    t2 = t2
    Threads <- MCThreads
    ndisks = 1
    BlockSizes <- MCSizes
    MaxBlocks = 1
    cfg_bytes <- MCBytes
    autogrow <- MCGrow
    MaxGrow = 0
    Writable <- MCWritable
CHECK_DEADLOCK FALSE
SYMMETRY MCSymmetry
PROPERTIES
    WrittenBlocksStay
