CONSTANTS
    Null = Null
SPECIFICATION Spec
INVARIANTS
    QueuesHold
    TreesExact
    MemoryAccounted
    
CHECK_DEADLOCK FALSE
