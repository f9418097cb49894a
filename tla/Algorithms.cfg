CONSTANTS
    Null = Null
SPECIFICATION Spec
INVARIANTS
    SortedRight
    StreamsRight
    TransfersApart
    BlocksConserved
    MatricesRight
CHECK_DEADLOCK FALSE
