INIT Init
NEXT Next
CONSTANTS
  Null = Null
  Side = 2
  Cases <- GrainedCases
INVARIANT ProductExact
CHECK_DEADLOCK FALSE
