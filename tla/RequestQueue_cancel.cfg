CONSTANTS
  Requests = {w1, w2, r1}
  ReadReqs = {r1}
  Cancelers = {w1, w2, r1}
  Faulty = {}
  NoReq = NoReq
  MayStop = FALSE
SPECIFICATION FairSpec
PROPERTIES
  CancelReturns
CHECK_DEADLOCK FALSE
