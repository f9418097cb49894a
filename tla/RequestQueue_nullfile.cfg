CONSTANTS
  Requests = {w1, w2, r1}
  ReadReqs = {r1}
  Cancelers = {w1, w2, r1}
  Faulty = {}
  NoReq = NoReq
  MayStop = FALSE
SPECIFICATION Spec
INVARIANTS
  NoNullFile
CHECK_DEADLOCK FALSE
