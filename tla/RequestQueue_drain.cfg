CONSTANTS
  Requests = {w1, w2, r1}
  ReadReqs = {r1}
  Cancelers = {}
  Faulty = {}
  NoReq = NoReq
  MayStop = TRUE
SPECIFICATION Spec
INVARIANTS
  DrainedAtTermination
CHECK_DEADLOCK FALSE
