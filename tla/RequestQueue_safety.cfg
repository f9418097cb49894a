CONSTANTS
  Requests = {w1, w2, r1}
  ReadReqs = {r1}
  Cancelers = {w1, w2, r1}
  Faulty = {w1, w2, r1}
  NoReq = NoReq
  MayStop = TRUE
SPECIFICATION Spec
INVARIANTS
  TypeOK
  SemAccounting
  NoStrandedRequest
  CancelBlockedOnlyByTransit
  LifeCycle
  AtMostOnce
  WaitSeesCompletion
PROPERTIES
  StateForward
CHECK_DEADLOCK FALSE
