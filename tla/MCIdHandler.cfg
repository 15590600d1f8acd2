CONSTANTS
  Callers = {main, ping}
  Dispatch = dispatch
  Requests = {r1, r2, r3}
  IDH_SIZE = 1
  MaxPeer = 1
  NULL = NULL
  PEER = PEER
  EXPIRED = EXPIRED
CHECK_DEADLOCK FALSE
SPECIFICATION FairSpec
INVARIANTS
  OnceAndNotLost
  AnswersReachTheirCallback
PROPERTY ScanEnds
