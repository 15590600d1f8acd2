CONSTANTS
  Producers = {p1, p2, p3}
  Main = p1
  Msgs = {m1, m2, m3, m4}
  SEND_MSG_MAX = 2
  NULL = NULL
SPECIFICATION FairSpec
INVARIANTS
  Inv
PROPERTIES
  QueueSpec
  StoredIsSent
CHECK_DEADLOCK FALSE
