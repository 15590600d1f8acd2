CONSTANTS
  Msgs = {m1, m2, m3, m4, m5}
  RECV_MSG_MAX = 3
  NULL = NULL
SPECIFICATION FairSpec
INVARIANTS
  NullOnlyOnClose
PROPERTIES
  QueueSpec
  BothEnd
CHECK_DEADLOCK FALSE
