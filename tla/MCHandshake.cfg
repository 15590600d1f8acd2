CONSTANTS
  QUERY_HDLR_MAX = 12
  RECV_MSG_MAX = 16
  UseTls = TRUE
  NULL = NULL
  EOF = EOF
  Reader = reader
  Dispatch = dispatch
CHECK_DEADLOCK FALSE
SPECIFICATION FairSpec
INVARIANTS
  SocketAlone
  ArgsAlive
  AuthOnce
PROPERTIES
  LoginEnds
  QuitUnlessOrphaned
