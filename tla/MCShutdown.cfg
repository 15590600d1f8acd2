CONSTANTS
  Workers = {dispatch, ping}
  SEND_MSG_MAX = 2
  MaxCtrlC = 1
  Main = main
  Sender = sender
  NULL = NULL
SPECIFICATION Spec
CHECK_DEADLOCK FALSE
PROPERTY QuitUnlessInterrupted
