CONSTANTS
  c1 = c1
  c2 = c2
  r1 = r1
  Channels = {c1, c2}
  Home = c1
  RoomIds = {r1}
  MatchRooms <- MCMatchRooms
  LeaveOnStart = TRUE
  JoinGlobal = FALSE
  MaxCommands = 2
  MaxNotices = 1
  MaxFaults = 1
  GLOBAL = GLOBAL
  NULL = NULL
CHECK_DEADLOCK FALSE
SPECIFICATION RoomSpec
INVARIANTS
  LeavingIsAnswered
  AgreeAtRest
  SyncIsOfTheRoom
  ChatsAgree
