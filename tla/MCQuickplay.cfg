CONSTANTS
  Players = {a, b}
  Service = Service
  Choosy = TRUE
  MaxUid = 2
  MaxCommands = 4
  NULL = NULL
CHECK_DEADLOCK FALSE
SYMMETRY Symmetry
SPECIFICATION Spec
INVARIANTS
  OneGroupAtATime
  WaitsForASearch
  GroupAgreed
  CancelReachesGuests
PROPERTY TakesItsMatch
