CONSTANTS
  Instances = {a, b}
  MaxUser = 3
  MaxCrashes = 1
  MaxManagers = 2
SPECIFICATION FairSpec
CHECK_DEADLOCK FALSE
INVARIANTS
  ListsTheRunning
PROPERTIES
  StaysDown
  Respawned
