CONSTANTS
  c1 = c1
  Calls = {c1}
  Rooms = 5
  BatchSize = 2
  MaxChanges = 3
SPECIFICATION FairSpec
INVARIANTS
  FramesFreed
  AnsweredOnceInFull
  CachesFresh
PROPERTIES
  Answered
CHECK_DEADLOCK FALSE
