CONSTANTS
  Requests = {q1, q2, q3}
  UseCache = TRUE
  Chunks = 3
  MaxVersion = 2
  NULL = NULL
SPECIFICATION FairSpec
INVARIANTS
  WholeUnderItsHash
PROPERTY TransfersEnd
