SPECIFICATION FairSpec
CONSTANTS
  Groups = {g1, g2}
  FAILURES_TOLERATED = 1
  MaxQuery = 2
  MaxBatch = 3
INVARIANTS
  RunningQueryHasTimer
  CompletesOnce
PROPERTIES
  QueriesComplete
CHECK_DEADLOCK FALSE
