SPECIFICATION FairSpec
CONSTANTS
  N = 3
  LastRound = 1
  MaxQuery = 1
  MaxCrashes = 0
  SilentLoss = FALSE
  Synchronous = TRUE
  HoldsMessages = FALSE
  Offset <- PowerOffsets
INVARIANTS
  BufferedBatchesAhead
  NobodyLeftBehind
PROPERTY OverlaysEnd
CHECK_DEADLOCK FALSE
