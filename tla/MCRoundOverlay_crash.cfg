SPECIFICATION FairSpec
CONSTANTS
  N = 3
  LastRound = 2
  MaxQuery = 0
  MaxCrashes = 1
  SilentLoss = TRUE
  Synchronous = TRUE
  HoldsMessages = FALSE
  Offset <- PowerOffsets
INVARIANTS
  RoundsInStep
  AwaitedBatchOnItsWay
  OnlyCrashedSkipped
PROPERTIES
  BarrierHolds
  OverlaysEnd
CHECK_DEADLOCK FALSE
