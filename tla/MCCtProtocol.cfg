CONSTANTS
  num_meters = 5
  FAILURES_TOLERATED = 1
  MaxCrashes = 1
  MaxLead = 2
SPECIFICATION FairSpec
INVARIANTS
  OnlyProxiesHoldValue
  PhasesLongEnough
  ValueSurvives
  CleanPathsDeliver
PROPERTY
  OverlayEnds
CHECK_DEADLOCK FALSE
