SPECIFICATION FairSpec
CONSTANTS
  NumMeters = 13
  NumGroups = 3
  GroupNum = 0
  MaxQuery = 1
  MaxCrashes = 1
INVARIANTS
  RootSumsAll
  OnlySubtreeSummed
  StuckOnlyBelowCrash
PROPERTY LastQueryAnswered
CHECK_DEADLOCK FALSE
