SPECIFICATION WalkSpec
CONSTANTS
  MaxMeters = 29
  MaxPathMeters = 13
INVARIANT GossipReachesEveryone
INVARIANT GroupsAgree
INVARIANT PathsDisjoint
INVARIANT PathsFitPhase
CHECK_DEADLOCK FALSE
