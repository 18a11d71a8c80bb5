CONSTANTS
  num_meters = 5
  FAILURES_TOLERATED = 1
  MaxCrashes = 1
  MaxLead = 2
SPECIFICATION Spec
INVARIANTS
  FloodsArrive
  LiveRelayDelivers
CHECK_DEADLOCK FALSE
