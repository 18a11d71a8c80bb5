SPECIFICATION FairTimersSpec
CONSTANTS
  Threads = {client, callbacks}
  callback_thread = callbacks
  Overlap = FALSE
  Delays = {900, 1000}
  MaxTimers = 3
INVARIANTS
  EntriesOutliveTimers
PROPERTIES
  BriefTimersFire
  KeepsContract
CHECK_DEADLOCK FALSE
