SPECIFICATION FairTcpSpec
CONSTANTS
  Process = {p, q}
  SizeLength = 1
  BodyLength = 2
  Capacity = 4
  MaxMessages = 4
  MaxCrashes = 1
INVARIANT
  HandledWhole
PROPERTIES
  EverythingRead
  ReadersAreNotWaitedFor
CHECK_DEADLOCK FALSE
