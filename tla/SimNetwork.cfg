SPECIFICATION Spec
CONSTANTS
  GARBAGE_COLLECT_INTERVAL = 1
  Meter = {1, 2}
  Latency = {2, 3}
  Computations = {700, 2300}
  TimerDelays = {2}
  MaxFailures = 1
  MaxMessages = 3
  MaxTimers = 1
  MaxComputed = 3
INVARIANTS
  BusyClientWakes
  HandledInOrder
  NothingForgotten
PROPERTY
  KeepsContract
