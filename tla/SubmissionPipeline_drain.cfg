SPECIFICATION Spec
CONSTANTS
  Outcomes <- GoodOutcomes
  Capacity = 1
  MaxSims = 2
  MaxFlips = 0
  MaxFaults = 0
INVARIANT ShutdownDrainsAttempts
CHECK_DEADLOCK FALSE
