SPECIFICATION Spec
CONSTANTS
  MaxAppends = 2
  MaxCrashes = 1
  MaxPowerLoss = 0
  MaxIoErrors = 0
  MaxReads = 0
INVARIANT FlushedIsReadable
CHECK_DEADLOCK FALSE
