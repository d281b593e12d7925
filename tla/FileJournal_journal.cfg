SPECIFICATION Spec
CONSTANTS
  MaxAppends = 3
  MaxCrashes = 1
  MaxPowerLoss = 1
  MaxIoErrors = 2
  MaxReads = 1
INVARIANT TypeOK
INVARIANT PositionsBeforeFailure
INVARIANT NoPhantomRecords
INVARIANT SafeIsReadable
PROPERTY AppendOnly
CHECK_DEADLOCK FALSE
