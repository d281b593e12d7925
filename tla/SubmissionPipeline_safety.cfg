SPECIFICATION FairSpec
CONSTANTS
  Outcomes <- AllOutcomes
  Capacity = 1
  MaxSims = 3
  MaxFlips = 2
  MaxFaults = 1
INVARIANT TypeOK
INVARIANT SubmittedWasMatched
INVARIANT SeenAbortsAreDurable
INVARIANT KillSwitchQuiets
INVARIANT ReceiptsMirrorPosts
PROPERTY ShutdownReturns
CHECK_DEADLOCK FALSE
