SPECIFICATION Spec
CONSTANTS
  b1 = b1
  fork1 = fork1
  b2 = b2
  v2 = v2
  v3 = v3
  NoHash = NoHash
  None = None
  Hashes <- MCHashes
  NumberOf <- MCNumberOf
  Pools <- MCPools
  IsV3 <- MCIsV3
  Words <- MCWords
  Ticks <- MCTicks
  RiskConfig <- MCRiskConfig
  Budgets <- MCBudgets
  Amounts <- MCAmounts
  Sells <- MCSells
  Buys <- MCBuys
  RelayAnswers <- MCRelayAnswers
  Bid <- MCBid
  Engines <- WiredEngines
  Validity = 3
  Capacity = 1
  CacheCapacity = 2
  Window = 1
  MaxOpps = 2
  MaxTouches = 1
CHECK_DEADLOCK FALSE
INVARIANT FetchedAtTheReadBlock
