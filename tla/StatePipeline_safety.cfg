SPECIFICATION Spec
CONSTANTS
  Numbers = {1, 2, 3}
  Forks = {"a", "b"}
  Pools = 2
  Price <- MCPrice
  Mempool = Mempool
  Capacity = 3
  MaxGroups = 2
  Window = 1
  MaxIngress = 4
INVARIANT TypeOK
INVARIANT UpdatesAreWholeBlocks
INVARIANT StoreCoversUpdates
INVARIANT PairsAreCompared
INVARIANT GroupsBounded
CHECK_DEADLOCK FALSE
