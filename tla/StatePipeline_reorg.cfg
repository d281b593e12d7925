SPECIFICATION Spec
CONSTANTS
  Numbers = {1}
  Forks = {"a", "b"}
  Pools = 2
  Price <- MCPrice
  Mempool = Mempool
  Capacity = 4
  MaxGroups = 2
  Window = 1
  MaxIngress = 2
INVARIANT CandidatesOfOneBlock
CHECK_DEADLOCK FALSE
