SPECIFICATION Spec
CONSTANTS
  Hashes = {h1, h2, h3}
  Watched = {h1, h2}
  Error = Error
  CacheSize = 2
  MaxExponent = 1
  MaxDelay = 2
  MaxConnects = 3
  MaxAnnounced = 5
  MaxBacklog = 1
  MaxTroubles = 2
SYMMETRY WatchedSymmetry
INVARIANT TypeOK
INVARIANT AnswersAreFinal
INVARIANT DedupIsAWindow
INVARIANT PublishedInOrder
PROPERTY DelaysDouble
CHECK_DEADLOCK FALSE
