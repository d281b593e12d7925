SPECIFICATION HandlesSpec
CONSTANTS
  Publishers = {p1, p2}
  Producer = p1
  Nobody = Nobody
  Capacity = 1
  SeqLimit = 3
  MaxCalls = 2
  DrainCapacity = 2
  MaxSent = 5
INVARIANT TypeOK
INVARIANT EventsMatchAcks
INVARIANT StatsLagByAtMostOne
INVARIANT ClosedMeansDrained
INVARIANT JournalFollowsBus
INVARIANT ShutdownLosesNothing
INVARIANT DrainHasNoGaps
PROPERTY ImplementsStream
PROPERTY PublishReturns
PROPERTY AcceptedIsTaken
PROPERTY ShutdownReturns
CHECK_DEADLOCK FALSE
