SPECIFICATION FairSpec
CONSTANTS
  Place = {"airport", "mall"}
  Outside = "outside"
  QueuePlace <- MCQueuePlace
  ClosedPlace <- MCClosedPlace
  Capacity = 2
  CacheConfigured = TRUE
  EmptyGuard = TRUE
  Bucketing = TRUE
  MaxPings = 3
INVARIANT TypeOK
INVARIANT SizeIsRight
INVARIANT NothingDropped
INVARIANT OnceInOrder
INVARIANT FlagEndsDrained
PROPERTY AcceptedIsHanded
PROPERTY TerminationEnds
CHECK_DEADLOCK FALSE
