SPECIFICATION FairSpec
CONSTANTS
  Driver <- MCDriver1
  Queue = {q1, q2}
  NoQueue = NoQueue
  Task = {t1}
  Threshold = 2
  Second = 1
  Start = 2
  LastTsTtl = 9
  QueueTtl = 2
  Delay = 1
  MaxTime = 4
  MaxBatch = 2
  MaxPings = 5
  MaxCalls = 2
  MaxFaults = 0
  MaxEvents = 7
  Faults <- NoFaults
  Serial = TRUE
  AdminFromListing = TRUE
  Inserting = FALSE
  SecondaryRedis = FALSE
INVARIANT PlaceRemembered
PROPERTY EvictionNeedsConsecutiveExits
PROPERTY ImplementsPromise
PROPERTY ExitsEvict
CHECK_DEADLOCK FALSE
