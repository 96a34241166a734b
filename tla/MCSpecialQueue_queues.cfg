SPECIFICATION Spec
CONSTANTS
  Driver <- MCDriver3
  Queue = {q1, q2}
  NoQueue = NoQueue
  Task = {t1}
  Threshold = 2
  Second = 2
  Start = 7
  LastTsTtl = 2
  QueueTtl = 4
  Delay = 2
  MaxTime = 7
  MaxBatch = 2
  MaxPings = 3
  MaxCalls = 1
  MaxFaults = 1
  MaxEvents = 4
  Faults <- SomeFaults
  Serial = TRUE
  AdminFromListing = TRUE
  Inserting = TRUE
  SecondaryRedis = FALSE
INVARIANT QueuedIsTracked
INVARIANT OfflineStaysOut
INVARIANT InsertedWhereAsked
SYMMETRY Symmetry
CHECK_DEADLOCK FALSE
