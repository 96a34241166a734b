SPECIFICATION Spec
CONSTANTS
  Driver <- MCDriver1
  Queue = {q1, q2}
  NoQueue = NoQueue
  Task = {t1, t2}
  Threshold = 2
  Second = 1
  Start = 1
  LastTsTtl = 1
  QueueTtl = 2
  Delay = 1
  MaxTime = 3
  MaxBatch = 2
  MaxPings = 3
  MaxCalls = 1
  MaxFaults = 0
  MaxEvents = 4
  Faults <- NoFaults
  Serial = FALSE
  AdminFromListing = FALSE
  Inserting = FALSE
  SecondaryRedis = FALSE
INVARIANT OfflineStaysOut
CHECK_DEADLOCK FALSE
