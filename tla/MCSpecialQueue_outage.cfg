SPECIFICATION Spec
CONSTANTS
  Driver <- MCDriver1
  Queue = {q1, q2}
  NoQueue = NoQueue
  Task = {t1, t2}
  Threshold = 2
  Second = 1
  Start = 1
  LastTsTtl = 1
  QueueTtl = 1
  Delay = 1
  MaxTime = 2
  MaxBatch = 2
  MaxPings = 2
  MaxCalls = 2
  MaxFaults = 1
  MaxEvents = 4
  Faults <- AllFaults
  Serial = FALSE
  AdminFromListing = FALSE
  Inserting = TRUE
  SecondaryRedis = FALSE
INVARIANT TypeOK
INVARIANT NoQueueJump
INVARIANT CountBelowThreshold
SYMMETRY Symmetry
CHECK_DEADLOCK FALSE
