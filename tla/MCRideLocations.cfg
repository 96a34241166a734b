SPECIFICATION FairSpec
CONSTANTS
  Handlers = {"h1", "h2"}
  Cities = {"blr"}
  Rides = {"r1", "r2"}
  Settings <- MCSettings
  BatchSize = 2
  MaxBatch = 2
  MaxTime = 1
INVARIANT TypeOK
INVARIANT MutualExclusion
INVARIANT ListBounded
INVARIANT RidePathKept
INVARIANT PathInOrder
INVARIANT BlockRemembered
PROPERTY TimeForward
PROPERTY LockFreed
CHECK_DEADLOCK FALSE
