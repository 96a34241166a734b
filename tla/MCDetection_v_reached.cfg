SPECIFICATION Spec
CONSTANTS
  Kinds = {"RideStopReached"}
  Configs <- MCConfigs
  Infos = {"Bus", "Car", "none"}
  Requests = {r1, r2}
  Stops = 2
  MaxUpcoming = 2
  MaxPings = 10
  MaxEvents = 3
INVARIANT ReachedIsReported
SYMMETRY MCRequests
CHECK_DEADLOCK FALSE
