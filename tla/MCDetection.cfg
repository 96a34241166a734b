SPECIFICATION Spec
CONSTANTS
  Kinds <- DetectionType
  Configs <- MCConfigs
  Infos = {"Bus", "Car", "none"}
  Requests = {r1, r2}
  Stops = 2
  MaxUpcoming = 1
  MaxPings = 8
  MaxEvents = 3
INVARIANT TypeOK
INVARIANT WindowAddsUp
INVARIANT VerdictInTime
INVARIANT FlagTellsAlert
PROPERTY AlertsAlternate
SYMMETRY MCRequests
CHECK_DEADLOCK FALSE
