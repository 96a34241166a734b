SPECIFICATION Spec
CONSTANTS
  Handlers = {h1, h2}
  Limits <- MCLimits
  Frame = 2
  MaxFrame = 2
  Rides = {"r1", "r2"}
  NoRide = "none"
  Infos = {"Car", "Bus", "none"}
  Settings <- MCSettings
  PickupThreshold = 1
  ArrivingThreshold = 2
  InstructionThreshold = 3
  Slack = 1
  MinPoints <- MCMinPoints
  Radius = 2
  ReachedBuffer = 2
INVARIANT TypeOK
INVARIANT LimitHolds
INVARIANT ToldAsStored
INVARIANT StopNeedsWindow
SYMMETRY Symmetry
CHECK_DEADLOCK FALSE
