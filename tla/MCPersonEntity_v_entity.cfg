SPECIFICATION Spec
CONSTANTS
  Rides = {r1}
  Alarms = {s1, s2}
  Callers = {c1, c2}
  Tasks = {k1, k2}
  Settings <- Serial
  Interval = 2
  MaxTime = 2
  MaxToken = 1
INVARIANT StartedStays
SYMMETRY Symmetry
CHECK_DEADLOCK FALSE
