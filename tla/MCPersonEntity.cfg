SPECIFICATION Spec
CONSTANTS
  Rides = {r1}
  Alarms = {s1, s2}
  Callers = {c1, c2}
  Tasks = {k1, k2}
  Settings <- MCSettings
  Interval = 2
  MaxTime = 2
  MaxToken = 1
INVARIANT TypeOK
INVARIANT EndedIsGone
INVARIANT LiveIsListed
INVARIANT ListedIsFound
PROPERTY PingsApart
PROPERTY TokenKept
SYMMETRY Symmetry
CHECK_DEADLOCK FALSE
