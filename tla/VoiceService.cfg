CONSTANTS
  Users = {a, b}
  None = None
  Players = {p1, p2, p3}
  MaxSegments = 3
  MaxSplit = 2
  MaxStops = 1
SPECIFICATION FairSpec
CHECK_DEADLOCK FALSE
INVARIANTS
  Attended
PROPERTIES
  EveryoneIsServed
