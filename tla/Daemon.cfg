SPECIFICATION Spec
CONSTANTS
  Clis = {c1, c2, c3}
  Daemons = {d1, d2, d3}
  Ports = {p1, p2}
  Preferred = p1
  None = None
  Newer = Newer
  MaxCalls = 4
  MaxUpdates = 1
  MaxServes = 0
  MaxSessions = 1
  MaxKills = 0
  MaxAges = 0
  MaxCrashes = 2
  MaxStops = 1
  MaxLates = 0
SYMMETRY Symmetry
CONSTRAINT WithinBounds
INVARIANTS TypeOK StartupLockExclusive OneService OwnershipRecorded
PROPERTIES ServiceReused
CHECK_DEADLOCK FALSE
