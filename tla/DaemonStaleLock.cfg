SPECIFICATION Spec
CONSTANTS
  Clis = {c1, c2}
  Daemons = {d1, d2, d3}
  Ports = {p1, p2}
  Preferred = p1
  None = None
  Newer = Newer
  MaxCalls = 3
  MaxUpdates = 0
  MaxServes = 0
  MaxSessions = 0
  MaxKills = 1
  MaxAges = 0
  MaxCrashes = 0
  MaxStops = 0
  MaxLates = 0
INVARIANTS StartupLockExclusive
CHECK_DEADLOCK FALSE
