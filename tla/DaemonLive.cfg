SPECIFICATION FairSpec
CONSTANTS
  Clis = {c1, c2}
  Daemons = {d1, d2}
  Ports = {p1, p2}
  Preferred = p1
  None = None
  Newer = Newer
  MaxCalls = 2
  MaxUpdates = 0
  MaxServes = 1
  MaxSessions = 0
  MaxKills = 1
  MaxAges = 0
  MaxCrashes = 1
  MaxStops = 0
  MaxLates = 1
PROPERTIES EveryCallEnds
CHECK_DEADLOCK FALSE
