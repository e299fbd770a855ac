SPECIFICATION Spec
CONSTANTS
  Pullers = {p1, p2}
  Files = 1
  Chunks = 2
  Inodes = {i1, i2, i3, i4}
  None = None
  FaultyOrigin = FALSE
  MaxDamages = 0
  MaxCrashes = 0
PROPERTIES InstallVerified
