SPECIFICATION SpecInstalls
CONSTANTS
  Pullers = {p1}
  Files = 2
  Chunks = 3
  Inodes = {i1, i2, i3, i4}
  None = None
  FaultyOrigin = TRUE
  MaxDamages = 1
  MaxCrashes = 1
  Users = {u1, u2}
  Artifacts = 2
  Archives = {1}
  Blocks = {1, 2, 3, 4, 5, 6, 7}
  MaxFaults = 1
  Parts = 2
  MaxFailures = 1
INVARIANTS TypesOK RetriesSucceed RuntimeVerified RuntimeInstalls PreparesAgain
PROPERTIES
  InstallVerified GoodKept SuccessIsComplete
  RuntimeKept RemoteVerified
SYMMETRY Symmetry
