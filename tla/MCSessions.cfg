SPECIFICATION Spec
CONSTANTS
  SessionIDs = {s1, s2}
  Models = {m1}
  Callers = {c1, c2}
  Main = main
  None = None
  Windows = FALSE
  MaxStarts = 2
  MaxWriteErrors = 1
  MaxRivals = 0
SYMMETRY Symmetry
INVARIANTS TypeOK StoppedIsDead NoStrayProcess QuiescentFileAgrees ShutdownStopsListed
CHECK_DEADLOCK FALSE
