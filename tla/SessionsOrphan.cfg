SPECIFICATION Spec
CONSTANTS
  SessionIDs = {s1, s2}
  Models = {m1}
  Callers = {c1, c2}
  Main = main
  None = None
  Windows = FALSE
  MaxStarts = 1
  MaxWriteErrors = 0
  MaxRivals = 0
PROPERTIES GracefulShutdownStopsChildren
CHECK_DEADLOCK FALSE
