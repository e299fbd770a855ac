SPECIFICATION FairSpec
CONSTANTS
  SessionIDs = {s1}
  Models = {m1}
  Callers = {c1, c2}
  Main = main
  None = None
  Windows = FALSE
  MaxStarts = 2
  MaxWriteErrors = 1
  MaxRivals = 1
PROPERTIES ImplementsContract ExitIsDetected StopSettles ShutdownEnds
CHECK_DEADLOCK FALSE
