SPECIFICATION SocketSpec
CONSTANTS
  Callers = {c1, c2}
  MaxSteps = 1
  MaxConns = 2
  None = None
  Sidecars = {s1, s2}
INVARIANTS
  OwnResponse
  AtMostOnce
  ReusedStreamClean
  AloneReachable
  NothingLeft
PROPERTIES
  CallReturns
  ShutdownEnds
CHECK_DEADLOCK FALSE
