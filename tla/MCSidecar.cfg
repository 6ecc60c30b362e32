SPECIFICATION Spec
CONSTANTS
  Sessions = {s1, s2}
  MaxRequests = 3
  MaxEvents = 2
  None = None
SYMMETRY Interchangeable
INVARIANTS
  ExclusiveState
  EventsAccounted
  StateSurvives
CHECK_DEADLOCK FALSE
