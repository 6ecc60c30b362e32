SPECIFICATION Spec
CONSTANTS
  Sessions = {s1}
  MaxRequests = 2
  MaxEvents = 1
  None = None
PROPERTY ContextOnlyAccepted
CHECK_DEADLOCK FALSE
