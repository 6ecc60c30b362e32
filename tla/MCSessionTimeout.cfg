SPECIFICATION Spec
CONSTANTS
  MaxFrames = 2
  MaxEvents = 2
  MaxAudit = 3
  StepOutputs <- Steps
INVARIANT TimeoutAlreadyAudited
CHECK_DEADLOCK FALSE
