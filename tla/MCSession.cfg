SPECIFICATION Spec
CONSTANTS
  MaxFrames = 2
  MaxEvents = 2
  MaxAudit = 3
  StepOutputs <- Steps
INVARIANTS
  TypeOK
  NoStaleAudio
  MetricsTrue
  AuditPaired
  AuditedTimeoutRecorded
PROPERTIES
  KeepsContract
  FrameDealtWith
CHECK_DEADLOCK FALSE
