SPECIFICATION Spec
CONSTANTS
  FrameSize = 2
  AudioCap = 1
  TextCap = 1
  PipeCap = 1
  UplinkCap = 2
  Inputs = {0, 1, 3}
  MaxSamples = 4
  MaxMessages = 3
INVARIANTS
  MessagesKept
  InputKept
PROPERTIES
  StepEnds
  TextSurfaces
CHECK_DEADLOCK FALSE
