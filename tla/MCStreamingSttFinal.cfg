SPECIFICATION SttSpec
CONSTANTS
  MinBuffer = 2
  StepSize = 2
  MaxBuffer = 4
  Passes = 2
  Texts <- MCTexts
  SameWord <- MCSameWord
  Opens <- MCOpens
  Pushes = {1, 3}
  MaxPushed = 9
  Running = Running
  Failed = Failed
  None = None
INVARIANT FinalIsTranscript
