SPECIFICATION AudioSpec
CONSTANTS
  Words <- Two
  Begins <- Prefix
  Marks <- Periods
  MaxDecodeTokens = 4
  MaxPositions = 5
  TextToken <- Tokens
  ImEnd = ImEnd
  TtsEos = TtsEos
  TtsPad = TtsPad
  MinAudioTokens = 1
  MaxAudioTokens = 3
  WhisperDirs <- WhisperModels
  QwenDirs <- QwenModels
  NoDir = NoDir
  ContextEvents <- Injected
  MaxEvents = 2
  MaxTurns = 2
  CodeGroups = 2
  Vocoders <- Nets
  NoNet = NoNet
  Checkpoints <- Mixed
  MinBuffer = 2
  StepSize = 2
  MaxBuffer = 4
  Passes = 2
  Texts <- MCTexts
  SameWord <- MCSameWord
  Opens <- MCOpens
  Pushes = {1, 3}
  MaxPushed = 9
  Running = Running
  Failed = Failed
  None = None
INVARIANTS
  TranscriptFaithful
  TextSpoken
  SpeechAligned
  EventsSpokenOnce
  ProvisionedUsable
  AudioNotStarved
PROPERTIES
  FinalCoversBuffer
  PartialsGrow
