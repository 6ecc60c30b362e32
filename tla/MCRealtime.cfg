SPECIFICATION Spec
CONSTANTS
  FullScale = 4
  Resolution = 2
  Providers = {"openai", "gemini", "qwen", "deepgram", "elevenlabs", "azure"}
  Samples <- MCSamples
  Texts = {"", "hi"}
  MaxBuffer = 2
  MaxInFlight = 1
CHECK_DEADLOCK FALSE
INVARIANTS
  TurnsAsMeant
  HeardAsSaid
  EndsHeard
  ClosedOnRequest
  RelayKeepsLevel
