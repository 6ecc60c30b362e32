SPECIFICATION OllamaSpec
CONSTANTS
  Bodies <- MCBodies
  Capacity = 1
  MaxGens = 2
INVARIANTS
  ReplyInOrder
PROPERTIES
  ReplyEnds
  AbandonedEnds
CHECK_DEADLOCK FALSE
