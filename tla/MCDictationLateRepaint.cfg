CONSTANTS
  None = None
  MaxTakes = 2
  MaxGen = 2
  MaxLen = 1
  MinChunk = 1
  QueueCap = 1
SPECIFICATION MCSpec
INVARIANT PanelMatchesCapture
CHECK_DEADLOCK FALSE
