CONSTANTS
  None = None
  MaxTakes = 2
  MaxGen = 3
  MaxLen = 3
  MinChunk = 1
  QueueCap = 1
SPECIFICATION MCSpec
CHECK_DEADLOCK FALSE
INVARIANTS ChunkSafety SpeechOnce DecodedSpeechKept
PROPERTIES CancelledNeverSaved RecordingStaysVisible SpinnerEnds
