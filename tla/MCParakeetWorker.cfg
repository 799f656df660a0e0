SPECIFICATION Spec
CONSTANTS
  Thread = {gui, api}
  Model = {fast, precise}
  Server = {p1, p2, p3}
  gui = gui
  api = api
  fast = fast
  precise = precise
  p1 = p1
  p2 = p2
  p3 = p3
  MaxEpoch = 1
  MaxCalls = 2
  None = None
CHECK_DEADLOCK FALSE
INVARIANTS WorkerSafety
PROPERTIES ImplementsWarmSlot RequestFreed
