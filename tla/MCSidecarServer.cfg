SPECIFICATION FairSpec
CONSTANTS
  Worker = {gui, api}
  Model = {small, large}
  Server = {p1, p2, p3}
  gui = gui
  api = api
  small = small
  large = large
  p1 = p1
  p2 = p2
  p3 = p3
  MaxEpoch = 1
  None = None
CHECK_DEADLOCK FALSE
INVARIANTS ServerSafety ShutdownSticks
PROPERTIES RequestsEnd
