SPECIFICATION MCSpec
CONSTANTS
  Client = {c1, c2, third}
  third = third
  Server = {s1, s2}
  Port = {1, 2}
  MaxConnections = 2
  MaxUploads = 1
  QueueDepth = 1
  NoServer = NoServer
  MaxActs = 2
CHECK_DEADLOCK FALSE
INVARIANTS ApiSafety ServesStoredToken
PROPERTIES ApiComesToRest
