SPECIFICATION FairCalmSpec
CONSTANTS
  Id = {a, b, o}
  Fresh = {a, b}
  Old = {o}
  a = a
  b = b
  o = o
  Incomplete = {a}
  MaxTakes = 2
  MaxSaves = 3
  MaxFailures = 1
  None = None
CHECK_DEADLOCK FALSE
INVARIANTS PageSafety
PROPERTIES NeverTruncated LateWritesUndoNothing EntryReachesFile
