SPECIFICATION FairSpec
CONSTANTS
  MaxRequests = 2
  MaxActs = 2
  ChordLen = 2
  QueueCap = 2
  Foreign = Foreign
  Portal = Portal
  None = None
CHECK_DEADLOCK FALSE
INVARIANTS DeliverySafety
PROPERTIES ChordSafety PanelComesBack
