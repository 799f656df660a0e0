SPECIFICATION Spec
CONSTANTS
  u1 = u1  u2 = u2  u3 = u3  u4 = u4  a = a  b = b
  Url = {u1, u2, u3, u4}
  NoScope = NoScope
  ScopeOf <- MCScopeOf
  MaxPageActs = 4
  MaxPresets = 4
  MaxRules = 2
  MaxFileActs = 4
  MaxEnds = 1
  Request = {1, 2}
  KeyCap = 1
  CommandCap = 1
  MaxDelay = 3
  MaxKeys = 3
  Job = {1, 2}
  MaxFiles = 3
  Starts <- MCStarts
  MaxLive = 5
  MaxBuffer = 5
  MaxSpill = 1
  MinCut = 1
  MaxCut = 5
  QuietWindow = 2
  Guard = 1
CHECK_DEADLOCK FALSE
INVARIANTS FilesSafety PagesSafety ShortcutsSafety VoiceSafety CaptureSafety
PROPERTIES PartsComeToRest
