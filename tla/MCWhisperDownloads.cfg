SPECIFICATION FairSpec
CONSTANTS
  full = full
  quant = quant
  home = home
  elsewhere = elsewhere
  w1 = w1
  w2 = w2
  Model = {full, quant}
  Sibling <- MCSibling
  FirstPick = quant
  Dir = {home, elsewhere}
  Slot = {w1, w2}
  NoModel = NoModel
  NoFile = NoFile
  Config <- MCConfig
  Default <- MCDefault
  MaxActs = 3
  MaxSlips = 1
CHECK_DEADLOCK FALSE
INVARIANTS DownloadSafety SavedMeansOnDisk
PROPERTIES DownloadsSettle
