SPECIFICATION FairSpec
CONSTANTS
  a = a
  b = b
  txt = txt
  t1 = t1
  t2 = t2
  Files <- MCFiles
  Unsupported <- MCUnsupported
  Threads <- TwoThreads
  Selections <- OneFile
  Listeners <- ViewOnly
  User = "hasty"
  Damaged = TRUE
  MaxMedia = 1
  Discardable = {0}
  MaxSegments = 0
  MaxCount = 7
  MaxCounter = 0
  MaxPending = 0
PROPERTIES MouseReturns ImportEnds
