SPECIFICATION Spec
CONSTANTS
  a = a
  b = b
  txt = txt
  t1 = t1
  t2 = t2
  Files <- MCFiles
  Unsupported <- MCUnsupported
  Threads <- TwoThreads
  Selections <- ShortSelections
  Listeners <- RendererOnly
  User = "serial"
  Damaged = FALSE
  MaxMedia = 2
  Discardable = {1}
  MaxSegments = 0
  MaxCount = 5
  MaxCounter = 2
  MaxPending = 1
INVARIANT HoverBlocked
