SPECIFICATION Spec
CONSTANTS
  a = a
  b = b
  txt = txt
  t1 = t1
  t2 = t2
  Files <- MCFiles
  Unsupported <- MCUnsupported
  Threads <- OneThread
  Selections <- MCSelections
  Listeners <- RendererAndWindow
  User = "waits"
  Damaged = FALSE
  MaxMedia = 3
  Discardable = {0, 1, 2}
  MaxSegments = 1
  MaxCount = 7
  MaxCounter = 2
  MaxPending = 2
INVARIANTS MutexReturned HoverBlocked ProgressBarGone
