SPECIFICATION Spec
CONSTANTS
  a = a
  b = b
  txt = txt
  t1 = t1
  t2 = t2
  Files <- MCFiles
  Unsupported <- MCUnsupported
  Threads <- TwoThreads
  Selections <- MCSelections
  Listeners <- RendererOnly
  User = "serial"
  Damaged = FALSE
  MaxMedia = 3
  Discardable = {1}
  MaxSegments = 1
  MaxCount = 7
  MaxCounter = 2
  MaxPending = 2
INVARIANTS RenderersMatch EventsMatchNodes
PROPERTY LibraryUse
CHECK_DEADLOCK FALSE
