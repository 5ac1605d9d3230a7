SPECIFICATION FairSpec
CONSTANTS
  gui = gui
  i1 = i1
  l1 = l1
  l2 = l2
  Gui = gui
  Importers <- MCImporters
  Listeners <- MCListeners
  MaxEvents = 2
INVARIANTS TypeOK NoneSkipped
PROPERTIES InOrder NoCallAfterClean Handled
CHECK_DEADLOCK FALSE
