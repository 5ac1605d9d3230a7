SPECIFICATION FairSpec
CONSTANTS
  gui = gui
  osc = osc
  Remotes <- MCRemotes
  MaxMedia = 2
  SlotCount = 2
  MaxPending = 2
INVARIANTS TypeOK SlotsAgree InSync
PROPERTY RequestsServed
