SPECIFICATION FairSpec
CONSTANTS
  gui = gui
  osc = osc
  Remotes <- NoRemotes
  MaxMedia = 2
  SlotCount = 3
  MaxPending = 2
PROPERTY MuteReturns
