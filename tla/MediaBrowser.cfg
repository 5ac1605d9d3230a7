SPECIFICATION Spec
CONSTANTS
  m1 = m1
  m2 = m2
  m3 = m3
  m4 = m4
  zero = zero
  None = None
  Media <- MCMedia
  NeighborCount = 2
  MaxClusters = 2
  MaxLevel = 2
  MaxSize = 5
SYMMETRY Symmetry
INVARIANTS TypeOK HistoryOrdered DisplayMatches
PROPERTIES OneBranchOpen NoNewStrays ZoomNarrows SwitchExpands
