SPECIFICATION Spec
CONSTANTS
  m1 = m1
  m2 = m2
  m3 = m3
  m4 = m4
  m5 = m5
  Values <- MCValues
  NoValue = NoValue
INVARIANTS MapIsTree LinksAgree DepthsRight WalkComplete
PROPERTY IsRootedTree
