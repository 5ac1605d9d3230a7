SPECIFICATION Spec
CONSTANTS
  a = a
  b = b
  txt = txt
  Files <- MCFiles
  Unsupported <- MCUnsupported
  MaxMedia = 4
  Discardable = {1, 2}
  MaxSegments = 1
  MaxCount = 2
SYMMETRY FileSymmetry
INVARIANTS TypeOK IdsContiguous ParentLinks NormalizedPrefix
