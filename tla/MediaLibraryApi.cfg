SPECIFICATION ApiSpec
CONSTANTS
  a = a
  b = b
  txt = txt
  Files <- MCFiles
  Unsupported <- MCUnsupported
  MaxMedia = 3
  Discardable = {0, 1, 2}
  MaxSegments = 0
  MaxCount = 1
SYMMETRY FileSymmetry
PROPERTY NoOverwrite
