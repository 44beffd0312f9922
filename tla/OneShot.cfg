CONSTANTS
  MaxBlockSize = 8
  PairRoom = 17
  ContentLimit = 40
  NoSize = NoSize
  NoMaximum = NoMaximum
  Maxima = {NoMaximum, 5, 11}
  StartFactor = 1
  FirstCapacity = 2
  Files <- MCFiles
SPECIFICATION Spec
CHECK_DEADLOCK FALSE
INVARIANTS
  ReturnsTheContent
PROPERTIES
  Returns
