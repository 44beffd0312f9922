CONSTANTS
  PositionSize = 16
  UsizeSize = 16
  Hashes = {h1, h2}
  Window = 7
  ReadSize = 2
  MaxLength = 7
SPECIFICATION Spec
INVARIANTS
  ReusedMatchesFresh
