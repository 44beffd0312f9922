CONSTANTS
  FieldCount = 1
  NoTable = NoTable
  PredefinedTable = PredefinedTable
  Level = 22
  MaxBlocks = 2
  LoneBlocks = 3
  MaxPieces = 2
  MaxFrames = 1
  MaxDamaged = 1
SPECIFICATION Spec
INVARIANTS
  DecodesAsWritten
  TablesOfThisFrame
  FastCopiesAreCurrent
PROPERTY
  TransfersFrames
