CONSTANTS
  Page = 3
  Alignment = 2
  InitialMemory = 3
  MaxMemory = 12
  MaxLength = 5
SPECIFICATION Spec
INVARIANTS
  BlocksAreDisjoint
  BlocksAreGranted
