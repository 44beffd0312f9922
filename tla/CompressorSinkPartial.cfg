CONSTANTS
  PartialWrites = TRUE
  MaxChunks = 3
  MaxProduced = 2
  MaxFailures = 2
SPECIFICATION Spec
INVARIANTS
  FinishTellsTheTruth
