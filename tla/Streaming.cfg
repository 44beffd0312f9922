CONSTANTS
  Streams <- MCStreams
  ChunkSize = 3
  MaxBuffer = 2
  MaxInterrupts = 1
  MaxErrors = 2
  PartialWrites = FALSE
  MaxChunks = 3
  MaxProduced = 2
  MaxFailures = 2
SPECIFICATION MCFairSpec
INVARIANTS
  SentOnceInOrder
  RetriesAreSafe
  FinishTellsTheTruth
  NothingLostOrRepeated
  EndIsTheEnd
PROPERTY
  ReaderComesToAnEnd
