CONSTANTS
  MaxBlock = 3
  SegmentSize = 7
  MinSavings = 2
  MaxInput = 15
  Texts <- MCTexts
  LaneCount = 2
  WordLength = 3
  HalfLength = 2
  MaxBlockSize = 5
  ChunkLength = 1
  BlockHeaderLength = 3
  ChecksumLength = 1
  MinSavingsToSplit = 3
  MaxHeader = 1
  HeaderLengths = {1}
  MaxLength = 13
  Missing = {0, 1, 3, 7}
  FourByteLimit = 1048576
  Lengths <- MCLengths
  SegmentLengths <- MCSegmentLengths
SPECIFICATION MCSpec
INVARIANTS
  BlocksTileTheInput
  ChunkingLeavesNoTrace
  ChecksumIsOfTheInput
  BoundSuffices
  TablesServeTheInput
  HeaderTellsTheTruth
PROPERTIES
  CallsReturn
