CONSTANTS
  CacheSize = 3
  CacheReadSize = 1
  SkipThreshold = 7
  MatchStart = 2
  MatchEnd = 3
  Strength = 2
  SkippingStep = 2
  MaxCacheLength = 26
  MaxInputs = 2
  WordSize = 20
  PositionSize = 16
  Hashes = {h1, h2}
  ReadSize = 2
  MaxLength = 18
  UsizeSize = 64
  Mask = 3
  Tags = {0, 1}
  TableLength = 6
  Window = 3
  RowWindow = 3
  Attempts = 2
  MaxRowLength = 6
  Bytes = {0, 1}
  Texts <- MCTexts
  Bucket <- MCBucket
  Bucket3 <- MCBucket
  HashBytes = 2
  MinMatch = 2
  Reserve = 2
  LongestMatch = 6
  TreeSkipThreshold = 4
  TreeSkipLimit = 2
  MaxDistance = 8
  MaxDistance3 = 4
  TreeMask = 3
  SearchCount = 6
  SufficientLength = 3
  MinSeeding = 4
  BlockLengths = {4, 6}
  RepeatTriples <- MCRepeatTriples
  MaxTreeInputs = 2
  ParseTexts <- MCParseTexts
  ParseStart = 2
  ParseReserve = 3
  ParseMinMatch = 3
  ParseLongest = 6
  ParseSufficient = 5
  MaxCandidates = 2
SPECIFICATION MCSpec
CHECK_DEADLOCK FALSE
INVARIANTS
  ReusedMatchesFresh
  CachedHashesAreSound
  InsertedInOrder
  SearchFindsTheNewest
  CandidatesAreMatches
  WalksStayInside
  ParseIsFaithful
