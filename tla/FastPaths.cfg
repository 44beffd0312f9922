CONSTANTS
  WordSize = 64
  MaxOffset = 5
  Vector = 4
  Slack = 8
  ReadSlack = 4
  MaxBlock = 8
  OutputLengths = {16, 46}
  Histories = {1}
  LiteralCounts = {0, 5}
  PayloadRests = {1, 4}
  LiteralLengths = {0, 3}
  MatchLengths = {1, 6}
  Offsets = {1, 3, 9}
  MaxSequences = 2
  MaxBlocks = 2
  ByteBits = 8
  WordBytes = 8
  SequenceStreams = {8, 9, 15, 18}
  TableLogs = {0, 9}
  OffsetBits = {0, 30, 31}
  LengthBits = {0, 16}
  StateBits = {0, 8}
  RefillAbove = 30
  MaxSequencesRead = 3
  RoundSymbols = 5
  RoundBytes = 7
  MaxCodeBits = 11
  CodeLengths = {8, 11}
  HuffmanStreams = {2, 16, 21}
  SymbolCounts = {1, 12}
  FirstGroup = {1}
  SecondGroup = {2}
SPECIFICATION MCSpec
INVARIANTS
  PathsAgree
  EncoderAgrees
  OwnFramesResolve
  OutputIsPlain
  VectorsStayInside
  ParkedLiteralsSurvive
  SequenceReadersAgree
  CursorsStayInside
