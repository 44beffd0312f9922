---------------------------- MODULE EncodeTables ----------------------------
(***************************************************************************)
(* What a workspace of the encoder keeps of the tables of its match finder *)
(* from one input to the next, and the window that a frame's header        *)
(* promises.  Tables grow, never shrink: they were cut for the largest     *)
(* input so far, and only the sum of their lengths is compared.            *)
(*                                                                         *)
(* An Encoder compresses one input after the other; a StreamEncoder writes *)
(* one header and then prepares the tables for every segment.              *)
(***************************************************************************)
EXTENDS FrameHeaders

CONSTANTS
  Lengths,         \* bound: lengths of inputs
  SegmentLengths   \* bound: lengths that segments are prepared for

MAX_OFFSET_LOG == 22

Least(m, n) == IF m < n THEN m ELSE n
Most(m, n) == IF m > n THEN m ELSE n

EncodeTablesAssumption ==
  /\ FourByteLimit \in Nat /\ Fits(FourByteLimit, 4)
  /\ Lengths \subseteq Nat /\ \A n \in Lengths : Fits(n, 8)
  /\ SegmentLengths \subseteq 0..2^MAX_OFFSET_LOG

-----------------------------------------------------------------------------
(***************************************************************************)
(* The parameters of the four levels, made smaller for short inputs, and   *)
(* the tables they ask for.  The numbers are those of the code; what only  *)
(* steers a search (search_log, min_match, target_length) is left out.     *)
(***************************************************************************)
SUPPORTED_LEVELS == {1, 9, 12, 22}

Parameters(strategy, windowLog, chainLog, hashLog) ==
  [strategy |-> strategy, windowLog |-> windowLog, chainLog |-> chainLog, hashLog |-> hashLog]

LevelParameters ==
  [level \in SUPPORTED_LEVELS |->
     CASE level = 1  -> Parameters("Fast", 19, 13, 14)
       [] level = 9  -> Parameters("Lazy2", 22, 20, 21)
       [] level = 12 -> Parameters("Lazy2", 22, 22, 23)
       [] level = 22 -> Parameters("Ultra2", 27, 27, 25)]

SMALL_INPUT_LENGTH       == 2^14
MEDIUM_INPUT_LENGTH      == 2^17
LARGE_INPUT_LENGTH       == 2^18
MAX_RESIZED_INPUT_LENGTH == 2^30
MIN_HASH_LOG             == 6
MIN_WINDOW_LOG           == 10
MAX_HASH3_LOG            == 17

\* Levels 1 and 22 have rows of their own for short inputs.
ParametersBySize(level, length) ==
  LET small  == length <= SMALL_INPUT_LENGTH
      medium == length <= MEDIUM_INPUT_LENGTH
      large  == length <= LARGE_INPUT_LENGTH
  IN CASE level = 1  /\ small  -> Parameters("Fast", 14, 14, 15)
       [] level = 1  /\ ~small /\ medium -> Parameters("Fast", 17, 12, 13)
       [] level = 1  /\ ~medium /\ large -> Parameters("Fast", 18, 13, 14)
       [] level = 22 /\ small  -> Parameters("Ultra2", 14, 15, 15)
       [] level = 22 /\ ~small /\ medium -> Parameters("Ultra2", 17, 18, 17)
       [] level = 22 /\ ~medium /\ large -> Parameters("Ultra2", 18, 19, 19)
       [] OTHER -> LevelParameters[level]

\* The bits of the last position.
InputLog(length) ==
  IF length < 2^MIN_HASH_LOG
  THEN MIN_HASH_LOG
  ELSE CHOOSE bits \in MIN_HASH_LOG..30 : 2^(bits - 1) <= length - 1 /\ length - 1 < 2^bits

\* Window, then hash, then chain: each is shrunk to what the one before left.
Shrunk(parameters, length) ==
  LET windowLog == IF length <= MAX_RESIZED_INPUT_LENGTH
                   THEN Least(parameters.windowLog, InputLog(length))
                   ELSE parameters.windowLog
      cycleLog  == parameters.chainLog - (IF parameters.strategy = "Ultra2" THEN 1 ELSE 0)
      excess    == Most(cycleLog - windowLog, 0)
  IN  Parameters(parameters.strategy,
                 Most(windowLog, MIN_WINDOW_LOG),
                 parameters.chainLog - excess,
                 Least(parameters.hashLog, windowLog + 1))

ParametersForInput(level, length) == Shrunk(ParametersBySize(level, length), length)

\* get_table_parameters_for_input: a Lazy2Finder always has the tables of its
\* level.
TableParameters(level, length) ==
  IF LevelParameters[level].strategy = "Lazy2"
  THEN LevelParameters[level]
  ELSE ParametersForInput(level, length)

\* OPTIMAL_TABLE_LENGTH nodes of NODE_WORDS and candidates of CANDIDATE_WORDS.
OptimalBufferWords == (2^12 + 3) * (7 + 2)

\* The three tables cut out of one memory, in words.
TableLengths(parameters) ==
  [hash    |-> 2^parameters.hashLog,
   chain   |-> 2^parameters.chainLog,
   optimal |-> IF parameters.strategy = "Ultra2"
               THEN 2^Least(parameters.windowLog, MAX_HASH3_LOG) + OptimalBufferWords
               ELSE 0]

\* A FastFinder holds its table itself.
TableMemoryLength(parameters) ==
  IF parameters.strategy = "Fast"
  THEN 0
  ELSE LET lengths == TableLengths(parameters)
       IN  lengths.hash + lengths.chain + lengths.optimal
-----------------------------------------------------------------------------
VARIABLES
  level,    \* workspace.level
  tables,   \* the lengths of the tables in table_memory
  memory,   \* table_memory.len()
  matcher,  \* match_finder: whether its tables serve it, and its window_log
  use,      \* "call": an Encoder; "stream": a StreamEncoder
  header,   \* the last header written, <<>> before
  stated,   \* the content size in it, or NoSize
  outcome   \* how the last call ended

tableVars == <<level, tables, memory, matcher, use, header, stated, outcome>>

\* build_finder_over_tables.
NewFinder(parameters) == [usable |-> TRUE, windowLog |-> parameters.windowLog]

\* Encoder::new and StreamEncoder::new: tables for an empty input.
TablesInit ==
  /\ level \in SUPPORTED_LEVELS
  /\ use \in {"call", "stream"}
  /\ tables = TableLengths(TableParameters(level, 0))
  /\ memory = TableMemoryLength(TableParameters(level, 0))
  /\ matcher = NewFinder(LevelParameters[level])
  /\ header = <<>>
  /\ stated = NoSize
  /\ outcome = "ready"

\* Broken: a table that was large enough once is taken to be large enough.
BrokenMustGrow(n) == memory = 0 /\ TableMemoryLength(TableParameters(level, n)) > 0

\* Only the sum is compared.
MustGrow(n) == memory < TableMemoryLength(TableParameters(level, n))

\* The parts of BinaryTreeMatcher::reset's test.
TreesFit(lengths, parameters) ==
  LET needed == TableLengths(parameters)
  IN  /\ lengths.hash >= needed.hash
      /\ lengths.chain >= needed.chain
      /\ lengths.optimal >= needed.optimal
      /\ parameters.chainLog \in 2..30
      /\ parameters.hashLog \in 6..30

\* MatchFinder::reset: FastFinder and Ultra2Finder take the parameters of the
\* input, each by a call of its own; trees that do not fit are not used.
FinderAfterReset(lengths, n) ==
  LET parameters == ParametersForInput(level, n)
  IN CASE LevelParameters[level].strategy = "Lazy2" -> matcher
       [] LevelParameters[level].strategy = "Fast" ->
            [usable |-> TRUE, windowLog |-> parameters.windowLog]
       [] LevelParameters[level].strategy = "Ultra2" ->
            IF TreesFit(lengths, parameters)
            THEN [usable |-> TRUE, windowLog |-> parameters.windowLog]
            ELSE [matcher EXCEPT !.usable = FALSE]

\* prepare_tables_for_input and the finder's reset.
Prepare(n) ==
  LET parameters == TableParameters(level, n)
      lengths    == IF MustGrow(n) THEN TableLengths(parameters) ELSE tables
  IN  /\ tables' = lengths
      /\ memory' = IF MustGrow(n) THEN TableMemoryLength(parameters) ELSE memory
      /\ matcher' = FinderAfterReset(lengths, n)
      /\ outcome' = "prepared"

\* The allocation fails: what was there stays, and the call ends.
TablesRunOutOfMemory(n) ==
  /\ MustGrow(n)
  /\ outcome' = "OutOfMemory"
  /\ UNCHANGED <<tables, memory, matcher>>

\* compress: the header is written before the tables are prepared.
Compress(n, withChecksum) ==
  /\ use = "call"
  /\ header' = FrameHeader(n, TableParameters(level, n).windowLog, withChecksum)
  /\ stated' = n
  /\ Prepare(n) \/ TablesRunOutOfMemory(n)
  /\ UNCHANGED <<level, use>>

\* Options of another level than the workspace's, or of none.
RefuseLevel(asked) ==
  /\ use = "call"
  /\ asked # level
  /\ outcome' = "BadOptions"
  /\ UNCHANGED <<level, tables, memory, matcher, use, header, stated>>

StreamWindowLog == Least(LevelParameters[level].windowLog, MAX_OFFSET_LOG)

\* write_header_once.
WriteStreamHeader(withChecksum) ==
  /\ use = "stream"
  /\ header = <<>>
  /\ header' = FrameHeader(NoSize, StreamWindowLog, withChecksum)
  /\ UNCHANGED <<level, tables, memory, matcher, use, stated, outcome>>

\* start_segment.
StartSegment(n) ==
  /\ use = "stream"
  /\ header # <<>>
  /\ Prepare(n) \/ TablesRunOutOfMemory(n)
  /\ UNCHANGED <<level, use, header, stated>>

TablesNext ==
  \/ \E n \in Lengths, withChecksum \in BOOLEAN : Compress(n, withChecksum)
  \/ \E asked \in SUPPORTED_LEVELS \cup {0} : RefuseLevel(asked)
  \/ \E withChecksum \in BOOLEAN : WriteStreamHeader(withChecksum)
  \/ \E n \in SegmentLengths : StartSegment(n)

TablesSpec == TablesInit /\ [][TablesNext]_tableVars
-----------------------------------------------------------------------------
\* Whatever was compressed before, a finder that was prepared can use its
\* tables: where the sum of the lengths is enough, each of them is.  Trees that
\* do not fit are not refused; they just find nothing.
TablesServeTheInput == outcome = "prepared" => matcher.usable

\* How far back a match may lie.
Reach == Least(2^matcher.windowLog, IF use = "call" THEN stated ELSE 2^MAX_OFFSET_LOG)

\* What a reader finds in the header is the size of the content, and a window
\* that holds every distance of the frame, whichever tables and parameters the
\* workspace had before.
HeaderTellsTheTruth ==
  header # <<>> =>
    LET read == ReadFrameHeader(header)
    IN  /\ read.status = "ok"
        /\ read.size = stated
        /\ read.length = HeaderLength(header)
        /\ read.length <= MAX_FRAME_HEADER_LENGTH
        /\ outcome = "prepared" => Reach <= read.window
=============================================================================
