----------------------------- MODULE FrameWalk -----------------------------
(***************************************************************************)
(* The three walks over the same bytes: decompress_checked, which decodes; *)
(* skip_frame_body behind get_frame_compressed_size, which only finds where*)
(* a frame ends; and get_decompressed_size, which adds up what the frames  *)
(* promise.  Each computes for itself where the next thing begins.         *)
(*                                                                         *)
(* The input is a sequence of units, positions counted from 0 as in the    *)
(* code.  A frame header is two units, a block header one, a checksum two, *)
(* and a payload as many as its block says.  A unit knows what it is, so   *)
(* that a walk that has lost its place reads nonsense.  A walk is a record,*)
(* and a step of it a function from one record to the next.                *)
(***************************************************************************)
EXTENDS Integers, Sequences

CONSTANTS
  MaxBlockSize,    \* MAX_BLOCK_SIZE
  PairRoom,        \* PAIRED_OUTPUT_ROOM
  ContentLimit,    \* u64::MAX
  NoSize           \* a frame that does not say its content size

ASSUME FrameWalkAssumption ==
  /\ MaxBlockSize \in Nat \ {0} /\ PairRoom >= 2 * MaxBlockSize
  /\ ContentLimit \in Nat /\ NoSize \notin Nat

HeaderLength == 2
BlockHeaderLength == 1
ChecksumLength == 2

\* What there is to read at a position.
UnitAt(input, position) ==
  IF position < Len(input) THEN input[position + 1] ELSE [kind |-> "nothing"]

\* is_skippable_frame and get_skippable_frame_length.
IsSkippable(input, position) == UnitAt(input, position).kind = "skippable"

SkippableLength(input, position) == HeaderLength + UnitAt(input, position).size

SkippableError(input, position) ==
  IF position + HeaderLength > Len(input)
     \/ position + SkippableLength(input, position) > Len(input)
  THEN "InputTooShort" ELSE "none"

\* read_frame_header: nothing is checked of a header that is not all there,
\* but the magic number.
FrameHeaderError(input, position) ==
  IF UnitAt(input, position).kind # "header" THEN "BadMagicNumber"
  ELSE IF position + HeaderLength > Len(input) THEN "InputTooShort"
  ELSE IF ~UnitAt(input, position).good THEN "BadFrameHeader"
  ELSE "none"

\* read_block_header.
BlockHeaderError(input, position) ==
  IF position >= Len(input) THEN "InputTooShort"
  ELSE IF UnitAt(input, position).kind # "block" THEN "ReservedBlockType"
  ELSE IF UnitAt(input, position).type = "Reserved" THEN "ReservedBlockType"
  ELSE IF UnitAt(input, position).size > MaxBlockSize THEN "BlockTooLarge"
  ELSE "none"

\* block_payload_length.
PayloadLength(block) == IF block.type = "Rle" THEN 1 ELSE block.size

HeaderChecksumLength(header) == IF header.checksum THEN ChecksumLength ELSE 0

BlockEnd(input, position) ==
  position + BlockHeaderLength + PayloadLength(UnitAt(input, position))

\* The error of the headers and lengths of the block at "position".
BlockError(input, position) ==
  IF BlockHeaderError(input, position) # "none" THEN BlockHeaderError(input, position)
  ELSE IF BlockEnd(input, position) > Len(input) THEN "InputTooShort" ELSE "none"

-----------------------------------------------------------------------------
\* A walk: where it reads, what it knows of the frame it is in, and how it
\* stands: "frames" between two frames, "blocks" inside one, "trailer" behind
\* its last block, "done", or an error.  "output" is what it decoded or was
\* promised.
NewWalk ==
  [status |-> "frames", position |-> 0, header |-> [kind |-> "nothing"], frameStart |-> 0,
   output |-> 0]

Fail(walk, error) == [walk EXCEPT !.status = error]

\* Between two frames all walks do the same: the end, a skippable frame, or
\* a header to read.
PassSkippable(walk, input) ==
  IF SkippableError(input, walk.position) # "none"
  THEN Fail(walk, SkippableError(input, walk.position))
  ELSE [walk EXCEPT !.position = @ + SkippableLength(input, walk.position)]

EnterFrame(walk, input) ==
  IF FrameHeaderError(input, walk.position) # "none"
  THEN Fail(walk, FrameHeaderError(input, walk.position))
  ELSE [walk EXCEPT !.status = "blocks", !.header = UnitAt(input, walk.position),
                    !.position = @ + HeaderLength, !.frameStart = walk.output]

-----------------------------------------------------------------------------
\* skip_frame_body: one block, then the checksum.
SkipBlock(walk, input) ==
  LET error == BlockError(input, walk.position)
  IN  IF error # "none" THEN Fail(walk, error)
      ELSE [walk EXCEPT !.position = BlockEnd(input, walk.position),
                        !.status = IF UnitAt(input, walk.position).last THEN "trailer" ELSE @]

SkipTrailer(walk, input) ==
  LET end == walk.position + HeaderChecksumLength(walk.header)
  IN  IF Len(input) < end THEN Fail(walk, "InputTooShort")
      ELSE [walk EXCEPT !.status = "frames", !.position = end]

\* The promise get_decompressed_size adds up, before it skips the body.
Promise(walk) ==
  IF walk.header.size = NoSize THEN Fail(walk, "unknown")
  ELSE IF walk.output + walk.header.size > ContentLimit THEN Fail(walk, "BadFrameHeader")
  ELSE [walk EXCEPT !.output = @ + walk.header.size]

EnterPromise(walk, input) ==
  LET entered == EnterFrame(walk, input)
  IN  IF entered.status = "blocks" THEN Promise(entered) ELSE entered

\* One step of get_decompressed_size.
SizeStep(walk, input) ==
  CASE walk.status = "frames" /\ walk.position >= Len(input) -> [walk EXCEPT !.status = "done"]
    [] walk.status = "frames" /\ walk.position < Len(input)  ->
         IF IsSkippable(input, walk.position) THEN PassSkippable(walk, input)
                                              ELSE EnterPromise(walk, input)
    [] walk.status = "blocks"                                -> SkipBlock(walk, input)
    [] walk.status = "trailer"                               -> SkipTrailer(walk, input)

-----------------------------------------------------------------------------
\* What the block at "position" decodes to, or how far it gets before it
\* turns out corrupt.
DecodedLength(input, position) ==
  LET block == UnitAt(input, position)
  IN  IF block.type = "Compressed" THEN block.decoded ELSE block.size

IsCorrupt(input, position) ==
  /\ UnitAt(input, position).type = "Compressed"
  /\ UnitAt(input, position).corrupt

\* decode_block, into an output of "capacity".
DecodeError(input, position, output, capacity) ==
  IF output + DecodedLength(input, position) > capacity THEN "OutputTooSmall"
  ELSE IF IsCorrupt(input, position) THEN "CorruptBitstream"
  ELSE "none"

\* Whether decode_block_sequence looks at a second block.
MayPair(input, position) ==
  /\ UnitAt(input, position).type = "Compressed"
  /\ ~UnitAt(input, position).last

\* read_next_compressed_block: an error of the next header is an error now.
NextIsCompressed(input, next) ==
  /\ BlockHeaderError(input, next) = "none"
  /\ UnitAt(input, next).type = "Compressed"
  /\ BlockEnd(input, next) <= Len(input)

NextError(input, position) ==
  IF MayPair(input, position)
  THEN BlockHeaderError(input, BlockEnd(input, position)) ELSE "none"

DecodeOne(walk, input, capacity) ==
  LET error == DecodeError(input, walk.position, walk.output, capacity)
  IN  IF error # "none" THEN Fail(walk, error)
      ELSE [walk EXCEPT !.position = BlockEnd(input, walk.position),
                        !.output = @ + DecodedLength(input, walk.position),
                        !.status = IF UnitAt(input, walk.position).last THEN "trailer" ELSE @]

PairEnd(input, next) == BlockEnd(input, next)

\* Both blocks of a pair, whose room was checked beforehand.
DecodePair(walk, input) ==
  LET next == BlockEnd(input, walk.position)
  IN  IF IsCorrupt(input, walk.position) \/ IsCorrupt(input, next)
      THEN Fail(walk, "CorruptBitstream")
      ELSE [walk EXCEPT !.position = PairEnd(input, next),
                        !.output = @ + DecodedLength(input, walk.position)
                                     + DecodedLength(input, next),
                        !.status = IF UnitAt(input, next).last THEN "trailer" ELSE @]

\* One turn of decode_block_sequence.  "together" is whether the literals of
\* the two blocks are of kinds that are decoded side by side.
DecodeBlocks(walk, input, capacity, together) ==
  LET error == BlockError(input, walk.position)
      next == BlockEnd(input, walk.position)
  IN  IF error # "none" THEN Fail(walk, error)
      ELSE IF NextError(input, walk.position) # "none"
      THEN Fail(walk, NextError(input, walk.position))
      ELSE IF /\ MayPair(input, walk.position) /\ NextIsCompressed(input, next)
              /\ capacity >= walk.output + PairRoom /\ together
      THEN DecodePair(walk, input)
      ELSE DecodeOne(walk, input, capacity)

\* The checksum is read only if it is verified; without the feature it must
\* at least be there, and must not be asked for.
ChecksumError(walk, input, checks) ==
  LET end == walk.position + HeaderChecksumLength(walk.header)
      wanted == walk.header.checksum /\ checks.verify
  IN  CASE checks.supported /\ wanted /\ end > Len(input)                      -> "InputTooShort"
        [] checks.supported /\ wanted /\ end <= Len(input)
             /\ ~UnitAt(input, walk.position).right                        -> "ChecksumMismatch"
        [] ~checks.supported /\ end > Len(input)                               -> "InputTooShort"
        [] ~checks.supported /\ end <= Len(input) /\ wanted                    -> "ChecksumNotSupported"
        [] OTHER                                                           -> "none"

\* Broken: a frame is accepted whatever it promised.
BrokenKeepsPromise(walk) == TRUE

KeepsPromise(walk) ==
  walk.header.size = NoSize \/ walk.output - walk.frameStart = walk.header.size

\* The rest of decode_frame.
DecodeTrailer(walk, input, checks) ==
  LET end == walk.position + HeaderChecksumLength(walk.header)
  IN  IF ChecksumError(walk, input, checks) # "none"
      THEN Fail(walk, ChecksumError(walk, input, checks))
      ELSE IF ~KeepsPromise(walk) THEN Fail(walk, "BadFrameHeader")
      ELSE [walk EXCEPT !.status = "frames", !.position = end]

\* One step of decompress_checked.
DecodeStep(walk, input, capacity, checks, together) ==
  CASE walk.status = "frames" /\ walk.position >= Len(input) -> [walk EXCEPT !.status = "done"]
    [] walk.status = "frames" /\ walk.position < Len(input)  ->
         IF IsSkippable(input, walk.position) THEN PassSkippable(walk, input)
                                              ELSE EnterFrame(walk, input)
    [] walk.status = "blocks"  -> DecodeBlocks(walk, input, capacity, together)
    [] walk.status = "trailer" -> DecodeTrailer(walk, input, checks)

IsWalking(walk) == walk.status \in {"frames", "blocks", "trailer"}
=============================================================================
