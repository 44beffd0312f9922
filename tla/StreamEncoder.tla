--------------------------- MODULE StreamEncoder ---------------------------
(***************************************************************************)
(* StreamEncoder: one frame written from input that comes in chunks.  The  *)
(* input is kept in a segment, blocks are cut from it as soon as it holds  *)
(* more than one block, and a full segment is written out and emptied.     *)
(* The frame must not depend on how the input was chunked.                 *)
(*                                                                         *)
(* Input bytes are their positions in the stream.  What a byte is matters  *)
(* in two ways only: where the presplitter ends a block that begins at it, *)
(* and whether that block comes out smaller.  The function "text" gives    *)
(* both.                                                                   *)
(***************************************************************************)
EXTENDS Integers, Sequences, XxHash64

CONSTANTS
  MaxBlock,      \* MAX_BLOCK_SIZE
  SegmentSize,   \* STREAM_SEGMENT_SIZE
  MinSavings,    \* MIN_SAVINGS_TO_SPLIT
  MaxInput,      \* bound: bytes of the stream
  Texts          \* what the input may be

Positions == 0..MaxInput

StreamAssumption ==
  /\ MaxBlock \in Nat \ {0} /\ SegmentSize \in Nat /\ SegmentSize > MaxBlock
  /\ MinSavings \in Nat /\ MaxInput \in Nat
  /\ Texts \subseteq [Positions -> [split : 1..MaxBlock, shrinks : BOOLEAN]]

VARIABLES
  text,          \* the input
  hasher,        \* StreamEncoder::hasher
  remaining,     \* bytes of this call not yet in the segment
  segmentStart,  \* position in the stream of the first byte of the segment
  segmentLength, \* StreamEncoder::segment.len()
  blockStart,    \* StreamEncoder::block_start, in the segment
  savings,       \* StreamEncoder::savings
  tableLength,   \* input length the finder's tables are large enough for
  expected,      \* input length the finder was last reset for
  headerWritten, \* StreamEncoder::header_written
  finished,      \* StreamEncoder::finished
  stage,         \* "ready", "taking", or the BlockFlush of write_blocks
  blocks,        \* the blocks in the output
  checksum,      \* the checksum in the output: a digest, or NoChecksum
  failed,        \* history: a call ended in OutOfMemory
  lost           \* history: bytes of such calls that the segment never took

call == <<remaining, stage>>
input == <<segmentStart, segmentLength, blockStart>>
finder == <<savings, tableLength, expected>>
output == <<headerWritten, finished, blocks, checksum>>
vars == <<text, hasher, call, input, finder, output, failed, lost>>

\* Bytes of the stream: a byte is its position.
Bytes(from, length) == [i \in 1..length |-> from + i - 1]

\* No digest: the length is that of no stream.
NoChecksum == [Digest(NewHasher) EXCEPT !.length = 0 - 1]

Flushes == {"KeepLookahead", "WholeSegment", "FinalSegment"}

Init ==
  /\ text \in Texts
  /\ hasher = NewHasher /\ remaining = 0
  /\ segmentStart = 0 /\ segmentLength = 0 /\ blockStart = 0
  /\ savings = 0 /\ tableLength = 0 /\ expected = 0
  /\ headerWritten = FALSE /\ finished = FALSE
  /\ stage = "ready"
  /\ blocks = <<>> /\ checksum = NoChecksum
  /\ failed = FALSE /\ lost = 0

Available == segmentLength - blockStart

(***************************************************************************)
(* write.                                                                  *)
(***************************************************************************)

\* The hasher takes the chunk whole, before a byte of it is compressed.
BeginWrite(length) ==
  /\ stage = "ready" /\ ~finished
  /\ hasher.total + length <= MaxInput
  /\ headerWritten' = TRUE
  /\ hasher' = Update(hasher, Bytes(hasher.total, length))
  /\ remaining' = length
  /\ stage' = IF length = 0 THEN "ready" ELSE "taking"
  /\ UNCHANGED <<text, input, finder, finished, blocks, checksum, failed, lost>>

\* Broken: the full segment is emptied with a block still in it.
BrokenFlushFullSegment ==
  /\ stage = "taking"
  /\ segmentLength = SegmentSize
  /\ stage' = "taking"
  /\ segmentStart' = segmentStart + SegmentSize
  /\ segmentLength' = 0
  /\ blockStart' = 0
  /\ UNCHANGED <<text, hasher, remaining, finder, output, failed, lost>>

\* The segment is full and there is more: what is left of it goes out.
FlushFullSegment ==
  /\ stage = "taking"
  /\ segmentLength = SegmentSize
  /\ stage' = "WholeSegment"
  /\ UNCHANGED <<text, hasher, remaining, input, finder, output, failed, lost>>

\* As much of the chunk as the segment has room for.
TakeInput ==
  LET room == SegmentSize - segmentLength
      taken == IF room < remaining THEN room ELSE remaining
  IN  /\ stage = "taking"
      /\ segmentLength # SegmentSize
      /\ segmentLength' = segmentLength + taken
      /\ remaining' = remaining - taken
      /\ stage' = "KeepLookahead"
      /\ UNCHANGED <<text, hasher, segmentStart, blockStart, finder, output, failed, lost>>

(***************************************************************************)
(* write_blocks.                                                           *)
(***************************************************************************)

HasReadyBlock(flush) ==
  CASE flush = "KeepLookahead" -> Available > MaxBlock
    [] flush = "WholeSegment"  -> Available > 0
    [] flush = "FinalSegment"  -> Available > 0 \/ segmentLength = 0

\* Broken: the finder is told how much the segment holds so far.
BrokenExpectedLength(flush) == segmentLength

\* start_segment: how much the finder is told to expect.
ExpectedLength(flush) == IF flush = "FinalSegment" THEN segmentLength ELSE SegmentSize

\* find_next_block_length, for a block at this position of the stream with
\* this much of the segment behind it.
NextBlockLength(position, available, saved) ==
  IF available < MaxBlock THEN available
  ELSE IF saved < MinSavings THEN MaxBlock
  ELSE text[position].split

\* An empty block and a block that does not shrink cost a header.
WrittenLength(position, length) ==
  IF text[position].shrinks /\ length > 0 THEN 1 ELSE length + 1

StartingSavings == IF blockStart = 0 THEN 0 ELSE savings

IsLast(length) == stage = "FinalSegment" /\ blockStart + length = segmentLength

\* One turn of the loop: start_segment if the block is the segment's first,
\* then the block.
WriteBlock ==
  LET position == segmentStart + blockStart
      length == NextBlockLength(position, Available, StartingSavings)
      isLast == IsLast(length)
  IN  /\ stage \in Flushes
      /\ HasReadyBlock(stage)
      /\ expected' = IF blockStart = 0 THEN ExpectedLength(stage) ELSE expected
      /\ tableLength' = IF expected' > tableLength THEN expected' ELSE tableLength
      /\ blocks' = Append(blocks,
           [from |-> position, length |-> length, last |-> isLast,
            savings |-> StartingSavings, expected |-> expected', history |-> segmentStart])
      /\ savings' = StartingSavings + length - WrittenLength(position, length)
      /\ blockStart' = blockStart + length
      /\ stage' = IF isLast THEN "ending" ELSE stage
      /\ UNCHANGED <<text, hasher, remaining, segmentStart, segmentLength,
                     headerWritten, finished, checksum, failed, lost>>

\* prepare_tables_for_input finds no memory for larger tables: the call ends
\* there, and what was left of its chunk is gone.
RunOutOfMemory ==
  /\ stage \in Flushes
  /\ HasReadyBlock(stage)
  /\ blockStart = 0
  /\ ExpectedLength(stage) > tableLength
  /\ remaining' = 0
  /\ stage' = "ready"
  /\ failed' = TRUE
  /\ lost' = lost + remaining
  /\ UNCHANGED <<text, hasher, input, finder, output>>

\* Broken: write goes round again with an empty chunk.
BrokenEndKeepLookahead ==
  /\ stage = "KeepLookahead"
  /\ ~HasReadyBlock(stage)
  /\ stage' = "taking"
  /\ UNCHANGED <<text, hasher, remaining, input, finder, output, failed, lost>>

\* No block is ready: back to write.
EndKeepLookahead ==
  /\ stage = "KeepLookahead"
  /\ ~HasReadyBlock(stage)
  /\ stage' = IF remaining = 0 THEN "ready" ELSE "taking"
  /\ UNCHANGED <<text, hasher, remaining, input, finder, output, failed, lost>>

\* The segment is written out: it is emptied, and write goes on.
EndWholeSegment ==
  /\ stage = "WholeSegment"
  /\ ~HasReadyBlock(stage)
  /\ segmentStart' = segmentStart + segmentLength
  /\ segmentLength' = 0
  /\ blockStart' = 0
  /\ stage' = "taking"
  /\ UNCHANGED <<text, hasher, remaining, finder, output, failed, lost>>

(***************************************************************************)
(* finish.                                                                 *)
(***************************************************************************)
BeginFinish ==
  /\ stage = "ready" /\ ~finished
  /\ headerWritten' = TRUE
  /\ stage' = "FinalSegment"
  /\ IF blockStart = segmentLength
     THEN /\ segmentStart' = segmentStart + segmentLength
          /\ segmentLength' = 0
          /\ blockStart' = 0
     ELSE UNCHANGED input
  /\ UNCHANGED <<text, hasher, remaining, finder, finished, blocks, checksum, failed, lost>>

\* The loop of write_blocks is over, by its last block or for want of one.
EndFinish ==
  /\ stage = "ending" \/ (stage = "FinalSegment" /\ ~HasReadyBlock(stage))
  /\ checksum' = Digest(hasher)
  /\ finished' = TRUE
  /\ stage' = "ready"
  /\ UNCHANGED <<text, hasher, remaining, input, finder, headerWritten, blocks, failed, lost>>

\* A finished encoder answers every call with BadOptions.
RefuseLateCall == finished /\ stage = "ready" /\ UNCHANGED vars

Next ==
  \/ \E length \in 0..MaxInput : BeginWrite(length)
  \/ FlushFullSegment
  \/ TakeInput
  \/ WriteBlock
  \/ RunOutOfMemory
  \/ EndKeepLookahead
  \/ EndWholeSegment
  \/ BeginFinish
  \/ EndFinish
  \/ RefuseLateCall

\* A call runs until it returns; whether another is made is up to the caller.
InsideACall ==
  FlushFullSegment \/ TakeInput \/ WriteBlock \/ EndKeepLookahead \/ EndWholeSegment \/ EndFinish

Spec == Init /\ [][Next]_vars

FairSpec == Spec /\ WF_vars(InsideACall)
-----------------------------------------------------------------------------
Accepted == segmentStart + segmentLength
Emitted == segmentStart + blockStart

End(i) == IF i = 0 THEN 0 ELSE blocks[i].from + blocks[i].length

\* The blocks cover the input once, in order, up to Emitted: no byte is lost
\* or written twice at a segment's end, after an error or at the finish.  A
\* finished frame holds every byte taken, and its last block, and no block
\* before that, is marked last.
BlocksTileTheInput ==
  /\ \A i \in DOMAIN blocks : blocks[i].from = End(i - 1)
  /\ End(Len(blocks)) = Emitted
  /\ finished => Emitted = Accepted /\ headerWritten /\ blocks # <<>>
  /\ \A i \in DOMAIN blocks :
       blocks[i].last <=> stage # "FinalSegment" /\ i = Len(blocks) /\ (finished \/ stage = "ending")

\* The frame is the one a single write of the whole input gives: every block
\* is as long as it would be with all of its segment there, and the finder
\* was reset for the same length (by a call that failed it was not).
SegmentOf(position) == (position \div SegmentSize) * SegmentSize

SegmentRest(position) ==
  LET end == SegmentOf(position) + SegmentSize
  IN  (IF end < Accepted THEN end ELSE Accepted) - position

SavingsBefore(i) ==
  IF i = 1 \/ blocks[i].from = SegmentOf(blocks[i].from) THEN 0
  ELSE blocks[i - 1].savings + blocks[i - 1].length
         - WrittenLength(blocks[i - 1].from, blocks[i - 1].length)

ChunkingLeavesNoTrace ==
  finished =>
    \A i \in DOMAIN blocks :
      LET b == blocks[i]
          segment == SegmentRest(SegmentOf(b.from))
      IN  /\ b.history = SegmentOf(b.from)
          /\ b.length = NextBlockLength(b.from, SegmentRest(b.from), SavingsBefore(i))
          /\ ~failed => b.expected = IF segment > MaxBlock THEN SegmentSize ELSE segment

\* The checksum of a finished frame is the one that its reader computes in one
\* call over every byte that was handed to write, however the input was cut into
\* calls.  These are the bytes of the frame unless a call failed; what a failed
\* call dropped is missing from the frame and never from the checksum, so that a
\* reader refuses the frame rather than take it for the whole input.
ChecksumIsOfTheInput ==
  checksum # NoChecksum =>
    /\ checksum = HashBytes(Bytes(0, Accepted + lost))
    /\ lost > 0 => failed

\* Every call returns.
CallsReturn == []<>(stage = "ready")
=============================================================================
