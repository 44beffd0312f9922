---------------------------- MODULE BlockWriter ----------------------------
(***************************************************************************)
(* write_block and what it calls: one input block becomes a raw block, an  *)
(* RLE block, one compressed block, or several compressed blocks (a        *)
(* split).  The tables and the repeat offsets of EncodeWorkspace change as *)
(* the body is written, before anyone knows whether the body is worth      *)
(* keeping, so every path that gives up must put them back.                *)
(*                                                                         *)
(* The definitions named Broken... are the bugs the runs must notice;      *)
(* nothing uses them.                                                      *)
(***************************************************************************)
EXTENDS BlockFormat

CONSTANTS
  Level,       \* the compression level
  MaxBlocks,   \* bound: blocks in each of several frames
  LoneBlocks,  \* bound: blocks in a frame that is alone
  MaxPieces    \* bound: pieces of one split block

ASSUME WriterAssumption ==
  Level \in {1, 9, 12, 22} /\ MaxBlocks \in Nat /\ LoneBlocks \in Nat /\ MaxPieces \in Nat

VARIABLES
  frame,          \* the blocks in the output buffer, in order
  complete,       \* the block marked last is in it
  huffman,        \* EncodeWorkspace::huffman_table
  sequenceTables, \* EncodeWorkspace::sequence_tables: a mode and a table each
  offsets,        \* EncodeWorkspace::repeat_offsets
  stage,          \* where write_block stands
  block,          \* the locals of write_block: what it saved, what it was told
  bodies,         \* history: compressed bodies begun, names their tables
  room            \* bound: blocks in this frame

writerVars == <<frame, complete, huffman, sequenceTables, offsets, stage, block, bodies, room>>

SplitsBlocks == Level >= 6
QuickChoice == Level # 22    \* every strategy but Ultra2

NewSequenceTables == [f \in Fields |-> [mode |-> "Predefined", table |-> NoTable]]

NoBlock ==
  [saved |-> [huffman |-> NoTable, sequenceTables |-> NewSequenceTables, offsets |-> InitialOffsets],
   reuse |-> FALSE, last |-> FALSE, found |-> 0, written |-> 0]

WriterInit ==
  /\ frame = <<>>
  /\ complete = FALSE
  /\ huffman = NoTable
  /\ sequenceTables = NewSequenceTables
  /\ offsets = InitialOffsets
  /\ stage = "idle"
  /\ block = NoBlock
  /\ bodies = 0
  /\ room \in {MaxBlocks, LoneBlocks}

\* A block whose payload is copied: it uses and changes no context.
PlainBlock(type, last) ==
  [type |-> type, last |-> last, literals |-> "Raw", fourStreams |-> FALSE,
   sequences |-> FALSE, modes |-> [f \in Fields |-> "Predefined"],
   id |-> 0, after |-> InitialOffsets, uses |-> FreshContext]

\* Broken: the tree outlives the frame.
BrokenStartingHuffman(atStart) == huffman

\* Tables at the start of the block: dropped at the start of a segment.
StartingHuffman(atStart) == IF atStart THEN NoTable ELSE huffman
StartingTables(atStart) == IF atStart THEN NewSequenceTables ELSE sequenceTables

\* block_start is 0 for the first block, and again for every segment of a stream.
CanBegin(atStart) == stage = "idle" /\ ~complete /\ (frame = <<>> => atStart)

\* The bound: the block that fills the frame has to be the last one.
Fits(count, last) == Len(frame) + count < room + (IF last THEN 1 ELSE 0)

\* An empty block is written raw and a block of one repeated byte as RLE,
\* without asking the match finder.
WritePlainBlock(type, atStart, last) ==
  /\ CanBegin(atStart)
  /\ Fits(1, last)
  /\ frame' = Append(frame, PlainBlock(type, last))
  /\ complete' = last
  /\ huffman' = StartingHuffman(atStart)
  /\ sequenceTables' = StartingTables(atStart)
  /\ UNCHANGED <<offsets, stage, block, bodies, room>>

\* The context is saved and the match finder runs: it finds "found" groups of
\* sequences (one for each piece, if the block is to be split; at most one if
\* not) and moves the offsets.
BeginBlock(atStart, last, found, split) ==
  /\ CanBegin(atStart)
  /\ Fits(IF split THEN found ELSE 1, last)
  /\ IF split THEN SplitsBlocks /\ found > 1 ELSE found <= 1
  /\ huffman' = StartingHuffman(atStart)
  /\ sequenceTables' = StartingTables(atStart)
  /\ offsets' = offsets + found
  /\ block' = [saved   |-> [huffman        |-> StartingHuffman(atStart),
                            sequenceTables |-> StartingTables(atStart),
                            offsets        |-> offsets],
               reuse   |-> ~atStart,
               last    |-> last,
               found   |-> found,
               written |-> Len(frame)]
  /\ stage' = IF split THEN "pieces" ELSE "single"
  /\ UNCHANGED <<frame, complete, bodies, room>>

(***************************************************************************)
(* One compressed body.                                                    *)
(***************************************************************************)

\* write_compressed_literals keeps the old tree only if it may and if every
\* literal has a code in it.
LiteralsAllowed(literals, reuse) ==
  literals = "Treeless" => reuse /\ huffman # NoTable

\* pick_table_mode: a table is repeated only by Ultra2, and only after a mode
\* that left a custom table behind.
ModesAllowed(modes) ==
  \A f \in Fields :
    modes[f] = "Repeat" => ~QuickChoice /\ sequenceTables[f].mode \in {"Compressed", "Repeat"}

HuffmanAfter(literals) == IF literals = "Compressed" THEN bodies + 1 ELSE huffman

\* The first n fields are done.
TablesAfter(modes, n) ==
  [f \in Fields |->
    IF f <= n
    THEN [mode |-> modes[f], table |-> TableOf(modes[f], sequenceTables[f].table, bodies + 1)]
    ELSE sequenceTables[f]]

CompressedBlock(literals, fourStreams, sequences, modes, last, before, after) ==
  [type |-> "Compressed", last |-> last,
   literals |-> literals, fourStreams |-> fourStreams,
   sequences |-> sequences, modes |-> modes,
   id |-> bodies + 1, after |-> after,
   uses |-> [huffman |-> IF literals \in {"Compressed", "Treeless"}
                         THEN HuffmanAfter(literals) ELSE NoTable,
             tables  |-> IF sequences
                         THEN [f \in Fields |-> TablesAfter(modes, FieldCount)[f].table]
                         ELSE [f \in Fields |-> NoTable],
             offsets |-> before]]

\* The body is written and smaller than what it stands for.  Only coded
\* literals come in four streams; without sequences no mode is written, and
\* the header reads as predefined.
WriteBody(literals, fourStreams, sequences, modes, reuse, last, before, after) ==
  /\ fourStreams => literals \in {"Compressed", "Treeless"}
  /\ ~sequences => modes = [f \in Fields |-> "Predefined"]
  /\ LiteralsAllowed(literals, reuse)
  /\ ModesAllowed(modes)
  /\ huffman' = HuffmanAfter(literals)
  /\ sequenceTables' = IF sequences THEN TablesAfter(modes, FieldCount) ELSE sequenceTables
  /\ bodies' = bodies + 1
  /\ frame' = Append(frame, CompressedBlock(literals, fourStreams, sequences, modes,
                                            last, before, after))

\* The body failed, or is too large: the literals are written, and the
\* tables of the first n fields are replaced.
FailBody(literals, modes, reuse, n) ==
  /\ LiteralsAllowed(literals, reuse)
  /\ ModesAllowed(modes)
  /\ huffman' = HuffmanAfter(literals)
  /\ sequenceTables' = TablesAfter(modes, n)
  /\ bodies' = bodies + 1

(***************************************************************************)
(* write_block_as_split_pieces.                                            *)
(***************************************************************************)
PiecesDone == Len(frame) - block.written
PieceReuse == IF PiecesDone = 0 THEN block.reuse ELSE TRUE

\* Piece number PiecesDone + 1 takes the next group of sequences.
WritePiece(literals, fourStreams, modes) ==
  LET isLastPiece == PiecesDone + 1 = block.found
      before == block.saved.offsets + PiecesDone
  IN  /\ stage = "pieces"
      /\ WriteBody(literals, fourStreams, TRUE, modes, PieceReuse,
                   isLastPiece /\ block.last, before, before + 1)
      /\ stage' = IF isLastPiece THEN "idle" ELSE "pieces"
      /\ complete' = (isLastPiece /\ block.last)
      /\ block' = IF isLastPiece THEN NoBlock ELSE block
      /\ UNCHANGED <<offsets, room>>

FailPiece(literals, modes, n) ==
  /\ stage = "pieces"
  /\ FailBody(literals, modes, PieceReuse, n)
  /\ stage' = "pieces_failed"
  /\ UNCHANGED <<frame, complete, offsets, block, room>>

\* Ok(None): the tables go back, the output is written over; the offsets stay
\* where find_sequences left them, for the single block written next.
AbandonPieces ==
  /\ stage = "pieces_failed"
  /\ huffman' = block.saved.huffman
  /\ sequenceTables' = block.saved.sequenceTables
  /\ frame' = SubSeq(frame, 1, block.written)
  /\ stage' = "single"
  /\ UNCHANGED <<complete, offsets, block, bodies, room>>

(***************************************************************************)
(* commit_single_block.                                                    *)
(***************************************************************************)
WriteSingle(literals, fourStreams, modes) ==
  /\ stage = "single"
  /\ WriteBody(literals, fourStreams, block.found > 0, modes, block.reuse,
               block.last, block.saved.offsets, offsets)
  /\ stage' = "idle"
  /\ complete' = block.last
  /\ block' = NoBlock
  /\ UNCHANGED <<offsets, room>>

FailSingle(literals, modes, n) ==
  /\ stage = "single"
  /\ n > 0 => block.found > 0
  /\ FailBody(literals, modes, block.reuse, n)
  /\ stage' = "single_failed"
  /\ UNCHANGED <<frame, complete, offsets, block, room>>

\* Broken: the offsets stay where find_sequences left them.
BrokenWriteRawInstead ==
  /\ stage = "single_failed"
  /\ huffman' = block.saved.huffman
  /\ sequenceTables' = block.saved.sequenceTables
  /\ frame' = Append(frame, PlainBlock("Raw", block.last))
  /\ stage' = "idle"
  /\ complete' = block.last
  /\ block' = NoBlock
  /\ UNCHANGED <<offsets, bodies, room>>

\* The block is copied, and the saved context is put back.
WriteRawInstead ==
  /\ stage = "single_failed"
  /\ huffman' = block.saved.huffman
  /\ sequenceTables' = block.saved.sequenceTables
  /\ offsets' = block.saved.offsets
  /\ frame' = Append(frame, PlainBlock("Raw", block.last))
  /\ stage' = "idle"
  /\ complete' = block.last
  /\ block' = NoBlock
  /\ UNCHANGED <<bodies, room>>

\* A block header or body that does not fit the caller's buffer ends the frame:
\* compress() returns OutputTooSmall and the workspace stays as it is.
RunOutOfOutput(literals, modes, n) ==
  /\ stage \in {"pieces", "single"}
  /\ FailBody(literals, modes, IF stage = "pieces" THEN PieceReuse ELSE block.reuse, n)
  /\ stage' = "aborted"
  /\ UNCHANGED <<frame, complete, offsets, block, room>>

\* The same before the block has a body, or when it is copied instead.
RunOutBetweenBlocks ==
  /\ stage = "idle" /\ ~complete
  /\ stage' = "aborted"
  /\ UNCHANGED <<frame, complete, huffman, sequenceTables, offsets, block, bodies, room>>

RunOutWritingRaw ==
  /\ stage = "single_failed"
  /\ huffman' = block.saved.huffman
  /\ sequenceTables' = block.saved.sequenceTables
  /\ offsets' = block.saved.offsets
  /\ stage' = "aborted"
  /\ UNCHANGED <<frame, complete, block, bodies, room>>

\* compress() on the same workspace: the offsets start again, the tables only
\* when write_block sees block_start = 0.
WriterNewFrame ==
  /\ frame' = <<>>
  /\ complete' = FALSE
  /\ offsets' = InitialOffsets
  /\ stage' = "idle"
  /\ block' = NoBlock
  /\ UNCHANGED <<huffman, sequenceTables, bodies, room>>

WriterNext ==
  \/ \E type \in {"Raw", "Rle"}, atStart, last \in BOOLEAN : WritePlainBlock(type, atStart, last)
  \/ \E atStart, last, split \in BOOLEAN, found \in 0..MaxPieces :
       BeginBlock(atStart, last, found, split)
  \/ \E literals \in LiteralsTypes, modes \in [Fields -> TableModes] :
       \/ \E fourStreams \in BOOLEAN :
            \/ WritePiece(literals, fourStreams, modes)
            \/ WriteSingle(literals, fourStreams, modes)
       \/ \E n \in 0..FieldCount :
            \/ FailPiece(literals, modes, n)
            \/ FailSingle(literals, modes, n)
            \/ RunOutOfOutput(literals, modes, n)
  \/ AbandonPieces
  \/ WriteRawInstead
  \/ RunOutBetweenBlocks
  \/ RunOutWritingRaw
=============================================================================
