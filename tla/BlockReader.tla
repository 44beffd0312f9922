---------------------------- MODULE BlockReader ----------------------------
(***************************************************************************)
(* decode_block_sequence and BlockWorkspace: blocks are decoded one at a   *)
(* time, or two compressed ones together, whose literals are decoded side  *)
(* by side before the sequences of either.                                 *)
(*                                                                         *)
(* The workspace outlives the frame and an error leaves it half updated;   *)
(* reset_history is what keeps one frame out of the next.                  *)
(***************************************************************************)
EXTENDS BlockFormat

VARIABLES
  huffmanTables,   \* BlockWorkspace::huffman_tables: two, with is_ready
  currentTable,    \* BlockWorkspace::current_huffman_table
  fieldTables,     \* BlockWorkspace::sequence_tables: table and ready flag
  fastTables,      \* BlockWorkspace::fast_sequence_tables: copy and dirty flag
  readerOffsets,   \* BlockWorkspace::repeat_offsets
  reading,         \* "waiting", "decoding", "done" or "error"
  decoded          \* history: the context each decoded block was read with

readerVars == <<huffmanTables, currentTable, fieldTables, fastTables, readerOffsets,
                reading, decoded>>

Slots == {0, 1}

ReaderInit ==
  /\ huffmanTables = [s \in Slots |-> [ready |-> FALSE, table |-> NoTable]]
  /\ currentTable = 0
  /\ fieldTables = [f \in Fields |-> [ready |-> FALSE, table |-> NoTable]]
  /\ fastTables = [f \in Fields |-> [dirty |-> TRUE, table |-> NoTable]]
  /\ readerOffsets = InitialOffsets
  /\ reading = "waiting"
  /\ decoded = <<>>

\* Broken: the trees of the last frame stay ready.
BrokenOpenFrame ==
  /\ reading = "waiting"
  /\ UNCHANGED <<huffmanTables, decoded>>
  /\ currentTable' = 0
  /\ fieldTables' = [f \in Fields |-> [fieldTables[f] EXCEPT !.ready = FALSE]]
  /\ fastTables' = [f \in Fields |-> [fastTables[f] EXCEPT !.dirty = TRUE]]
  /\ readerOffsets' = InitialOffsets
  /\ reading' = "decoding"

\* reset_history: the tables keep their bytes and lose their flags.
OpenFrame ==
  /\ reading = "waiting"
  /\ huffmanTables' = [s \in Slots |-> [huffmanTables[s] EXCEPT !.ready = FALSE]]
  /\ currentTable' = 0
  /\ fieldTables' = [f \in Fields |-> [fieldTables[f] EXCEPT !.ready = FALSE]]
  /\ fastTables' = [f \in Fields |-> [fastTables[f] EXCEPT !.dirty = TRUE]]
  /\ readerOffsets' = InitialOffsets
  /\ reading' = "decoding"
  /\ UNCHANGED decoded

(***************************************************************************)
(* Literals.                                                               *)
(***************************************************************************)
Coded(b) == b.literals \in {"Compressed", "Treeless"}

\* A treeless section needs the tree of an earlier section of the frame.
LiteralsReadable(huffmen, slot, b) == b.literals = "Treeless" => huffmen[slot].ready

ReadLiterals(huffmen, slot, b) ==
  IF b.literals = "Compressed"
  THEN [huffmen EXCEPT ![slot] = [ready |-> TRUE, table |-> b.id]]
  ELSE huffmen

\* The table the literals of b are decoded with.
HuffmanUsed(huffmen, slot, b) ==
  IF Coded(b) THEN ReadLiterals(huffmen, slot, b)[slot].table ELSE NoTable

(***************************************************************************)
(* Sequences.                                                              *)
(***************************************************************************)

\* read_sequence_tables stops at a repeated field that has no table: it gets
\* past the first n fields.
ReadsFields(held, b, n) ==
  b.sequences => \A f \in 1..n : b.modes[f] = "Repeat" => held[f].ready

FieldsReadable(held, b) == ReadsFields(held, b, FieldCount)

\* The first n fields of b are read.
ReadFields(held, b, n) ==
  [f \in Fields |->
    IF b.sequences /\ f <= n
    THEN [ready |-> b.modes[f] # "Repeat" \/ held[f].ready,
          table |-> TableOf(b.modes[f], held[f].table, b.id)]
    ELSE held[f]]

\* Broken: only what reset_history marked is copied.
BrokenBuildFast(fast, held, b) ==
  [f \in Fields |->
    IF b.sequences /\ held[f].ready /\ fast[f].dirty
    THEN [dirty |-> FALSE, table |-> held[f].table]
    ELSE fast[f]]

\* The fields not repeated are marked, then build_all copies what is marked.
BuildFast(fast, held, b) ==
  [f \in Fields |->
    LET dirty == fast[f].dirty \/ b.modes[f] # "Repeat"
    IN  IF ~b.sequences THEN fast[f]
        ELSE IF held[f].ready /\ dirty
        THEN [dirty |-> FALSE, table |-> held[f].table]
        ELSE [dirty |-> dirty, table |-> fast[f].table]]

\* The fast path reads literals in vectors, which RLE literals cannot offer.
PathAllowed(fastPath, b) == fastPath => b.literals # "Rle"

\* The tables a decoding path reads from.
FieldsUsed(fastPath, fast, held, b) ==
  [f \in Fields |-> IF ~b.sequences THEN NoTable
                    ELSE IF fastPath THEN fast[f].table ELSE held[f].table]

OffsetsAfter(before, b) == IF b.sequences THEN b.after ELSE before

(***************************************************************************)
(* Blocks.                                                                 *)
(***************************************************************************)
Position == Len(decoded) + 1

Finish(b) == reading' = IF b.last THEN "done" ELSE "decoding"

DecodePlainBlock(frame) ==
  LET b == frame[Position]
  IN  /\ reading = "decoding"
      /\ Position \in DOMAIN frame
      /\ b.type \in {"Raw", "Rle"}
      /\ decoded' = Append(decoded, FreshContext)
      /\ Finish(b)
      /\ UNCHANGED <<huffmanTables, currentTable, fieldTables, fastTables, readerOffsets>>

\* decode_compressed_block.
DecodeBlock(frame, fastPath) ==
  LET b == frame[Position]
      held == ReadFields(fieldTables, b, FieldCount)
      fast == BuildFast(fastTables, held, b)
  IN  /\ reading = "decoding"
      /\ Position \in DOMAIN frame
      /\ b.type = "Compressed"
      /\ LiteralsReadable(huffmanTables, currentTable, b)
      /\ FieldsReadable(fieldTables, b)
      /\ PathAllowed(fastPath, b)
      /\ huffmanTables' = ReadLiterals(huffmanTables, currentTable, b)
      /\ fieldTables' = held
      /\ fastTables' = fast
      /\ readerOffsets' = OffsetsAfter(readerOffsets, b)
      /\ decoded' = Append(decoded,
           [huffman |-> HuffmanUsed(huffmanTables, currentTable, b),
            tables  |-> FieldsUsed(fastPath, fast, held, b),
            offsets |-> readerOffsets])
      /\ Finish(b)
      /\ UNCHANGED currentTable

\* The second tree must not overwrite the first, which is still in use.
SecondSlot(c) == IF c.literals = "Compressed" THEN 1 - currentTable ELSE currentTable

\* Two compressed blocks whose literals come in four streams each.
Pairable(frame) ==
  /\ Position \in DOMAIN frame /\ Position + 1 \in DOMAIN frame
  /\ ~frame[Position].last
  /\ \A k \in {Position, Position + 1} :
       frame[k].type = "Compressed" /\ Coded(frame[k]) /\ frame[k].fourStreams

\* decode_compressed_block_pair, when the output has the room it asks for.
DecodePair(frame, firstFast, secondFast) ==
  LET b == frame[Position]
      c == frame[Position + 1]
      huffmen == ReadLiterals(huffmanTables, currentTable, b)
      held1 == ReadFields(fieldTables, b, FieldCount)
      fast1 == BuildFast(fastTables, held1, b)
      held2 == ReadFields(held1, c, FieldCount)
      fast2 == BuildFast(fast1, held2, c)
      middle == OffsetsAfter(readerOffsets, b)
  IN  /\ reading = "decoding"
      /\ Pairable(frame)
      /\ LiteralsReadable(huffmanTables, currentTable, b)
      /\ LiteralsReadable(huffmen, SecondSlot(c), c)
      /\ FieldsReadable(fieldTables, b)
      /\ FieldsReadable(held1, c)
      /\ huffmanTables' = ReadLiterals(huffmen, SecondSlot(c), c)
      /\ currentTable' = SecondSlot(c)
      /\ fieldTables' = held2
      /\ fastTables' = fast2
      /\ readerOffsets' = OffsetsAfter(middle, c)
      /\ decoded' = decoded \o
           <<[huffman |-> huffmanTables'[currentTable].table,
              tables  |-> FieldsUsed(firstFast, fast1, held1, b),
              offsets |-> readerOffsets],
             [huffman |-> huffmanTables'[SecondSlot(c)].table,
              tables  |-> FieldsUsed(secondFast, fast2, held2, c),
              offsets |-> middle]>>
      /\ Finish(c)

(***************************************************************************)
(* A decode that ends in an error.                                         *)
(***************************************************************************)

\* No table for what the block at Position, or the pair there, asks for.
BlockRefused(frame) ==
  LET b == frame[Position]
  IN  ~LiteralsReadable(huffmanTables, currentTable, b) \/ ~FieldsReadable(fieldTables, b)

PairRefused(frame) ==
  LET b == frame[Position]
      c == frame[Position + 1]
      huffmen == ReadLiterals(huffmanTables, currentTable, b)
  IN  \/ BlockRefused(frame)
      \/ ~LiteralsReadable(huffmen, SecondSlot(c), c)
      \/ ~FieldsReadable(ReadFields(fieldTables, b, FieldCount), c)

\* The block is given up after its literals and the tables of n fields: they
\* are replaced, and nothing marked the fast copies dirty.
FailBlock(frame, n) ==
  LET b == frame[Position]
  IN  /\ n > 0 => LiteralsReadable(huffmanTables, currentTable, b)
      /\ ReadsFields(fieldTables, b, n)
      /\ huffmanTables' = ReadLiterals(huffmanTables, currentTable, b)
      /\ fieldTables' = ReadFields(fieldTables, b, n)
      /\ reading' = "error"
      /\ UNCHANGED <<currentTable, fastTables, readerOffsets, decoded>>

\* The block is given up among its sequences.
FailSequences(frame) ==
  LET b == frame[Position]
      held == ReadFields(fieldTables, b, FieldCount)
  IN  /\ LiteralsReadable(huffmanTables, currentTable, b)
      /\ FieldsReadable(fieldTables, b)
      /\ huffmanTables' = ReadLiterals(huffmanTables, currentTable, b)
      /\ fieldTables' = held
      /\ fastTables' = BuildFast(fastTables, held, b)
      /\ readerOffsets' = OffsetsAfter(readerOffsets, b)
      /\ reading' = "error"
      /\ UNCHANGED <<currentTable, decoded>>

\* The pair is given up among its literals: no tree was read, or the first, or
\* both.
FailPairLiterals(frame) ==
  LET b == frame[Position]
      c == frame[Position + 1]
      huffmen == ReadLiterals(huffmanTables, currentTable, b)
  IN  /\ \/ UNCHANGED huffmanTables
         \/ /\ LiteralsReadable(huffmanTables, currentTable, b)
            /\ \/ huffmanTables' = huffmen
               \/ /\ LiteralsReadable(huffmen, SecondSlot(c), c)
                  /\ huffmanTables' = ReadLiterals(huffmen, SecondSlot(c), c)
      /\ reading' = "error"
      /\ UNCHANGED <<currentTable, fieldTables, fastTables, readerOffsets, decoded>>

\* The pair is given up after its literals, and n fields of its first block or
\* of its second.
FailPairSequences(frame, n) ==
  LET b == frame[Position]
      c == frame[Position + 1]
      huffmen == ReadLiterals(huffmanTables, currentTable, b)
      held == ReadFields(fieldTables, b, FieldCount)
  IN  /\ LiteralsReadable(huffmanTables, currentTable, b)
      /\ LiteralsReadable(huffmen, SecondSlot(c), c)
      /\ huffmanTables' = ReadLiterals(huffmen, SecondSlot(c), c)
      /\ currentTable' = SecondSlot(c)
      /\ \/ /\ ReadsFields(fieldTables, b, n)
            /\ fieldTables' = ReadFields(fieldTables, b, n)
            /\ UNCHANGED <<fastTables, readerOffsets>>
         \/ /\ FieldsReadable(fieldTables, b)
            /\ ReadsFields(held, c, n)
            /\ fieldTables' = ReadFields(held, c, n)
            /\ fastTables' = BuildFast(fastTables, held, b)
            /\ readerOffsets' = OffsetsAfter(readerOffsets, b)
      /\ reading' = "error"
      /\ UNCHANGED decoded

\* A decode that ends in an error: always where a table is missing, anywhere
\* in a frame that is damaged.
RejectBlock(frame, damaged, n) ==
  /\ reading = "decoding"
  /\ Position \in DOMAIN frame
  /\ frame[Position].type = "Compressed"
  /\ \/ (damaged \/ BlockRefused(frame)) /\ FailBlock(frame, n)
     \/ damaged /\ FailSequences(frame)

RejectPair(frame, damaged, n) ==
  /\ reading = "decoding"
  /\ Pairable(frame)
  /\ damaged \/ PairRefused(frame)
  /\ FailPairLiterals(frame) \/ FailPairSequences(frame, n)

\* The caller hands the same workspace to the next decode.
ReaderNewFrame ==
  /\ reading' = "waiting"
  /\ decoded' = <<>>
  /\ UNCHANGED <<huffmanTables, currentTable, fieldTables, fastTables, readerOffsets>>
=============================================================================
