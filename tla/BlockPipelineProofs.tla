------------------------ MODULE BlockPipelineProofs ------------------------
(***************************************************************************)
(* Proofs about BlockPipeline, for any number of fields, level, and bounds *)
(* of the number of frames, blocks, pieces and damages: every block is     *)
(* decoded with what it was written for, nothing of an earlier frame is in *)
(* reach, and the pipeline implements FrameTransfer.                       *)
(*                                                                         *)
(* What writer and reader have in common at a block is what the blocks     *)
(* before it say: the tree told last, for each field the table told last,  *)
(* and the offsets behind the last sequences.                              *)
(***************************************************************************)
EXTENDS BlockPipeline, SequenceTheorems, WellFoundedInduction, TLAPS

LastIn(S) == CHOOSE j \in S : \A k \in S : k <= j

\* Which of the first n blocks of fr tell a tree, a table for field f, offsets.
TreesTold(fr, n) == {j \in 1..n : fr[j].literals = "Compressed"}
TablesTold(fr, n, f) == {j \in 1..n : fr[j].sequences /\ fr[j].modes[f] # "Repeat"}
OffsetsTold(fr, n) == {j \in 1..n : fr[j].sequences}

HeldTree(fr, n) ==
  IF TreesTold(fr, n) = {} THEN NoTable ELSE fr[LastIn(TreesTold(fr, n))].id

HeldTable(fr, n, f) ==
  IF TablesTold(fr, n, f) = {} THEN NoTable
  ELSE LET told == fr[LastIn(TablesTold(fr, n, f))] IN TableOf(told.modes[f], NoTable, told.id)

HeldOffsets(fr, n) ==
  IF OffsetsTold(fr, n) = {} THEN InitialOffsets ELSE fr[LastIn(OffsetsTold(fr, n))].after

(***************************************************************************)
(* The inductive invariant.                                                *)
(***************************************************************************)
FieldStates == [mode : TableModes, table : Tables]

SavedContexts == [huffman : Tables, sequenceTables : [Fields -> FieldStates], offsets : Nat]

WriterTypeOK ==
  /\ frame \in Seq(Blocks) /\ complete \in BOOLEAN
  /\ huffman \in Tables /\ sequenceTables \in [Fields -> FieldStates] /\ offsets \in Nat
  /\ stage \in {"idle", "single", "single_failed", "pieces", "pieces_failed", "aborted"}
  /\ block \in [saved : SavedContexts, reuse : BOOLEAN, last : BOOLEAN, found : Nat, written : Nat]
  /\ bodies \in Nat

ReaderTypeOK ==
  /\ huffmanTables \in [Slots -> [ready : BOOLEAN, table : Tables]]
  /\ currentTable \in Slots
  /\ fieldTables \in [Fields -> [ready : BOOLEAN, table : Tables]]
  /\ fastTables \in [Fields -> [dirty : BOOLEAN, table : Tables]]
  /\ readerOffsets \in Nat
  /\ reading \in {"waiting", "decoding", "done", "error"}
  /\ decoded \in Seq(Contexts)

\* Block i of fr can be read by who has read the blocks before, and was
\* written for what that reader holds.
BlockIsSound(fr, i) ==
  LET b == fr[i]
  IN  IF b.type = "Compressed"
      THEN /\ Coded(b) => HeldTree(fr, i) # NoTable
           /\ b.sequences => \A f \in Fields : HeldTable(fr, i, f) # NoTable
           /\ b.uses = [huffman |-> IF Coded(b) THEN HeldTree(fr, i) ELSE NoTable,
                        tables  |-> [f \in Fields |-> IF b.sequences THEN HeldTable(fr, i, f)
                                                                     ELSE NoTable],
                        offsets |-> HeldOffsets(fr, i - 1)]
      ELSE b.literals = "Raw" /\ ~b.sequences /\ b.uses = FreshContext

FrameIsSound == ~damaged => \A i \in 1..Len(frame) : BlockIsSound(frame, i)

BodiesAreNew == \A i \in 1..Len(frame) : frame[i].type = "Compressed" => frame[i].id > base

\* Only the last block of a complete frame is marked.
LastIsLast ==
  /\ complete => stage = "idle" /\ frame # <<>> /\ frame[Len(frame)].last
  /\ \A i \in 1..Len(frame) : frame[i].last => complete /\ i = Len(frame)

\* The writer may repeat no more than a reader of the first n blocks holds.
MayRepeat(tree, tables, fr, n) ==
  /\ tree # NoTable => tree = HeldTree(fr, n)
  /\ \A f \in Fields : tables[f].mode \in {"Compressed", "Repeat"} =>
       tables[f].table = HeldTable(fr, n, f) /\ tables[f].table # NoTable

BetweenBlocks ==
  stage = "idle" =>
    /\ block = NoBlock
    /\ ~complete => offsets = HeldOffsets(frame, Len(frame))
    /\ ~complete /\ frame # <<>> => MayRepeat(huffman, sequenceTables, frame, Len(frame))

InsideABlock ==
  stage \in {"pieces", "pieces_failed", "single", "single_failed"} =>
    /\ block.written <= Len(frame)
    /\ MayRepeat(block.saved.huffman, block.saved.sequenceTables, frame, block.written)
    /\ block.saved.offsets = HeldOffsets(frame, block.written)
    /\ offsets = block.saved.offsets + block.found

SingleBlock ==
  /\ stage \in {"single", "single_failed"} => Len(frame) = block.written
  /\ stage = "single" => huffman = block.saved.huffman /\ sequenceTables = block.saved.sequenceTables

SplitBlock ==
  /\ stage \in {"pieces", "pieces_failed"} => block.found > 1 /\ PiecesDone < block.found
  /\ stage = "pieces" =>
       /\ MayRepeat(huffman, sequenceTables, frame, Len(frame))
       /\ HeldOffsets(frame, Len(frame)) = block.saved.offsets + PiecesDone

\* How far the reader is, and what it may come to.
ReaderPlace ==
  /\ reading = "waiting" => decoded = <<>>
  /\ reading # "waiting" => complete
  /\ reading = "decoding" => Len(decoded) < Len(frame)
  /\ reading = "done" => Len(decoded) = Len(frame)
  /\ reading = "error" => damaged
  /\ damaged => complete

FastIsCurrent(fields, fast) ==
  \A f \in Fields : fields[f].ready => ~fast[f].dirty /\ fast[f].table = fields[f].table

\* The reader holds what the first n blocks say.
Holds(huffmen, slot, fields, before, fr, n) ==
  /\ huffmen[slot].ready <=> HeldTree(fr, n) # NoTable
  /\ huffmen[slot].ready => huffmen[slot].table = HeldTree(fr, n)
  /\ \A f \in Fields :
       /\ fields[f].ready <=> HeldTable(fr, n, f) # NoTable
       /\ fields[f].ready => fields[f].table = HeldTable(fr, n, f)
  /\ before = HeldOffsets(fr, n)

ReaderHolds ==
  reading \in {"decoding", "done"} /\ ~damaged =>
    Holds(huffmanTables, currentTable, fieldTables, readerOffsets, frame, Len(decoded))

WriterInv ==
  /\ WriterTypeOK
  /\ base \in Nat /\ base <= bodies
  /\ FrameIsSound /\ BodiesAreNew /\ LastIsLast
  /\ BetweenBlocks /\ InsideABlock /\ SingleBlock /\ SplitBlock

ReaderInv ==
  /\ ReaderTypeOK
  /\ damaged \in BOOLEAN
  /\ ReaderPlace /\ ReaderHolds
  /\ FastCopiesAreCurrent /\ TablesOfThisFrame /\ DecodesAsWritten

IInv == WriterInv /\ ReaderInv

-----------------------------------------------------------------------------
(***************************************************************************)
(* What the blocks of a frame say.                                         *)
(***************************************************************************)

LEMMA LeastNatural ==
  ASSUME NEW D, D \subseteq Nat, D # {}
  PROVE  \E d \in D : \A e \in D : d <= e
<1> DEFINE R == OpToRel(<, Nat)
<1>1. R = {ss \in Nat \X Nat : ss[1] < ss[2]}
  BY DEF OpToRel
<1>2. IsWellFoundedOn(R, Nat)
  BY NatLessThanWellFounded
<1> HIDE DEF R
<1>3. PICK d \in D : \A e \in D : ~(<<e, d>> \in R)
  BY <1>2, WFMin
<1>4. \A e, c \in Nat : e < c => <<e, c>> \in R
  BY <1>1
<1>5. ASSUME NEW e \in D PROVE d <= e
  <2>1. d \in Nat /\ e \in Nat
    OBVIOUS
  <2>2. ~(e < d)
    BY <1>3, <1>4, <2>1, Zenon
  <2> QED
    BY <2>1, <2>2
<1> QED
  BY <1>5

LEMMA LastIsMember ==
  ASSUME NEW n \in Nat, NEW S, S \subseteq 1..n, S # {}
  PROVE  LastIn(S) \in S
<1> DEFINE D == {n - j : j \in S}
<1>1. D # {} /\ D \subseteq Nat
  <2>1. \A j \in S : n - j \in Nat
    OBVIOUS
  <2> QED
    BY <2>1
<1>2. PICK d \in D : \A e \in D : d <= e
  <2> HIDE DEF D
  <2> QED
    BY <1>1, LeastNatural
<1>3. PICK j \in S : d = n - j
  OBVIOUS
<1>4. ASSUME NEW k \in S PROVE k <= j
  <2>1. n - k \in D
    OBVIOUS
  <2>2. n - j <= n - k
    BY <1>2, <1>3, <2>1
  <2>3. k \in 1..n /\ j \in 1..n
    OBVIOUS
  <2> QED
    BY <2>2, <2>3
<1> QED
  BY <1>4 DEF LastIn

LEMMA LastIsNext ==
  ASSUME NEW n \in Nat, NEW S, S \subseteq 1..n+1, n + 1 \in S
  PROVE  LastIn(S) = n + 1
<1>1. \A k \in S : k <= n + 1
  OBVIOUS
<1>2. \A j \in S : (\A k \in S : k <= j) => j = n + 1
  <2> SUFFICES ASSUME NEW j \in S, \A k \in S : k <= j PROVE j = n + 1
    OBVIOUS
  <2>1. j \in 1..n+1 /\ n + 1 <= j
    OBVIOUS
  <2> QED
    BY <2>1
<1> QED
  BY <1>1, <1>2 DEF LastIn

\* Before the first block a reader holds nothing.
LEMMA HeldAtStart ==
  ASSUME NEW fr
  PROVE  /\ HeldTree(fr, 0) = NoTable
         /\ \A f \in Fields : HeldTable(fr, 0, f) = NoTable
         /\ HeldOffsets(fr, 0) = InitialOffsets
BY DEF HeldTree, HeldTable, HeldOffsets, TreesTold, TablesTold, OffsetsTold

\* What one more block changes.
LEMMA HeldAfterBlock ==
  ASSUME NEW fr, NEW n \in Nat
  PROVE  /\ HeldTree(fr, n + 1) = IF fr[n + 1].literals = "Compressed" THEN fr[n + 1].id
                                  ELSE HeldTree(fr, n)
         /\ \A f \in Fields :
              HeldTable(fr, n + 1, f) =
                IF fr[n + 1].sequences /\ fr[n + 1].modes[f] # "Repeat"
                THEN TableOf(fr[n + 1].modes[f], NoTable, fr[n + 1].id)
                ELSE HeldTable(fr, n, f)
         /\ HeldOffsets(fr, n + 1) = IF fr[n + 1].sequences THEN fr[n + 1].after
                                     ELSE HeldOffsets(fr, n)
<1>0. 1..n+1 = (1..n) \cup {n+1} /\ n + 1 \notin 1..n
  OBVIOUS
<1>1. HeldTree(fr, n + 1) = IF fr[n + 1].literals = "Compressed" THEN fr[n + 1].id
                            ELSE HeldTree(fr, n)
  <2>1. CASE fr[n + 1].literals = "Compressed"
    <3>1. n + 1 \in TreesTold(fr, n + 1) /\ TreesTold(fr, n + 1) \subseteq 1..n+1
      BY <1>0, <2>1 DEF TreesTold
    <3> QED
      BY <2>1, <3>1, LastIsNext DEF HeldTree
  <2>2. CASE fr[n + 1].literals # "Compressed"
    <3>1. TreesTold(fr, n + 1) = TreesTold(fr, n)
      BY <1>0, <2>2 DEF TreesTold
    <3> QED
      BY <2>2, <3>1 DEF HeldTree
  <2> QED
    BY <2>1, <2>2
<1>2. ASSUME NEW f \in Fields
      PROVE  HeldTable(fr, n + 1, f) =
               IF fr[n + 1].sequences /\ fr[n + 1].modes[f] # "Repeat"
               THEN TableOf(fr[n + 1].modes[f], NoTable, fr[n + 1].id)
               ELSE HeldTable(fr, n, f)
  <2>1. CASE fr[n + 1].sequences /\ fr[n + 1].modes[f] # "Repeat"
    <3>1. n + 1 \in TablesTold(fr, n + 1, f) /\ TablesTold(fr, n + 1, f) \subseteq 1..n+1
      BY <1>0, <2>1 DEF TablesTold
    <3> QED
      BY <2>1, <3>1, LastIsNext DEF HeldTable
  <2>2. CASE ~(fr[n + 1].sequences /\ fr[n + 1].modes[f] # "Repeat")
    <3>1. TablesTold(fr, n + 1, f) = TablesTold(fr, n, f)
      BY <1>0, <2>2 DEF TablesTold
    <3> QED
      BY <2>2, <3>1 DEF HeldTable
  <2> QED
    BY <2>1, <2>2
<1>3. HeldOffsets(fr, n + 1) = IF fr[n + 1].sequences THEN fr[n + 1].after
                               ELSE HeldOffsets(fr, n)
  <2>1. CASE fr[n + 1].sequences
    <3>1. n + 1 \in OffsetsTold(fr, n + 1) /\ OffsetsTold(fr, n + 1) \subseteq 1..n+1
      BY <1>0, <2>1 DEF OffsetsTold
    <3> QED
      BY <2>1, <3>1, LastIsNext DEF HeldOffsets
  <2>2. CASE ~fr[n + 1].sequences
    <3>1. OffsetsTold(fr, n + 1) = OffsetsTold(fr, n)
      BY <1>0, <2>2 DEF OffsetsTold
    <3> QED
      BY <2>2, <3>1 DEF HeldOffsets
  <2> QED
    BY <2>1, <2>2
<1> QED
  BY <1>1, <1>2, <1>3

\* Frames that begin alike say the same there.
LEMMA HeldInPrefix ==
  ASSUME NEW fr, NEW fs, NEW n \in Nat, \A j \in 1..n : fr[j] = fs[j]
  PROVE  /\ HeldTree(fr, n) = HeldTree(fs, n)
         /\ \A f \in Fields : HeldTable(fr, n, f) = HeldTable(fs, n, f)
         /\ HeldOffsets(fr, n) = HeldOffsets(fs, n)
<1>1. HeldTree(fr, n) = HeldTree(fs, n)
  <2>1. TreesTold(fr, n) = TreesTold(fs, n) /\ TreesTold(fr, n) \subseteq 1..n
    BY DEF TreesTold
  <2>2. CASE TreesTold(fr, n) = {}
    BY <2>1, <2>2 DEF HeldTree
  <2>3. CASE TreesTold(fr, n) # {}
    <3>1. LastIn(TreesTold(fr, n)) \in 1..n
      BY <2>1, <2>3, LastIsMember
    <3> QED
      BY <2>1, <2>3, <3>1 DEF HeldTree
  <2> QED
    BY <2>2, <2>3
<1>2. ASSUME NEW f \in Fields
      PROVE  HeldTable(fr, n, f) = HeldTable(fs, n, f)
  <2>1. TablesTold(fr, n, f) = TablesTold(fs, n, f) /\ TablesTold(fr, n, f) \subseteq 1..n
    BY DEF TablesTold
  <2>2. CASE TablesTold(fr, n, f) = {}
    BY <2>1, <2>2 DEF HeldTable
  <2>3. CASE TablesTold(fr, n, f) # {}
    <3>1. LastIn(TablesTold(fr, n, f)) \in 1..n
      BY <2>1, <2>3, LastIsMember
    <3> QED
      BY <2>1, <2>3, <3>1 DEF HeldTable
  <2> QED
    BY <2>2, <2>3
<1>3. HeldOffsets(fr, n) = HeldOffsets(fs, n)
  <2>1. OffsetsTold(fr, n) = OffsetsTold(fs, n) /\ OffsetsTold(fr, n) \subseteq 1..n
    BY DEF OffsetsTold
  <2>2. CASE OffsetsTold(fr, n) = {}
    BY <2>1, <2>2 DEF HeldOffsets
  <2>3. CASE OffsetsTold(fr, n) # {}
    <3>1. LastIn(OffsetsTold(fr, n)) \in 1..n
      BY <2>1, <2>3, LastIsMember
    <3> QED
      BY <2>1, <2>3, <3>1 DEF HeldOffsets
  <2> QED
    BY <2>2, <2>3
<1> QED
  BY <1>1, <1>2, <1>3

LEMMA SoundInPrefix ==
  ASSUME NEW fr, NEW fs, NEW i \in Nat \ {0}, \A j \in 1..i : fr[j] = fs[j]
  PROVE  BlockIsSound(fr, i) <=> BlockIsSound(fs, i)
<1>1. i - 1 \in Nat /\ (\A j \in 1..i-1 : fr[j] = fs[j]) /\ fr[i] = fs[i]
  OBVIOUS
<1>2. HeldOffsets(fr, i - 1) = HeldOffsets(fs, i - 1)
  BY <1>1, HeldInPrefix
<1>3. HeldTree(fr, i) = HeldTree(fs, i) /\ \A f \in Fields : HeldTable(fr, i, f) = HeldTable(fs, i, f)
  BY HeldInPrefix
<1>4. [f \in Fields |-> IF fr[i].sequences THEN HeldTable(fr, i, f) ELSE NoTable]
      = [f \in Fields |-> IF fs[i].sequences THEN HeldTable(fs, i, f) ELSE NoTable]
  BY <1>1, <1>3
<1> QED
  BY <1>1, <1>2, <1>3, <1>4 DEF BlockIsSound

LEMMA MayRepeatInPrefix ==
  ASSUME NEW fr, NEW fs, NEW n \in Nat, \A j \in 1..n : fr[j] = fs[j], NEW tree, NEW tables,
         MayRepeat(tree, tables, fr, n)
  PROVE  MayRepeat(tree, tables, fs, n)
<1>1. HeldTree(fr, n) = HeldTree(fs, n) /\ \A f \in Fields : HeldTable(fr, n, f) = HeldTable(fs, n, f)
  BY HeldInPrefix
<1> QED
  BY <1>1 DEF MayRepeat

-----------------------------------------------------------------------------
(***************************************************************************)
(* The writer.                                                             *)
(***************************************************************************)

\* A frame that grew by one block, b, marked as it says.
Grows(fr, fs, b) ==
  /\ fs \in Seq(Blocks)
  /\ Len(fs) = Len(fr) + 1
  /\ \A j \in 1..Len(fr) : fs[j] = fr[j]
  /\ fs[Len(fr) + 1] = b

LEMMA AppendGrows ==
  ASSUME NEW fr \in Seq(Blocks), NEW b \in Blocks
  PROVE  Grows(fr, Append(fr, b), b)
<1> DEFINE B == Blocks
<1>1. fr \in Seq(B) /\ b \in B
  OBVIOUS
<1> HIDE DEF B
<1>2. /\ Append(fr, b) \in Seq(B)
      /\ Len(Append(fr, b)) = Len(fr) + 1
      /\ \A j \in 1..Len(fr) : Append(fr, b)[j] = fr[j]
      /\ Append(fr, b)[Len(fr) + 1] = b
  BY <1>1, AppendProperties
<1> QED
  BY <1>2 DEF Grows, B

LEMMA PlainBlockType ==
  ASSUME NEW type \in {"Raw", "Rle"}, NEW last \in BOOLEAN
  PROVE  /\ PlainBlock(type, last) \in Blocks
         /\ PlainBlock(type, last).last = last
         /\ PlainBlock(type, last).type = type
         /\ PlainBlock(type, last).uses = FreshContext
         /\ PlainBlock(type, last).literals = "Raw"
         /\ PlainBlock(type, last).sequences = FALSE
BY DEF PlainBlock, Blocks, FreshContext, Contexts, Tables, TableModes, LiteralsTypes, InitialOffsets

\* A copied block is sound and leaves everything as it was.
LEMMA PlainBlockIsSound ==
  ASSUME NEW fr \in Seq(Blocks), NEW fs, NEW type \in {"Raw", "Rle"}, NEW last \in BOOLEAN,
         Grows(fr, fs, PlainBlock(type, last))
  PROVE  /\ BlockIsSound(fs, Len(fr) + 1)
         /\ HeldOffsets(fs, Len(fs)) = HeldOffsets(fr, Len(fr))
         /\ \A tree, tables : MayRepeat(tree, tables, fr, Len(fr)) => MayRepeat(tree, tables, fs, Len(fs))
<1> DEFINE n == Len(fr)
<1>1. n \in Nat /\ Len(fs) = n + 1
  BY DEF Grows
<1>2. /\ fs[n + 1].type \in {"Raw", "Rle"}
      /\ fs[n + 1].uses = FreshContext
      /\ fs[n + 1].literals = "Raw"
      /\ fs[n + 1].sequences = FALSE
  BY PlainBlockType DEF Grows
<1>3. BlockIsSound(fs, n + 1)
  BY <1>2 DEF BlockIsSound
<1>4. /\ HeldTree(fs, n) = HeldTree(fr, n)
      /\ \A f \in Fields : HeldTable(fs, n, f) = HeldTable(fr, n, f)
      /\ HeldOffsets(fs, n) = HeldOffsets(fr, n)
  <2>1. \A j \in 1..n : fs[j] = fr[j]
    BY DEF Grows
  <2> HIDE DEF n
  <2> QED
    BY <1>1, <2>1, HeldInPrefix
<1>5. /\ HeldTree(fs, n + 1) = HeldTree(fs, n)
      /\ \A f \in Fields : HeldTable(fs, n + 1, f) = HeldTable(fs, n, f)
      /\ HeldOffsets(fs, n + 1) = HeldOffsets(fs, n)
  <2> HIDE DEF n
  <2> QED
    BY <1>1, <1>2, HeldAfterBlock
<1> QED
  BY <1>1, <1>3, <1>4, <1>5 DEF MayRepeat

\* A compressed body is sound, if its writer may repeat no more than a reader
\* holds and takes the offsets of that reader; and so it stays.
LEMMA BodyIsSound ==
  ASSUME WriterTypeOK,
         NEW literals \in LiteralsTypes, NEW fourStreams \in BOOLEAN, NEW sequences \in BOOLEAN,
         NEW modes \in [Fields -> TableModes], NEW reuse \in BOOLEAN, NEW last \in BOOLEAN,
         NEW before \in Nat, NEW after \in Nat,
         before = HeldOffsets(frame, Len(frame)),
         MayRepeat(huffman, sequenceTables, frame, Len(frame)),
         WriteBody(literals, fourStreams, sequences, modes, reuse, last, before, after)
  PROVE  LET b == CompressedBlock(literals, fourStreams, sequences, modes, last, before, after)
         IN  /\ huffman' \in Tables /\ sequenceTables' \in [Fields -> FieldStates]
             /\ bodies' = bodies + 1
             /\ b.type = "Compressed" /\ b.last = last /\ b.id = bodies + 1
             /\ Grows(frame, frame', b)
             /\ BlockIsSound(frame', Len(frame) + 1)
             /\ MayRepeat(huffman', sequenceTables', frame', Len(frame'))
             /\ HeldOffsets(frame', Len(frame')) = IF sequences THEN after ELSE before
<1> DEFINE b == CompressedBlock(literals, fourStreams, sequences, modes, last, before, after)
           n == Len(frame)
           told == TablesAfter(modes, FieldCount)
<1>1. /\ frame \in Seq(Blocks) /\ huffman \in Tables /\ bodies \in Nat
      /\ sequenceTables \in [Fields -> FieldStates]
  BY DEF WriterTypeOK
<1>2. bodies + 1 \in Nat /\ bodies + 1 \in Tables /\ bodies + 1 # NoTable
      /\ PredefinedTable \in Tables /\ PredefinedTable # NoTable
  BY <1>1, FormatAssumption DEF Tables
<1>3. HuffmanAfter(literals) \in Tables
  BY <1>1, <1>2 DEF HuffmanAfter
<1>4. \A f \in Fields : modes[f] \in TableModes /\ sequenceTables[f].mode \in TableModes
                        /\ sequenceTables[f].table \in Tables
  BY <1>1 DEF FieldStates
<1>5. ASSUME NEW f \in Fields
      PROVE  /\ told[f] \in {[mode |-> m, table |-> t] : m \in TableModes, t \in Tables}
             /\ told[f].mode = modes[f]
             /\ told[f].table = TableOf(modes[f], sequenceTables[f].table, bodies + 1)
  <2>1. f <= FieldCount
    BY FormatAssumption DEF Fields
  <2>2. told[f] = [mode |-> modes[f], table |-> TableOf(modes[f], sequenceTables[f].table, bodies + 1)]
    BY <2>1 DEF TablesAfter
  <2>3. TableOf(modes[f], sequenceTables[f].table, bodies + 1) \in Tables
    BY <1>2, <1>4 DEF TableOf, TableModes
  <2> QED
    BY <1>4, <2>2, <2>3
<1>7. told \in [Fields -> FieldStates]
  <2>1. \A f \in Fields : told[f] \in FieldStates
    <3> HIDE DEF told
    <3> QED
      BY <1>5 DEF FieldStates
  <2>2. told = [f \in Fields |-> told[f]]
    BY DEF TablesAfter
  <2> HIDE DEF told
  <2> QED
    BY <2>1, <2>2
<1>8. /\ b.type = "Compressed" /\ b.last = last /\ b.literals = literals
      /\ b.sequences = sequences /\ b.modes = modes /\ b.id = bodies + 1 /\ b.after = after
      /\ b.uses = [huffman |-> IF literals \in {"Compressed", "Treeless"}
                               THEN HuffmanAfter(literals) ELSE NoTable,
                   tables  |-> IF sequences THEN [f \in Fields |-> told[f].table]
                                            ELSE [f \in Fields |-> NoTable],
                   offsets |-> before]
  BY DEF CompressedBlock
<1>9. b.uses \in Contexts
  <2>1. [f \in Fields |-> told[f].table] \in [Fields -> Tables]
    <3>1. \A f \in Fields : told[f].table \in Tables
      BY <1>7 DEF FieldStates
    <3> HIDE DEF told
    <3> QED
      BY <3>1
  <2>2. [f \in Fields |-> NoTable] \in [Fields -> Tables] /\ NoTable \in Tables
    BY DEF Tables
  <2> HIDE DEF told
  <2> QED
    BY <1>3, <1>8, <2>1, <2>2 DEF Contexts
<1>10. b \in Blocks
  BY <1>1, <1>2, <1>9 DEF CompressedBlock, Blocks
<1>11. Grows(frame, frame', b) /\ huffman' = HuffmanAfter(literals) /\ bodies' = bodies + 1
       /\ sequenceTables' = IF sequences THEN told ELSE sequenceTables
  BY <1>1, <1>10, AppendGrows DEF WriteBody
<1>12. n \in Nat /\ Len(frame') = n + 1 /\ frame'[n + 1] = b /\ \A j \in 1..n : frame'[j] = frame[j]
  BY <1>1, <1>11 DEF Grows
<1>13. /\ HeldTree(frame', n) = HeldTree(frame, n)
       /\ \A f \in Fields : HeldTable(frame', n, f) = HeldTable(frame, n, f)
       /\ HeldOffsets(frame', n) = HeldOffsets(frame, n)
  <2> HIDE DEF n
  <2> QED
    BY <1>12, HeldInPrefix
<1>14. /\ HeldTree(frame', n + 1) = IF literals = "Compressed" THEN bodies + 1 ELSE HeldTree(frame, n)
       /\ \A f \in Fields :
            HeldTable(frame', n + 1, f) = IF sequences /\ modes[f] # "Repeat"
                                          THEN TableOf(modes[f], NoTable, bodies + 1)
                                          ELSE HeldTable(frame, n, f)
       /\ HeldOffsets(frame', n + 1) = IF sequences THEN after ELSE before
  <2> HIDE DEF n, b
  <2> QED
    BY <1>8, <1>12, <1>13, HeldAfterBlock DEF n
<1>15. literals \in {"Compressed", "Treeless"} =>
         HuffmanAfter(literals) = HeldTree(frame', n + 1) /\ HeldTree(frame', n + 1) # NoTable
  BY <1>2, <1>14 DEF HuffmanAfter, MayRepeat, WriteBody, LiteralsAllowed
<1>16. ASSUME sequences, NEW f \in Fields
       PROVE  told[f].table = HeldTable(frame', n + 1, f) /\ HeldTable(frame', n + 1, f) # NoTable
  <2>1. told[f].table = TableOf(modes[f], sequenceTables[f].table, bodies + 1)
    <3> HIDE DEF told
    <3> QED
      BY <1>5
  <2>2. CASE modes[f] = "Repeat"
    <3>1. sequenceTables[f].mode \in {"Compressed", "Repeat"}
      BY <2>2 DEF WriteBody, ModesAllowed
    <3>2. sequenceTables[f].table = HeldTable(frame, n, f) /\ sequenceTables[f].table # NoTable
      BY <3>1 DEF MayRepeat
    <3> QED
      BY <1>14, <1>16, <2>1, <2>2, <3>2 DEF TableOf
  <2>3. CASE modes[f] # "Repeat"
    <3>1. modes[f] \in {"Predefined", "Rle", "Compressed"}
      BY <2>3, <1>4 DEF TableModes
    <3> QED
      BY <1>2, <1>14, <1>16, <2>1, <3>1 DEF TableOf
  <2> QED
    BY <2>2, <2>3
<1>17. BlockIsSound(frame', n + 1)
  <2>1. b.sequences => [f \in Fields |-> told[f].table] =
          [f \in Fields |-> IF b.sequences THEN HeldTable(frame', n + 1, f) ELSE NoTable]
    BY <1>8, <1>16
  <2>2. ~b.sequences => [f \in Fields |-> NoTable] =
          [f \in Fields |-> IF b.sequences THEN HeldTable(frame', n + 1, f) ELSE NoTable]
    OBVIOUS
  <2>3. Coded(b) <=> literals \in {"Compressed", "Treeless"}
    BY <1>8 DEF Coded
  <2>4. before = HeldOffsets(frame', (n + 1) - 1)
    BY <1>12, <1>13
  <2>5. b.uses = [huffman |-> IF Coded(b) THEN HeldTree(frame', n + 1) ELSE NoTable,
                  tables  |-> [f \in Fields |-> IF b.sequences THEN HeldTable(frame', n + 1, f) ELSE NoTable],
                  offsets |-> HeldOffsets(frame', (n + 1) - 1)]
    <3> HIDE DEF b, n, told
    <3> QED
      BY <1>8, <1>15, <2>1, <2>2, <2>3, <2>4
  <2> HIDE DEF b, n, told
  <2> QED
    BY <1>8, <1>12, <1>15, <1>16, <2>3, <2>5 DEF BlockIsSound
<1>18. MayRepeat(huffman', sequenceTables', frame', n + 1)
  <2>1. huffman' # NoTable => huffman' = HeldTree(frame', n + 1)
    BY <1>11, <1>14 DEF HuffmanAfter, MayRepeat
  <2>2. ASSUME NEW f \in Fields, sequenceTables'[f].mode \in {"Compressed", "Repeat"}
        PROVE  sequenceTables'[f].table = HeldTable(frame', n + 1, f) /\ sequenceTables'[f].table # NoTable
    <3>1. CASE sequences
      BY <1>11, <1>16, <3>1
    <3>2. CASE ~sequences
      BY <1>11, <1>14, <2>2, <3>2 DEF MayRepeat
    <3> QED
      BY <3>1, <3>2
  <2> QED
    BY <2>1, <2>2 DEF MayRepeat
<1> QED
  BY <1>1, <1>3, <1>7, <1>8, <1>11, <1>12, <1>14, <1>17, <1>18

LEMMA SoundFrameGrows ==
  ASSUME WriterInv, ~damaged, ~damaged', base' = base, ~complete,
         NEW b, Grows(frame, frame', b), BlockIsSound(frame', Len(frame) + 1),
         b.type = "Compressed" => b.id > base,
         b.last = complete', complete' => stage' = "idle"
  PROVE  FrameIsSound' /\ BodiesAreNew' /\ LastIsLast'
<1> DEFINE n == Len(frame)
<1>1. frame \in Seq(Blocks) /\ n \in Nat
  BY DEF WriterInv, WriterTypeOK
<1>2. /\ frame' \in Seq(Blocks) /\ Len(frame') = n + 1
      /\ \A j \in 1..n : frame'[j] = frame[j]
      /\ frame'[n + 1] = b
  BY DEF Grows
<1>3. \A i \in 1..n+1 : i \in 1..n \/ i = n + 1
  BY <1>1
<1>4. ASSUME NEW i \in 1..n PROVE BlockIsSound(frame', i)
  <2>1. BlockIsSound(frame, i)
    BY DEF WriterInv, FrameIsSound
  <2>2. i \in Nat \ {0} /\ \A j \in 1..i : frame[j] = frame'[j]
    BY <1>1, <1>2
  <2> HIDE DEF n
  <2> QED
    BY <2>1, <2>2, SoundInPrefix
<1>5. FrameIsSound'
  BY <1>2, <1>3, <1>4 DEF FrameIsSound
<1>6. BodiesAreNew'
  BY <1>2, <1>3 DEF WriterInv, BodiesAreNew
<1>7. LastIsLast'
  <2>1. frame' # <<>>
    BY <1>1, <1>2
  <2>2. \A i \in 1..n : ~frame'[i].last
    BY <1>2 DEF WriterInv, LastIsLast
  <2> QED
    BY <1>1, <1>2, <1>3, <2>1, <2>2 DEF LastIsLast
<1> QED
  BY <1>5, <1>6, <1>7

\* A block starts from what the writer holds, or from nothing.
LEMMA StartMayRepeat ==
  ASSUME WriterInv, NEW atStart \in BOOLEAN, CanBegin(atStart)
  PROVE  /\ StartingHuffman(atStart) \in Tables
         /\ StartingTables(atStart) \in [Fields -> FieldStates]
         /\ MayRepeat(StartingHuffman(atStart), StartingTables(atStart), frame, Len(frame))
         /\ offsets = HeldOffsets(frame, Len(frame))
<1>1. CASE atStart
  <2>1. NoTable \in Tables /\ NewSequenceTables \in [Fields -> FieldStates]
    BY DEF Tables, NewSequenceTables, FieldStates, TableModes
  <2>2. \A f \in Fields : NewSequenceTables[f].mode = "Predefined"
    BY DEF NewSequenceTables
  <2> QED
    BY <1>1, <2>1, <2>2
       DEF StartingHuffman, StartingTables, MayRepeat, WriterInv, BetweenBlocks, CanBegin
<1>2. CASE ~atStart
  BY <1>2 DEF StartingHuffman, StartingTables, MayRepeat, WriterInv, WriterTypeOK, BetweenBlocks, CanBegin
<1> QED
  BY <1>1, <1>2

LEMMA NoBlockType ==
  NoBlock \in [saved : SavedContexts, reuse : BOOLEAN, last : BOOLEAN, found : Nat, written : Nat]
BY DEF NoBlock, SavedContexts, Tables, NewSequenceTables, FieldStates, TableModes, InitialOffsets

LEMMA WritePlainBlockKeeps ==
  ASSUME WriterInv, ~damaged, UNCHANGED pipelineVars,
         NEW type \in {"Raw", "Rle"}, NEW atStart \in BOOLEAN, NEW last \in BOOLEAN,
         WritePlainBlock(type, atStart, last)
  PROVE  WriterInv'
<1> DEFINE b == PlainBlock(type, last)
<1>1. /\ frame \in Seq(Blocks) /\ bodies \in Nat /\ offsets \in Nat /\ base \in Nat /\ base <= bodies
      /\ stage = "idle" /\ ~complete /\ block = NoBlock
  BY DEF WriterInv, WriterTypeOK, BetweenBlocks, WritePlainBlock, CanBegin
<1>2. /\ frame' = Append(frame, b) /\ complete' = last
      /\ huffman' = StartingHuffman(atStart) /\ sequenceTables' = StartingTables(atStart)
      /\ offsets' = offsets /\ stage' = "idle" /\ block' = NoBlock /\ bodies' = bodies
      /\ base' = base /\ ~damaged'
  BY <1>1 DEF WritePlainBlock, pipelineVars
<1>3. Grows(frame, frame', b)
  BY <1>1, <1>2, PlainBlockType, AppendGrows
<1>4. /\ b.type \in {"Raw", "Rle"} /\ b.last = last
  BY PlainBlockType
<1>5. /\ StartingHuffman(atStart) \in Tables
      /\ StartingTables(atStart) \in [Fields -> FieldStates]
      /\ MayRepeat(StartingHuffman(atStart), StartingTables(atStart), frame, Len(frame))
      /\ offsets = HeldOffsets(frame, Len(frame))
  BY StartMayRepeat DEF WritePlainBlock
<1> HIDE DEF b
<1>6. /\ BlockIsSound(frame', Len(frame) + 1)
      /\ HeldOffsets(frame', Len(frame')) = offsets
      /\ MayRepeat(huffman', sequenceTables', frame', Len(frame'))
  BY <1>1, <1>2, <1>3, <1>5, PlainBlockIsSound DEF b
<1>7. FrameIsSound' /\ BodiesAreNew' /\ LastIsLast'
  BY <1>1, <1>2, <1>3, <1>4, <1>6, SoundFrameGrows
<1>8. WriterTypeOK'
  BY <1>1, <1>2, <1>3, <1>5, NoBlockType DEF WriterTypeOK, Grows
<1>9. BetweenBlocks' /\ InsideABlock' /\ SingleBlock' /\ SplitBlock'
  BY <1>2, <1>6 DEF BetweenBlocks, InsideABlock, SingleBlock, SplitBlock
<1> QED
  BY <1>1, <1>2, <1>7, <1>8, <1>9 DEF WriterInv

LEMMA BeginBlockKeeps ==
  ASSUME WriterInv, ~damaged, UNCHANGED pipelineVars,
         NEW atStart \in BOOLEAN, NEW last \in BOOLEAN, NEW split \in BOOLEAN, NEW found \in Nat,
         BeginBlock(atStart, last, found, split)
  PROVE  WriterInv'
<1> DEFINE saved == [huffman        |-> StartingHuffman(atStart),
                     sequenceTables |-> StartingTables(atStart),
                     offsets        |-> offsets]
<1>1. /\ WriterTypeOK /\ base \in Nat /\ base <= bodies
      /\ stage = "idle" /\ ~complete
      /\ FrameIsSound /\ BodiesAreNew /\ LastIsLast
  BY DEF WriterInv, BeginBlock, CanBegin
<1>2. /\ frame' = frame /\ complete' = complete /\ bodies' = bodies
      /\ huffman' = saved.huffman /\ sequenceTables' = saved.sequenceTables
      /\ saved.offsets = offsets /\ offsets' = offsets + found
      /\ block' = [saved |-> saved, reuse |-> ~atStart, last |-> last, found |-> found,
                   written |-> Len(frame)]
      /\ stage' = IF split THEN "pieces" ELSE "single"
      /\ split => found > 1
      /\ base' = base /\ damaged' = damaged
  BY DEF BeginBlock, pipelineVars
<1>3. /\ saved.huffman \in Tables
      /\ saved.sequenceTables \in [Fields -> FieldStates]
      /\ MayRepeat(saved.huffman, saved.sequenceTables, frame, Len(frame))
      /\ offsets = HeldOffsets(frame, Len(frame))
  BY StartMayRepeat DEF BeginBlock
<1>4. saved \in SavedContexts
  BY <1>1, <1>3 DEF SavedContexts, WriterTypeOK
<1> HIDE DEF saved
<1>5. Len(frame) \in Nat /\ offsets \in Nat
  BY <1>1 DEF WriterTypeOK
<1>6. WriterTypeOK'
  BY <1>1, <1>2, <1>3, <1>4, <1>5 DEF WriterTypeOK
<1>7. FrameIsSound' /\ BodiesAreNew' /\ LastIsLast'
  BY <1>1, <1>2 DEF FrameIsSound, BodiesAreNew, LastIsLast
<1>8. BetweenBlocks' /\ InsideABlock' /\ SingleBlock'
  BY <1>2, <1>3, <1>5 DEF BetweenBlocks, InsideABlock, SingleBlock
<1>9. SplitBlock'
  BY <1>2, <1>3, <1>5 DEF SplitBlock, PiecesDone
<1> QED
  BY <1>1, <1>2, <1>6, <1>7, <1>8, <1>9 DEF WriterInv

\* Whatever a body left behind is a tree and tables.
LEMMA FailedBodyType ==
  ASSUME WriterTypeOK, NEW literals \in LiteralsTypes, NEW modes \in [Fields -> TableModes],
         NEW reuse, NEW n \in Nat, FailBody(literals, modes, reuse, n)
  PROVE  huffman' \in Tables /\ sequenceTables' \in [Fields -> FieldStates] /\ bodies' = bodies + 1
<1>1. bodies \in Nat /\ bodies + 1 \in Tables /\ huffman \in Tables /\ PredefinedTable \in Tables
      /\ sequenceTables \in [Fields -> FieldStates]
  BY DEF WriterTypeOK, Tables
<1>2. huffman' \in Tables
  BY <1>1 DEF FailBody, HuffmanAfter
<1>3. ASSUME NEW f \in Fields
      PROVE  [mode |-> modes[f], table |-> TableOf(modes[f], sequenceTables[f].table, bodies + 1)]
               \in FieldStates
  <2>1. modes[f] \in TableModes /\ sequenceTables[f].table \in Tables
    BY <1>1 DEF FieldStates
  <2>2. TableOf(modes[f], sequenceTables[f].table, bodies + 1) \in Tables
    BY <1>1, <2>1 DEF TableOf, TableModes
  <2> QED
    BY <2>1, <2>2 DEF FieldStates
<1>4. TablesAfter(modes, n) \in [Fields -> FieldStates]
  BY <1>1, <1>3 DEF TablesAfter
<1> QED
  BY <1>2, <1>4 DEF FailBody

LEMMA WritePieceKeeps ==
  ASSUME WriterInv, ~damaged, UNCHANGED pipelineVars,
         NEW literals \in LiteralsTypes, NEW fourStreams \in BOOLEAN,
         NEW modes \in [Fields -> TableModes],
         WritePiece(literals, fourStreams, modes)
  PROVE  WriterInv'
<1> DEFINE isLastPiece == PiecesDone + 1 = block.found
           n == Len(frame)
<1>1. /\ WriterTypeOK /\ frame \in Seq(Blocks) /\ bodies \in Nat /\ offsets \in Nat
      /\ base \in Nat /\ base <= bodies /\ stage = "pieces" /\ ~complete
      /\ block.saved.offsets \in Nat /\ block.found \in Nat /\ block.written \in Nat
      /\ block.last \in BOOLEAN /\ block.reuse \in BOOLEAN /\ n \in Nat
  BY DEF WriterInv, WriterTypeOK, WritePiece, LastIsLast, SavedContexts
<1>2. /\ block.written <= n /\ PiecesDone \in Nat /\ PiecesDone < block.found
      /\ MayRepeat(block.saved.huffman, block.saved.sequenceTables, frame, block.written)
      /\ block.saved.offsets = HeldOffsets(frame, block.written)
      /\ offsets = block.saved.offsets + block.found
      /\ block.found > 1
      /\ MayRepeat(huffman, sequenceTables, frame, n)
      /\ block.saved.offsets + PiecesDone = HeldOffsets(frame, n)
  BY <1>1 DEF WriterInv, InsideABlock, SplitBlock, PiecesDone
<1>3. PICK last \in BOOLEAN, sequences \in BOOLEAN, reuse \in BOOLEAN, before \in Nat, after \in Nat :
        /\ last = (isLastPiece /\ block.last)
        /\ sequences = TRUE
        /\ reuse = PieceReuse
        /\ before = block.saved.offsets + PiecesDone
        /\ after = block.saved.offsets + PiecesDone + 1
  <2>1. PieceReuse \in BOOLEAN
    BY <1>1 DEF PieceReuse
  <2>2. (isLastPiece /\ block.last) \in BOOLEAN /\ TRUE \in BOOLEAN
    OBVIOUS
  <2>3. block.saved.offsets + PiecesDone \in Nat /\ block.saved.offsets + PiecesDone + 1 \in Nat
    BY <1>1, <1>2
  <2> HIDE DEF isLastPiece
  <2> QED
    BY <2>1, <2>2, <2>3, Zenon
<1> DEFINE b == CompressedBlock(literals, fourStreams, sequences, modes, last, before, after)
<1>4. /\ WriteBody(literals, fourStreams, sequences, modes, reuse, last, before, after)
      /\ stage' = IF isLastPiece THEN "idle" ELSE "pieces"
      /\ complete' = last
      /\ block' = IF isLastPiece THEN NoBlock ELSE block
      /\ offsets' = offsets /\ base' = base /\ damaged' = damaged
  <2>1. WriteBody(literals, fourStreams, sequences, modes, reuse, last, before, after)
    BY <1>3, Zenon DEF WritePiece
  <2>2. complete' = last
    BY <1>3, Zenon DEF WritePiece
  <2> QED
    BY <2>1, <2>2 DEF WritePiece, pipelineVars
<1>5. /\ huffman' \in Tables /\ sequenceTables' \in [Fields -> FieldStates]
      /\ bodies' = bodies + 1
      /\ b.type = "Compressed" /\ b.last = last /\ b.id = bodies + 1
      /\ Grows(frame, frame', b)
      /\ BlockIsSound(frame', n + 1)
      /\ MayRepeat(huffman', sequenceTables', frame', Len(frame'))
      /\ HeldOffsets(frame', Len(frame')) = after
  <2> HIDE DEF b, n
  <2>1. before = HeldOffsets(frame, Len(frame)) /\ MayRepeat(huffman, sequenceTables, frame, Len(frame))
    BY <1>2, <1>3 DEF n
  <2>2. /\ huffman' \in Tables /\ sequenceTables' \in [Fields -> FieldStates]
        /\ bodies' = bodies + 1
        /\ b.type = "Compressed" /\ b.last = last /\ b.id = bodies + 1
        /\ Grows(frame, frame', b)
        /\ BlockIsSound(frame', Len(frame) + 1)
        /\ MayRepeat(huffman', sequenceTables', frame', Len(frame'))
        /\ HeldOffsets(frame', Len(frame')) = IF sequences THEN after ELSE before
    <3>1. WriterTypeOK
      BY <1>1
    <3>2. WriteBody(literals, fourStreams, sequences, modes, reuse, last, before, after)
      BY <1>4
    <3> QED
      BY <2>1, <3>1, <3>2, BodyIsSound DEF b
  <2>3. sequences
    BY <1>3
  <2> QED
    BY <2>2, <2>3 DEF n
<1> HIDE DEF b
<1>6. FrameIsSound' /\ BodiesAreNew' /\ LastIsLast'
  <2>1. b.id > base
    BY <1>1, <1>5
  <2>2. b.last = complete'
    BY <1>4, <1>5
  <2>3. complete' => stage' = "idle"
    BY <1>3, <1>4
  <2>4. ~damaged' /\ base' = base
    BY <1>4
  <2> HIDE DEF n
  <2> QED
    BY <1>1, <1>5, <2>1, <2>2, <2>3, <2>4, SoundFrameGrows DEF n
<1>7. Len(frame') = n + 1 /\ frame' \in Seq(Blocks) /\ \A j \in 1..n : frame'[j] = frame[j]
  BY <1>5 DEF Grows
<1>8. WriterTypeOK'
  <2>1. /\ block' \in [saved : SavedContexts, reuse : BOOLEAN, last : BOOLEAN, found : Nat, written : Nat]
        /\ stage' \in {"idle", "pieces"}
    BY <1>1, <1>4, NoBlockType DEF WriterTypeOK
  <2>2. complete' \in BOOLEAN /\ bodies' \in Nat /\ offsets' \in Nat
    BY <1>1, <1>4, <1>5
  <2> QED
    BY <1>5, <1>7, <2>1, <2>2 DEF WriterTypeOK
<1>9. BetweenBlocks'
  <2>1. isLastPiece => after = offsets
    BY <1>1, <1>2, <1>3
  <2>2. stage' = "idle" => block' = NoBlock /\ offsets' = offsets /\ isLastPiece
    BY <1>4
  <2> QED
    BY <1>5, <2>1, <2>2 DEF BetweenBlocks
<1>10. \A j \in 1..block.written : frame[j] = frame'[j]
  <2>1. block.written <= n /\ block.written \in Nat /\ n \in Nat
    BY <1>1, <1>2
  <2>2. \A j \in 1..n : frame'[j] = frame[j]
    BY <1>7
  <2> HIDE DEF n
  <2> QED
    BY <2>1, <2>2
<1>11. /\ MayRepeat(block.saved.huffman, block.saved.sequenceTables, frame', block.written)
       /\ block.saved.offsets = HeldOffsets(frame', block.written)
  BY <1>1, <1>2, <1>10, MayRepeatInPrefix, HeldInPrefix
<1>12. InsideABlock'
  BY <1>1, <1>2, <1>4, <1>7, <1>11 DEF InsideABlock
<1>13. SplitBlock'
  <2>1. CASE isLastPiece
    BY <1>4, <2>1 DEF SplitBlock
  <2>2. CASE ~isLastPiece
    <3>1. stage' = "pieces" /\ block' = block
      BY <1>4, <2>2
    <3>2. PiecesDone' = PiecesDone + 1
      <4>1. Len(frame') = Len(frame) + 1
        BY <1>7
      <4>2. Len(frame) \in Nat /\ block.written \in Nat
        BY <1>1
      <4>3. Len(frame') - block.written = (Len(frame) - block.written) + 1
        BY <4>1, <4>2
      <4> QED
        BY <3>1, <4>3 DEF PiecesDone
    <3>3. PiecesDone + 1 < block.found
      BY <1>1, <1>2, <2>2
    <3>4. after = block.saved.offsets + (PiecesDone + 1)
      BY <1>1, <1>2, <1>3
    <3> QED
      BY <1>2, <1>5, <3>1, <3>2, <3>3, <3>4 DEF SplitBlock
  <2> QED
    BY <2>1, <2>2
<1>14. SingleBlock'
  BY <1>4 DEF SingleBlock
<1> QED
  BY <1>1, <1>4, <1>5, <1>6, <1>8, <1>9, <1>12, <1>13, <1>14 DEF WriterInv

\* A body that failed inside a block leaves the frame and the block alone.
LEMMA FailKeeps ==
  ASSUME WriterInv, ~damaged, UNCHANGED pipelineVars,
         NEW literals \in LiteralsTypes, NEW modes \in [Fields -> TableModes],
         NEW reuse, NEW n \in Nat, FailBody(literals, modes, reuse, n),
         UNCHANGED <<frame, complete, offsets, block>>,
         \/ stage = "pieces" /\ stage' = "pieces_failed"
         \/ stage = "single" /\ stage' = "single_failed"
         \/ stage \in {"pieces", "single"} /\ stage' = "aborted"
  PROVE  WriterInv'
<1>1. /\ WriterTypeOK /\ bodies \in Nat /\ base \in Nat /\ base <= bodies /\ ~complete
      /\ FrameIsSound /\ BodiesAreNew /\ LastIsLast
  BY DEF WriterInv, WriterTypeOK, LastIsLast
<1>2. /\ frame' = frame /\ complete' = complete /\ offsets' = offsets /\ block' = block
      /\ base' = base /\ damaged' = damaged
  BY DEF pipelineVars
<1>3. huffman' \in Tables /\ sequenceTables' \in [Fields -> FieldStates] /\ bodies' = bodies + 1
  BY <1>1, FailedBodyType
<1>4. WriterTypeOK'
  BY <1>1, <1>2, <1>3 DEF WriterTypeOK
<1>5. FrameIsSound' /\ BodiesAreNew' /\ LastIsLast'
  BY <1>1, <1>2 DEF FrameIsSound, BodiesAreNew, LastIsLast
<1>6. BetweenBlocks' /\ InsideABlock' /\ SingleBlock'
  BY <1>2 DEF WriterInv, BetweenBlocks, InsideABlock, SingleBlock
<1>7. SplitBlock'
  BY <1>2 DEF WriterInv, SplitBlock, PiecesDone
<1> QED
  BY <1>1, <1>2, <1>3, <1>4, <1>5, <1>6, <1>7 DEF WriterInv

LEMMA AbandonPiecesKeeps ==
  ASSUME WriterInv, ~damaged, UNCHANGED pipelineVars, AbandonPieces
  PROVE  WriterInv'
<1> DEFINE w == block.written
<1>1. /\ WriterTypeOK /\ frame \in Seq(Blocks) /\ w \in Nat /\ w <= Len(frame)
      /\ base \in Nat /\ base <= bodies /\ stage = "pieces_failed" /\ ~complete
      /\ block.saved.huffman \in Tables
      /\ block.saved.sequenceTables \in [Fields -> FieldStates]
  BY DEF WriterInv, WriterTypeOK, AbandonPieces, LastIsLast, InsideABlock, SavedContexts
<1>2. /\ huffman' = block.saved.huffman /\ sequenceTables' = block.saved.sequenceTables
      /\ frame' = SubSeq(frame, 1, w) /\ stage' = "single" /\ complete' = complete
      /\ offsets' = offsets /\ block' = block /\ bodies' = bodies
      /\ base' = base /\ damaged' = damaged
  BY DEF AbandonPieces, pipelineVars
<1>3. frame' \in Seq(Blocks) /\ Len(frame') = w /\ \A j \in 1..w : frame'[j] = frame[j]
  <2> DEFINE B == Blocks
  <2>1. w \in Int /\ 1 \in Int
    BY <1>1
  <2>2. \A j \in 1..w : frame[j] \in B
    BY <1>1
  <2> HIDE DEF B, w
  <2>3. /\ SubSeq(frame, 1, w) \in Seq(B)
        /\ Len(SubSeq(frame, 1, w)) = IF 1 <= w THEN w - 1 + 1 ELSE 0
        /\ \A j \in 1..w - 1 + 1 : SubSeq(frame, 1, w)[j] = frame[1 + j - 1]
    BY <2>1, <2>2, SubSeqProperties
  <2> QED
    BY <1>1, <1>2, <2>3 DEF B
<1>4. WriterTypeOK'
  BY <1>1, <1>2, <1>3 DEF WriterTypeOK
<1>5. \A j \in 1..w : j \in 1..Len(frame) /\ frame'[j] = frame[j]
  BY <1>1, <1>3
<1>6. FrameIsSound'
  <2>1. ASSUME NEW i \in 1..w PROVE BlockIsSound(frame', i)
    <3>1. i \in 1..Len(frame) /\ i \in Nat \ {0} /\ \A j \in 1..i : frame[j] = frame'[j]
      BY <1>1, <1>5
    <3>2. BlockIsSound(frame, i)
      BY <3>1 DEF WriterInv, FrameIsSound
    <3> QED
      BY <3>1, <3>2, SoundInPrefix
  <2> QED
    BY <1>3, <2>1 DEF FrameIsSound
<1>7. BodiesAreNew' /\ LastIsLast'
  BY <1>1, <1>2, <1>3, <1>5 DEF WriterInv, BodiesAreNew, LastIsLast
<1>8. /\ MayRepeat(block.saved.huffman, block.saved.sequenceTables, frame', w)
      /\ block.saved.offsets = HeldOffsets(frame', w)
      /\ offsets = block.saved.offsets + block.found
  <2>1. /\ MayRepeat(block.saved.huffman, block.saved.sequenceTables, frame, w)
        /\ block.saved.offsets = HeldOffsets(frame, w)
        /\ offsets = block.saved.offsets + block.found
    BY <1>1 DEF WriterInv, InsideABlock
  <2>2. \A j \in 1..w : frame[j] = frame'[j]
    BY <1>5
  <2> QED
    BY <1>1, <2>1, <2>2, MayRepeatInPrefix, HeldInPrefix
<1>9. BetweenBlocks' /\ InsideABlock' /\ SingleBlock' /\ SplitBlock'
  BY <1>1, <1>2, <1>3, <1>8 DEF BetweenBlocks, InsideABlock, SingleBlock, SplitBlock
<1> QED
  BY <1>1, <1>2, <1>4, <1>6, <1>7, <1>9 DEF WriterInv

LEMMA WriteSingleKeeps ==
  ASSUME WriterInv, ~damaged, UNCHANGED pipelineVars,
         NEW literals \in LiteralsTypes, NEW fourStreams \in BOOLEAN,
         NEW modes \in [Fields -> TableModes],
         WriteSingle(literals, fourStreams, modes)
  PROVE  WriterInv'
<1> DEFINE n == Len(frame)
           sequences == block.found > 0
           b == CompressedBlock(literals, fourStreams, sequences, modes, block.last,
                                block.saved.offsets, offsets)
<1>1. /\ WriterTypeOK /\ frame \in Seq(Blocks) /\ bodies \in Nat /\ offsets \in Nat
      /\ base \in Nat /\ base <= bodies /\ stage = "single" /\ ~complete
      /\ block.saved.offsets \in Nat /\ block.found \in Nat
      /\ block.last \in BOOLEAN /\ block.reuse \in BOOLEAN /\ n \in Nat /\ sequences \in BOOLEAN
  BY DEF WriterInv, WriterTypeOK, WriteSingle, LastIsLast, SavedContexts
<1>2. /\ n = block.written
      /\ MayRepeat(huffman, sequenceTables, frame, n)
      /\ block.saved.offsets = HeldOffsets(frame, n)
      /\ offsets = block.saved.offsets + block.found
  BY <1>1 DEF WriterInv, InsideABlock, SingleBlock
<1>3. /\ WriteBody(literals, fourStreams, sequences, modes, block.reuse, block.last,
                   block.saved.offsets, offsets)
      /\ stage' = "idle" /\ complete' = block.last /\ block' = NoBlock
      /\ offsets' = offsets /\ base' = base /\ damaged' = damaged
  BY DEF WriteSingle, pipelineVars
<1>4. /\ huffman' \in Tables /\ sequenceTables' \in [Fields -> FieldStates]
      /\ bodies' = bodies + 1
      /\ b.type = "Compressed" /\ b.last = block.last /\ b.id = bodies + 1
      /\ Grows(frame, frame', b)
      /\ BlockIsSound(frame', n + 1)
      /\ MayRepeat(huffman', sequenceTables', frame', Len(frame'))
      /\ HeldOffsets(frame', Len(frame')) = IF sequences THEN offsets ELSE block.saved.offsets
  <2> HIDE DEF sequences
  <2> QED
    BY <1>1, <1>2, <1>3, BodyIsSound
<1> HIDE DEF b
<1>5. FrameIsSound' /\ BodiesAreNew' /\ LastIsLast'
  BY <1>1, <1>3, <1>4, SoundFrameGrows
<1>6. WriterTypeOK'
  BY <1>1, <1>3, <1>4, NoBlockType DEF WriterTypeOK, Grows
<1>7. BetweenBlocks' /\ InsideABlock' /\ SingleBlock' /\ SplitBlock'
  BY <1>1, <1>2, <1>3, <1>4 DEF BetweenBlocks, InsideABlock, SingleBlock, SplitBlock
<1> QED
  BY <1>1, <1>3, <1>4, <1>5, <1>6, <1>7 DEF WriterInv

LEMMA WriteRawInsteadKeeps ==
  ASSUME WriterInv, ~damaged, UNCHANGED pipelineVars, WriteRawInstead
  PROVE  WriterInv'
<1> DEFINE b == PlainBlock("Raw", block.last)
           n == Len(frame)
<1>1. /\ frame \in Seq(Blocks) /\ bodies \in Nat /\ base \in Nat /\ base <= bodies
      /\ stage = "single_failed" /\ ~complete /\ n \in Nat
      /\ block.saved.huffman \in Tables /\ block.last \in BOOLEAN
      /\ block.saved.sequenceTables \in [Fields -> FieldStates]
      /\ block.saved.offsets \in Nat
  BY DEF WriterInv, WriterTypeOK, WriteRawInstead, LastIsLast, SavedContexts
<1>2. /\ n = block.written
      /\ MayRepeat(block.saved.huffman, block.saved.sequenceTables, frame, n)
      /\ block.saved.offsets = HeldOffsets(frame, n)
  BY <1>1 DEF WriterInv, InsideABlock, SingleBlock
<1>3. /\ frame' = Append(frame, b)
      /\ huffman' = block.saved.huffman /\ sequenceTables' = block.saved.sequenceTables
      /\ offsets' = block.saved.offsets
      /\ stage' = "idle" /\ complete' = block.last /\ block' = NoBlock
      /\ bodies' = bodies /\ base' = base /\ damaged' = damaged
  BY DEF WriteRawInstead, pipelineVars
<1>4. Grows(frame, frame', b) /\ b.type = "Raw" /\ b.last = block.last
  BY <1>1, <1>3, PlainBlockType, AppendGrows
<1> HIDE DEF b
<1>5. /\ BlockIsSound(frame', n + 1)
      /\ HeldOffsets(frame', Len(frame')) = HeldOffsets(frame, n)
      /\ MayRepeat(huffman', sequenceTables', frame', Len(frame'))
  <2>1. Grows(frame, frame', PlainBlock("Raw", block.last))
    BY <1>4 DEF b
  <2>2. /\ BlockIsSound(frame', Len(frame) + 1)
        /\ HeldOffsets(frame', Len(frame')) = HeldOffsets(frame, Len(frame))
        /\ \A tree, tables : MayRepeat(tree, tables, frame, Len(frame))
                              => MayRepeat(tree, tables, frame', Len(frame'))
    BY <1>1, <2>1, PlainBlockIsSound
  <2> QED
    BY <1>2, <1>3, <2>2
<1>6. FrameIsSound' /\ BodiesAreNew' /\ LastIsLast'
  BY <1>1, <1>3, <1>4, <1>5, SoundFrameGrows
<1>7. WriterTypeOK'
  BY <1>1, <1>3, <1>4, NoBlockType DEF WriterTypeOK, Grows
<1>8. BetweenBlocks' /\ InsideABlock' /\ SingleBlock' /\ SplitBlock'
  BY <1>2, <1>3, <1>5 DEF BetweenBlocks, InsideABlock, SingleBlock, SplitBlock
<1> QED
  BY <1>1, <1>3, <1>6, <1>7, <1>8 DEF WriterInv

LEMMA RunOutKeeps ==
  ASSUME WriterInv, ~damaged, UNCHANGED pipelineVars, RunOutBetweenBlocks \/ RunOutWritingRaw
  PROVE  WriterInv'
<1>1. /\ WriterTypeOK /\ base \in Nat /\ base <= bodies /\ ~complete
      /\ FrameIsSound /\ BodiesAreNew /\ LastIsLast
      /\ block.saved.huffman \in Tables
      /\ block.saved.sequenceTables \in [Fields -> FieldStates]
      /\ block.saved.offsets \in Nat
  BY DEF WriterInv, WriterTypeOK, LastIsLast, RunOutBetweenBlocks, RunOutWritingRaw, SavedContexts
<1>2. /\ frame' = frame /\ complete' = complete /\ block' = block /\ bodies' = bodies
      /\ stage' = "aborted" /\ base' = base /\ damaged' = damaged
      /\ huffman' \in {huffman, block.saved.huffman}
      /\ sequenceTables' \in {sequenceTables, block.saved.sequenceTables}
      /\ offsets' \in {offsets, block.saved.offsets}
  BY DEF RunOutBetweenBlocks, RunOutWritingRaw, pipelineVars
<1>3. WriterTypeOK'
  BY <1>1, <1>2 DEF WriterTypeOK
<1>4. FrameIsSound' /\ BodiesAreNew' /\ LastIsLast'
  BY <1>1, <1>2 DEF FrameIsSound, BodiesAreNew, LastIsLast
<1>5. BetweenBlocks' /\ InsideABlock' /\ SingleBlock' /\ SplitBlock'
  BY <1>2 DEF BetweenBlocks, InsideABlock, SingleBlock, SplitBlock
<1> QED
  BY <1>1, <1>2, <1>3, <1>4, <1>5 DEF WriterInv

\* Nothing is written once the frame is complete.
LEMMA WriterMovesOnlyBefore ==
  ASSUME WriterInv, WriterNext
  PROVE  ~complete
<1>1. complete => stage = "idle"
  BY DEF WriterInv, LastIsLast
<1> QED
  BY <1>1 DEF WriterNext, WritePlainBlock, BeginBlock, CanBegin, WritePiece, WriteSingle, FailPiece,
              FailSingle, RunOutOfOutput, AbandonPieces, WriteRawInstead, RunOutBetweenBlocks,
              RunOutWritingRaw

LEMMA WriterStepKeeps ==
  ASSUME WriterInv, ~damaged, UNCHANGED pipelineVars, WriterNext
  PROVE  WriterInv'
<1>1. CASE \E type \in {"Raw", "Rle"}, atStart, last \in BOOLEAN : WritePlainBlock(type, atStart, last)
  BY <1>1, WritePlainBlockKeeps
<1>2. CASE \E atStart, last, split \in BOOLEAN, found \in 0..MaxPieces :
             BeginBlock(atStart, last, found, split)
  <2>1. PICK atStart \in BOOLEAN, last \in BOOLEAN, split \in BOOLEAN, found \in 0..MaxPieces :
          BeginBlock(atStart, last, found, split)
    BY <1>2
  <2>2. found \in Nat
    BY WriterAssumption
  <2> QED
    BY <2>1, <2>2, BeginBlockKeeps
<1>3. ASSUME NEW literals \in LiteralsTypes, NEW modes \in [Fields -> TableModes],
             NEW fourStreams \in BOOLEAN,
             WritePiece(literals, fourStreams, modes) \/ WriteSingle(literals, fourStreams, modes)
      PROVE  WriterInv'
  BY <1>3, WritePieceKeeps, WriteSingleKeeps
<1>4. ASSUME NEW literals \in LiteralsTypes, NEW modes \in [Fields -> TableModes],
             NEW n \in 0..FieldCount,
             \/ FailPiece(literals, modes, n)
             \/ FailSingle(literals, modes, n)
             \/ RunOutOfOutput(literals, modes, n)
      PROVE  WriterInv'
  <2>1. n \in Nat
    BY FormatAssumption
  <2>2. CASE FailPiece(literals, modes, n)
    BY <2>1, <2>2, FailKeeps DEF FailPiece
  <2>3. CASE FailSingle(literals, modes, n)
    BY <2>1, <2>3, FailKeeps DEF FailSingle
  <2>4. CASE RunOutOfOutput(literals, modes, n)
    BY <2>1, <2>4, FailKeeps DEF RunOutOfOutput
  <2> QED
    BY <1>4, <2>2, <2>3, <2>4
<1>5. CASE AbandonPieces
  BY <1>5, AbandonPiecesKeeps
<1>6. CASE WriteRawInstead
  BY <1>6, WriteRawInsteadKeeps
<1>7. CASE RunOutBetweenBlocks \/ RunOutWritingRaw
  BY <1>7, RunOutKeeps
<1> QED
  BY <1>1, <1>2, <1>3, <1>4, <1>5, <1>6, <1>7 DEF WriterNext

LEMMA WriteKeeps ==
  ASSUME IInv, Write
  PROVE  IInv'
<1>1. /\ WriterInv /\ WriterNext /\ reading = "waiting"
      /\ UNCHANGED readerVars /\ UNCHANGED pipelineVars
      /\ ReaderTypeOK /\ damaged \in BOOLEAN /\ ReaderPlace
  BY DEF IInv, Write, ReaderInv
<1>2. ~complete
  BY <1>1, WriterMovesOnlyBefore
<1>3. ~damaged /\ decoded = <<>>
  BY <1>1, <1>2 DEF ReaderPlace
<1>4. WriterInv'
  BY <1>1, <1>3, WriterStepKeeps
<1>5. /\ reading' = "waiting" /\ decoded' = <<>> /\ damaged' = FALSE
      /\ huffmanTables' = huffmanTables /\ currentTable' = currentTable /\ fieldTables' = fieldTables
      /\ fastTables' = fastTables /\ readerOffsets' = readerOffsets
  BY <1>1, <1>3 DEF readerVars, pipelineVars
<1>6. ReaderTypeOK'
  BY <1>1, <1>3, <1>5 DEF ReaderTypeOK
<1>7. ReaderPlace' /\ ReaderHolds' /\ FastCopiesAreCurrent' /\ TablesOfThisFrame'
  BY <1>5 DEF ReaderPlace, ReaderHolds, FastCopiesAreCurrent, TablesOfThisFrame
<1>8. DecodesAsWritten'
  BY <1>5 DEF DecodesAsWritten
<1> QED
  BY <1>4, <1>5, <1>6, <1>7, <1>8 DEF IInv, ReaderInv

-----------------------------------------------------------------------------
(***************************************************************************)
(* The reader.                                                             *)
(***************************************************************************)
TreeStates == [ready : BOOLEAN, table : Tables]
FastStates == [dirty : BOOLEAN, table : Tables]

LEMMA BlockFacts ==
  ASSUME NEW b \in Blocks
  PROVE  /\ b.literals \in LiteralsTypes /\ b.sequences \in BOOLEAN /\ b.last \in BOOLEAN
         /\ \A f \in Fields : b.modes[f] \in TableModes
         /\ b.id \in Nat /\ b.id \in Tables /\ b.after \in Nat /\ b.uses \in Contexts
BY DEF Blocks, Tables

LEMMA TableOfType ==
  ASSUME NEW mode \in TableModes, NEW held \in Tables, NEW id \in Nat
  PROVE  TableOf(mode, held, id) \in Tables
<1>1. id \in Tables /\ PredefinedTable \in Tables
  BY DEF Tables
<1> QED
  BY <1>1 DEF TableOf, TableModes

LEMMA ReadLiteralsType ==
  ASSUME NEW huffmen \in [Slots -> TreeStates], NEW slot \in Slots, NEW b \in Blocks
  PROVE  ReadLiterals(huffmen, slot, b) \in [Slots -> TreeStates]
<1>1. [ready |-> TRUE, table |-> b.id] \in TreeStates
  BY BlockFacts DEF TreeStates
<1> HIDE DEF TreeStates
<1> QED
  BY <1>1 DEF ReadLiterals

\* What the tables of field f come to.
LEMMA FieldRead ==
  ASSUME NEW fields \in [Fields -> TreeStates], NEW b \in Blocks, NEW n, NEW f \in Fields
  PROVE  LET read == ReadFields(fields, b, n)
         IN  /\ read \in [Fields -> TreeStates]
             /\ b.sequences /\ f <= n =>
                  /\ read[f].ready <=> b.modes[f] # "Repeat" \/ fields[f].ready
                  /\ read[f].table = TableOf(b.modes[f], fields[f].table, b.id)
             /\ ~(b.sequences /\ f <= n) => read[f] = fields[f]
<1> DEFINE new(g) == [ready |-> b.modes[g] # "Repeat" \/ fields[g].ready,
                      table |-> TableOf(b.modes[g], fields[g].table, b.id)]
           read == ReadFields(fields, b, n)
<1>1. ASSUME NEW g \in Fields PROVE new(g) \in TreeStates
  <2>1. fields[g].table \in Tables /\ b.modes[g] \in TableModes /\ b.id \in Nat
    BY BlockFacts DEF TreeStates
  <2>2. TableOf(b.modes[g], fields[g].table, b.id) \in Tables
    BY <2>1, TableOfType
  <2>3. (b.modes[g] # "Repeat" \/ fields[g].ready) \in BOOLEAN
    OBVIOUS
  <2> QED
    BY <2>2, <2>3 DEF TreeStates
<1>2. read = [g \in Fields |-> IF b.sequences /\ g <= n THEN new(g) ELSE fields[g]]
  BY DEF ReadFields
<1>3. /\ new(f).ready = (b.modes[f] # "Repeat" \/ fields[f].ready)
      /\ new(f).table = TableOf(b.modes[f], fields[f].table, b.id)
  OBVIOUS
<1> HIDE DEF new, read
<1>4. read \in [Fields -> TreeStates]
  BY <1>1, <1>2
<1>5. b.sequences /\ f <= n => read[f] = new(f)
  BY <1>2
<1>6. ~(b.sequences /\ f <= n) => read[f] = fields[f]
  BY <1>2
<1> QED
  BY <1>3, <1>4, <1>5, <1>6 DEF read

LEMMA FastBuilt ==
  ASSUME NEW fast \in [Fields -> FastStates], NEW held \in [Fields -> TreeStates],
         NEW b \in Blocks, NEW f \in Fields
  PROVE  LET built == BuildFast(fast, held, b)
         IN  /\ built \in [Fields -> FastStates]
             /\ ~b.sequences => built[f] = fast[f]
             /\ b.sequences /\ held[f].ready /\ (fast[f].dirty \/ b.modes[f] # "Repeat") =>
                  ~built[f].dirty /\ built[f].table = held[f].table
             /\ b.sequences /\ ~fast[f].dirty /\ b.modes[f] = "Repeat" =>
                  ~built[f].dirty /\ built[f].table = fast[f].table
<1> DEFINE dirty(g) == fast[g].dirty \/ b.modes[g] # "Repeat"
           copied(g) == [dirty |-> FALSE, table |-> held[g].table]
           kept(g) == [dirty |-> dirty(g), table |-> fast[g].table]
           built == BuildFast(fast, held, b)
<1>1. ASSUME NEW g \in Fields PROVE copied(g) \in FastStates /\ kept(g) \in FastStates
  <2>1. fast[g].table \in Tables /\ held[g].table \in Tables /\ dirty(g) \in BOOLEAN
    BY DEF FastStates, TreeStates
  <2> QED
    BY <2>1 DEF FastStates
<1>2. built = [g \in Fields |-> IF ~b.sequences THEN fast[g]
                                ELSE IF held[g].ready /\ dirty(g) THEN copied(g) ELSE kept(g)]
  BY DEF BuildFast
<1>3. /\ copied(f).dirty = FALSE /\ copied(f).table = held[f].table
      /\ kept(f).dirty = dirty(f) /\ kept(f).table = fast[f].table
  OBVIOUS
<1>4. dirty(f) <=> fast[f].dirty \/ b.modes[f] # "Repeat"
  OBVIOUS
<1> HIDE DEF dirty, copied, kept, built
<1>5. built \in [Fields -> FastStates]
  BY <1>1, <1>2
<1>6. built[f] = IF ~b.sequences THEN fast[f]
                 ELSE IF held[f].ready /\ dirty(f) THEN copied(f) ELSE kept(f)
  BY <1>2
<1>7. b.sequences /\ held[f].ready /\ (fast[f].dirty \/ b.modes[f] # "Repeat") =>
        ~built[f].dirty /\ built[f].table = held[f].table
  BY <1>3, <1>4, <1>6
<1>8. b.sequences /\ ~fast[f].dirty /\ b.modes[f] = "Repeat" =>
        ~built[f].dirty /\ built[f].table = fast[f].table
  BY <1>3, <1>4, <1>6
<1> QED
  BY <1>5, <1>6, <1>7, <1>8 DEF built

\* The fast copies follow the tables through a block, sound or not.
LEMMA FastStaysCurrent ==
  ASSUME NEW fields \in [Fields -> TreeStates], NEW fast \in [Fields -> FastStates],
         NEW b \in Blocks, FastIsCurrent(fields, fast)
  PROVE  LET read == ReadFields(fields, b, FieldCount)
         IN  FastIsCurrent(read, BuildFast(fast, read, b))
<1> DEFINE read == ReadFields(fields, b, FieldCount)
           built == BuildFast(fast, read, b)
<1> SUFFICES ASSUME NEW f \in Fields, read[f].ready
             PROVE  ~built[f].dirty /\ built[f].table = read[f].table
  BY DEF FastIsCurrent
<1>1. f <= FieldCount
  BY FormatAssumption DEF Fields
<1>2. /\ read \in [Fields -> TreeStates]
      /\ b.sequences =>
           /\ read[f].ready <=> b.modes[f] # "Repeat" \/ fields[f].ready
           /\ read[f].table = TableOf(b.modes[f], fields[f].table, b.id)
      /\ ~b.sequences => read[f] = fields[f]
  BY <1>1, FieldRead
<1> HIDE DEF read
<1>3. /\ ~b.sequences => built[f] = fast[f]
      /\ b.sequences /\ (fast[f].dirty \/ b.modes[f] # "Repeat") =>
           ~built[f].dirty /\ built[f].table = read[f].table
      /\ b.sequences /\ ~fast[f].dirty /\ b.modes[f] = "Repeat" =>
           ~built[f].dirty /\ built[f].table = fast[f].table
  BY <1>2, FastBuilt
<1> HIDE DEF built
<1>4. fields[f].ready => ~fast[f].dirty /\ fast[f].table = fields[f].table
  BY DEF FastIsCurrent
<1>5. CASE ~b.sequences
  BY <1>2, <1>3, <1>4, <1>5
<1>6. CASE b.sequences /\ b.modes[f] # "Repeat"
  BY <1>3, <1>6
<1>7. CASE b.sequences /\ b.modes[f] = "Repeat"
  <2>1. fields[f].ready /\ read[f].table = fields[f].table
    BY <1>2, <1>7 DEF TableOf
  <2> QED
    BY <1>3, <1>4, <1>7, <2>1
<1> QED
  BY <1>5, <1>6, <1>7

\* What is ready was told in this frame.
TreesOfThisFrame(huffmen) ==
  \A s \in Slots : huffmen[s].ready => huffmen[s].table \in Nat /\ huffmen[s].table > base

FieldsOfThisFrame(fields) ==
  \A f \in Fields : fields[f].ready => fields[f].table = PredefinedTable \/ fields[f].table > base

LEMMA TablesStayOfThisFrame ==
  ASSUME NEW huffmen \in [Slots -> TreeStates], NEW fields \in [Fields -> TreeStates],
         NEW b \in Blocks, b.id > base, NEW slot \in Slots,
         TreesOfThisFrame(huffmen), FieldsOfThisFrame(fields)
  PROVE  /\ TreesOfThisFrame(ReadLiterals(huffmen, slot, b))
         /\ FieldsOfThisFrame(ReadFields(fields, b, FieldCount))
<1>1. b.id \in Nat
  BY BlockFacts
<1>2. TreesOfThisFrame(ReadLiterals(huffmen, slot, b))
  BY <1>1 DEF TreesOfThisFrame, ReadLiterals
<1> DEFINE read == ReadFields(fields, b, FieldCount)
<1>3. ASSUME NEW f \in Fields, read[f].ready
      PROVE  read[f].table = PredefinedTable \/ read[f].table > base
  <2>1. f <= FieldCount
    BY FormatAssumption DEF Fields
  <2>2. /\ b.sequences =>
             /\ read[f].ready <=> b.modes[f] # "Repeat" \/ fields[f].ready
             /\ read[f].table = TableOf(b.modes[f], fields[f].table, b.id)
        /\ ~b.sequences => read[f] = fields[f]
    BY <2>1, FieldRead
  <2>3. read[f].ready
    BY <1>3
  <2> HIDE DEF read
  <2>4. fields[f].ready => fields[f].table = PredefinedTable \/ fields[f].table > base
    BY DEF FieldsOfThisFrame
  <2>5. CASE ~b.sequences
    BY <2>2, <2>3, <2>4, <2>5
  <2>6. CASE b.sequences /\ b.modes[f] = "Repeat"
    <3>1. fields[f].ready /\ read[f].table = fields[f].table
      BY <2>2, <2>3, <2>6 DEF TableOf
    <3> QED
      BY <2>4, <3>1
  <2>7. CASE b.sequences /\ b.modes[f] # "Repeat"
    <3>1. b.modes[f] \in {"Predefined", "Rle", "Compressed"}
      BY <2>7, BlockFacts DEF TableModes
    <3>2. read[f].table \in {PredefinedTable, b.id}
      BY <2>2, <2>7, <3>1 DEF TableOf
    <3> QED
      BY <3>2
  <2> QED
    BY <2>5, <2>6, <2>7
<1> QED
  BY <1>2, <1>3 DEF FieldsOfThisFrame

\* A reader that holds what the first n blocks say can read the next, which
\* was written for what it then holds: on either path, and with its tree in
\* either slot.
LEMMA BlockIsRead ==
  ASSUME NEW huffmen \in [Slots -> TreeStates], NEW slot \in Slots, NEW target \in Slots,
         NEW fields \in [Fields -> TreeStates], NEW fast \in [Fields -> FastStates],
         NEW before \in Nat, NEW fr, NEW n \in Nat, NEW b \in Blocks, fr[n + 1] = b,
         BlockIsSound(fr, n + 1), b.type = "Compressed",
         Holds(huffmen, slot, fields, before, fr, n),
         FastIsCurrent(fields, fast),
         b.literals # "Compressed" => target = slot,
         NEW fastPath \in BOOLEAN
  PROVE  LET trees == ReadLiterals(huffmen, target, b)
             read == ReadFields(fields, b, FieldCount)
             built == BuildFast(fast, read, b)
         IN  /\ LiteralsReadable(huffmen, target, b)
             /\ FieldsReadable(fields, b)
             /\ Holds(trees, target, read, OffsetsAfter(before, b), fr, n + 1)
             /\ b.uses = [huffman |-> IF Coded(b) THEN trees[target].table ELSE NoTable,
                          tables  |-> FieldsUsed(fastPath, built, read, b),
                          offsets |-> before]
<1> DEFINE trees == ReadLiterals(huffmen, target, b)
           read == ReadFields(fields, b, FieldCount)
           built == BuildFast(fast, read, b)
<1>1. /\ b.literals \in LiteralsTypes /\ b.sequences \in BOOLEAN
      /\ \A f \in Fields : b.modes[f] \in TableModes
      /\ b.id \in Nat /\ b.id \in Tables /\ b.id # NoTable /\ PredefinedTable # NoTable
  BY BlockFacts, FormatAssumption
<1>2. /\ HeldTree(fr, n + 1) = IF b.literals = "Compressed" THEN b.id ELSE HeldTree(fr, n)
      /\ \A f \in Fields :
           HeldTable(fr, n + 1, f) = IF b.sequences /\ b.modes[f] # "Repeat"
                                     THEN TableOf(b.modes[f], NoTable, b.id)
                                     ELSE HeldTable(fr, n, f)
      /\ HeldOffsets(fr, n + 1) = IF b.sequences THEN b.after ELSE HeldOffsets(fr, n)
  BY HeldAfterBlock
<1>3. /\ Coded(b) => HeldTree(fr, n + 1) # NoTable
      /\ b.sequences => \A f \in Fields : HeldTable(fr, n + 1, f) # NoTable
      /\ b.uses = [huffman |-> IF Coded(b) THEN HeldTree(fr, n + 1) ELSE NoTable,
                   tables  |-> [f \in Fields |-> IF b.sequences THEN HeldTable(fr, n + 1, f)
                                                                ELSE NoTable],
                   offsets |-> HeldOffsets(fr, n)]
  <2>1. (n + 1) - 1 = n
    OBVIOUS
  <2> QED
    BY <2>1 DEF BlockIsSound
<1>4. /\ huffmen[slot].ready <=> HeldTree(fr, n) # NoTable
      /\ huffmen[slot].ready => huffmen[slot].table = HeldTree(fr, n)
      /\ before = HeldOffsets(fr, n)
  BY DEF Holds
<1>5. ASSUME NEW f \in Fields
      PROVE  /\ fields[f].ready <=> HeldTable(fr, n, f) # NoTable
             /\ fields[f].ready => fields[f].table = HeldTable(fr, n, f)
  BY DEF Holds
<1>6. LiteralsReadable(huffmen, target, b)
  BY <1>2, <1>3, <1>4 DEF LiteralsReadable, Coded
<1>7. /\ trees[target].ready <=> HeldTree(fr, n + 1) # NoTable
      /\ trees[target].ready => trees[target].table = HeldTree(fr, n + 1)
  <2>1. CASE b.literals = "Compressed"
    <3>1. trees[target] = [ready |-> TRUE, table |-> b.id]
      BY <2>1 DEF ReadLiterals
    <3> HIDE DEF trees
    <3> QED
      BY <1>1, <1>2, <2>1, <3>1
  <2>2. CASE b.literals # "Compressed"
    BY <1>2, <1>4, <2>2 DEF ReadLiterals
  <2> QED
    BY <2>1, <2>2
<1>8. FieldsReadable(fields, b)
  <2> SUFFICES ASSUME b.sequences, NEW f \in Fields, b.modes[f] = "Repeat"
               PROVE  fields[f].ready
    BY DEF FieldsReadable, ReadsFields, Fields
  <2> QED
    BY <1>2, <1>3, <1>5
<1>9. ASSUME NEW f \in Fields
      PROVE  /\ read[f].ready <=> HeldTable(fr, n + 1, f) # NoTable
             /\ read[f].ready => read[f].table = HeldTable(fr, n + 1, f)
  <2>1. f <= FieldCount
    BY FormatAssumption DEF Fields
  <2>2. /\ b.sequences =>
             /\ read[f].ready <=> b.modes[f] # "Repeat" \/ fields[f].ready
             /\ read[f].table = TableOf(b.modes[f], fields[f].table, b.id)
        /\ ~b.sequences => read[f] = fields[f]
    BY <2>1, FieldRead
  <2> HIDE DEF read
  <2>3. CASE ~b.sequences
    BY <1>2, <1>5, <2>2, <2>3
  <2>4. CASE b.sequences /\ b.modes[f] = "Repeat"
    <3>1. read[f].table = fields[f].table
      BY <2>2, <2>4 DEF TableOf
    <3> QED
      BY <1>2, <1>5, <2>2, <2>4, <3>1
  <2>5. CASE b.sequences /\ b.modes[f] # "Repeat"
    <3>1. b.modes[f] \in {"Predefined", "Rle", "Compressed"}
      BY <1>1, <2>5 DEF TableModes
    <3>2. /\ TableOf(b.modes[f], fields[f].table, b.id) = TableOf(b.modes[f], NoTable, b.id)
          /\ TableOf(b.modes[f], NoTable, b.id) # NoTable
      BY <1>1, <3>1 DEF TableOf
    <3> QED
      BY <1>2, <2>2, <2>5, <3>2
  <2> QED
    BY <2>3, <2>4, <2>5
<1>10. OffsetsAfter(before, b) = HeldOffsets(fr, n + 1)
  BY <1>2, <1>4 DEF OffsetsAfter
<1>11. Holds(trees, target, read, OffsetsAfter(before, b), fr, n + 1)
  <2> HIDE DEF trees, read
  <2> QED
    BY <1>7, <1>9, <1>10 DEF Holds
<1>12. FieldsUsed(fastPath, built, read, b)
       = [f \in Fields |-> IF b.sequences THEN HeldTable(fr, n + 1, f) ELSE NoTable]
  <2>1. FastIsCurrent(read, built)
    BY FastStaysCurrent
  <2>2. ASSUME NEW f \in Fields, b.sequences
        PROVE  /\ read[f].table = HeldTable(fr, n + 1, f)
               /\ built[f].table = HeldTable(fr, n + 1, f)
    <3>1. read[f].ready
      BY <1>3, <1>9, <2>2
    <3> HIDE DEF read, built
    <3> QED
      BY <1>9, <2>1, <3>1 DEF FastIsCurrent
  <2> HIDE DEF read, built
  <2> QED
    BY <2>2 DEF FieldsUsed
<1>13. Coded(b) => trees[target].table = HeldTree(fr, n + 1)
  BY <1>3, <1>7
<1>14. b.uses = [huffman |-> IF Coded(b) THEN trees[target].table ELSE NoTable,
                 tables  |-> FieldsUsed(fastPath, built, read, b),
                 offsets |-> before]
  <2> HIDE DEF trees, read, built
  <2> QED
    BY <1>3, <1>4, <1>12, <1>13
<1> QED
  BY <1>6, <1>8, <1>11, <1>14

LEMMA ReaderTypeMeans ==
  ReaderTypeOK <=>
    /\ huffmanTables \in [Slots -> TreeStates]
    /\ currentTable \in Slots
    /\ fieldTables \in [Fields -> TreeStates]
    /\ fastTables \in [Fields -> FastStates]
    /\ readerOffsets \in Nat
    /\ reading \in {"waiting", "decoding", "done", "error"}
    /\ decoded \in Seq(Contexts)
BY DEF ReaderTypeOK, TreeStates, FastStates

LEMMA WriterUnmoved ==
  ASSUME WriterInv, UNCHANGED writerVars, damaged' = damaged, base' = base
  PROVE  WriterInv'
<1>1. /\ frame' = frame /\ complete' = complete /\ huffman' = huffman
      /\ sequenceTables' = sequenceTables /\ offsets' = offsets /\ stage' = stage
      /\ block' = block /\ bodies' = bodies
  BY DEF writerVars
<1>2. WriterTypeOK' /\ base' \in Nat /\ base' <= bodies'
  BY <1>1 DEF WriterInv, WriterTypeOK
<1>3. FrameIsSound' /\ BodiesAreNew' /\ LastIsLast'
  BY <1>1 DEF WriterInv, FrameIsSound, BodiesAreNew, LastIsLast
<1>4. BetweenBlocks' /\ InsideABlock' /\ SingleBlock'
  BY <1>1 DEF WriterInv, BetweenBlocks, InsideABlock, SingleBlock
<1>5. SplitBlock'
  BY <1>1 DEF WriterInv, SplitBlock, PiecesDone
<1> QED
  BY <1>2, <1>3, <1>4, <1>5 DEF WriterInv

\* The reader ends with the last block, and there only.
LEMMA PlaceMoves ==
  ASSUME WriterInv, damaged \in BOOLEAN, ReaderPlace, reading = "decoding",
         UNCHANGED writerVars, damaged' = damaged,
         NEW m \in 1..Len(frame), Len(decoded') = m, Finish(frame[m])
  PROVE  ReaderPlace'
<1>1. complete /\ frame' = frame /\ complete' = complete /\ Len(frame) \in Nat
  BY DEF ReaderPlace, writerVars, WriterInv, WriterTypeOK
<1>2. frame[m].last => m = Len(frame)
  BY DEF WriterInv, LastIsLast
<1>3. m = Len(frame) => frame[m].last
  BY <1>1 DEF WriterInv, LastIsLast
<1>4. reading' = IF m = Len(frame) THEN "done" ELSE "decoding"
  BY <1>2, <1>3 DEF Finish
<1> QED
  BY <1>1, <1>4 DEF ReaderPlace

LEMMA OpenFrameKeeps ==
  ASSUME IInv, complete, OpenFrame, UNCHANGED <<writerVars, pipelineVars>>
  PROVE  IInv'
<1> USE ReaderTypeMeans
<1>1. /\ WriterInv /\ ReaderTypeOK /\ damaged \in BOOLEAN /\ decoded = <<>>
      /\ damaged' = damaged /\ base' = base /\ frame' = frame /\ complete' = complete
      /\ UNCHANGED writerVars
  BY DEF IInv, ReaderInv, ReaderPlace, OpenFrame, pipelineVars, writerVars
<1>2. WriterInv'
  BY <1>1, WriterUnmoved
<1>3. /\ currentTable' = 0 /\ readerOffsets' = InitialOffsets /\ reading' = "decoding"
      /\ decoded' = <<>>
      /\ \A s \in Slots : ~huffmanTables'[s].ready
      /\ \A f \in Fields : ~fieldTables'[f].ready
  BY <1>1 DEF OpenFrame, ReaderTypeOK
<1>4. ReaderTypeOK'
  <2>1. huffmanTables' \in [Slots -> TreeStates]
    BY <1>1 DEF OpenFrame, TreeStates
  <2>2. fieldTables' \in [Fields -> TreeStates]
    BY <1>1 DEF OpenFrame, TreeStates
  <2>3. fastTables' \in [Fields -> FastStates]
    BY <1>1 DEF OpenFrame, FastStates
  <2> QED
    BY <1>1, <1>3, <2>1, <2>2, <2>3 DEF ReaderTypeOK, TreeStates, FastStates, Slots, InitialOffsets
<1>5. ReaderPlace'
  <2>1. Len(frame) > 0
    BY <1>1 DEF WriterInv, WriterTypeOK, LastIsLast
  <2> QED
    BY <1>1, <1>3, <2>1 DEF IInv, ReaderInv, ReaderPlace
<1>6. ReaderHolds'
  <2>1. Holds(huffmanTables', currentTable', fieldTables', readerOffsets', frame', 0)
    BY <1>3, HeldAtStart DEF Holds, Slots
  <2> QED
    BY <1>3, <2>1 DEF ReaderHolds
<1>7. FastCopiesAreCurrent' /\ TablesOfThisFrame'
  BY <1>3 DEF FastCopiesAreCurrent, TablesOfThisFrame
<1>8. DecodesAsWritten'
  BY <1>3 DEF DecodesAsWritten
<1> QED
  BY <1>1, <1>2, <1>4, <1>5, <1>6, <1>7, <1>8 DEF IInv, ReaderInv

\* The block at Position.
LEMMA NextBlock ==
  ASSUME IInv, Position \in DOMAIN frame
  PROVE  /\ Len(decoded) \in Nat /\ Position = Len(decoded) + 1
         /\ Position \in 1..Len(frame)
         /\ frame[Position] \in Blocks
         /\ ~damaged => BlockIsSound(frame, Position)
         /\ frame[Position].type = "Compressed" => frame[Position].id > base
<1>1. /\ decoded \in Seq(Contexts) /\ frame \in Seq(Blocks)
      /\ FrameIsSound /\ BodiesAreNew
  BY DEF IInv, WriterInv, WriterTypeOK, ReaderInv, ReaderTypeOK
<1>2. Position \in 1..Len(frame)
  BY <1>1
<1> QED
  BY <1>1, <1>2 DEF Position, FrameIsSound, BodiesAreNew

LEMMA AppendDecoded ==
  ASSUME NEW s \in Seq(Contexts), NEW c \in Contexts
  PROVE  /\ Append(s, c) \in Seq(Contexts)
         /\ Len(Append(s, c)) = Len(s) + 1
         /\ \A i \in 1..Len(s) : Append(s, c)[i] = s[i]
         /\ Append(s, c)[Len(s) + 1] = c
<1> DEFINE S == Contexts
<1>1. s \in Seq(S) /\ c \in S
  OBVIOUS
<1> HIDE DEF S
<1>2. /\ Append(s, c) \in Seq(S)
      /\ Len(Append(s, c)) = Len(s) + 1
      /\ \A i \in 1..Len(s) : Append(s, c)[i] = s[i]
      /\ Append(s, c)[Len(s) + 1] = c
  BY <1>1, AppendProperties
<1> QED
  BY <1>2 DEF S

LEMMA FreshContextType == FreshContext \in Contexts
BY DEF FreshContext, Contexts, Tables, InitialOffsets

\* One more block was read with what it was written for.
LEMMA ReadAsWritten ==
  ASSUME DecodesAsWritten, decoded \in Seq(Contexts), frame \in Seq(Blocks),
         frame' = frame, damaged' = damaged,
         NEW c \in Contexts, decoded' = Append(decoded, c),
         Len(decoded) + 1 \in 1..Len(frame),
         ~damaged => c = frame[Len(decoded) + 1].uses
  PROVE  DecodesAsWritten'
<1>1. /\ Len(decoded') = Len(decoded) + 1
      /\ DOMAIN decoded' = 1..Len(decoded) + 1
      /\ \A i \in 1..Len(decoded) : decoded'[i] = decoded[i]
      /\ decoded'[Len(decoded) + 1] = c
      /\ Len(decoded) \in Nat /\ DOMAIN frame = 1..Len(frame) /\ DOMAIN decoded = 1..Len(decoded)
  <2>1. decoded' \in Seq(Contexts)
    BY AppendDecoded
  <2> QED
    BY <2>1, AppendDecoded
<1>2. \A i \in 1..Len(decoded) + 1 : i \in 1..Len(decoded) \/ i = Len(decoded) + 1
  BY <1>1
<1> QED
  BY <1>1, <1>2 DEF DecodesAsWritten

LEMMA DecodePlainBlockKeeps ==
  ASSUME IInv, DecodePlainBlock(frame), UNCHANGED <<writerVars, pipelineVars>>
  PROVE  IInv'
<1> DEFINE n == Len(decoded)
           b == frame[Position]
<1>1. /\ WriterInv /\ ReaderTypeOK /\ damaged \in BOOLEAN /\ ReaderPlace
      /\ frame \in Seq(Blocks) /\ decoded \in Seq(Contexts)
      /\ damaged' = damaged /\ base' = base /\ frame' = frame /\ UNCHANGED writerVars
  BY DEF IInv, ReaderInv, pipelineVars, writerVars, WriterInv, WriterTypeOK, ReaderTypeOK
<1>2. /\ reading = "decoding" /\ b.type \in {"Raw", "Rle"} /\ Position \in DOMAIN frame
      /\ decoded' = Append(decoded, FreshContext) /\ Finish(b)
      /\ huffmanTables' = huffmanTables /\ currentTable' = currentTable /\ fieldTables' = fieldTables
      /\ fastTables' = fastTables /\ readerOffsets' = readerOffsets
  BY DEF DecodePlainBlock
<1>3. /\ n \in Nat /\ Position = n + 1 /\ n + 1 \in 1..Len(frame)
      /\ ~damaged => BlockIsSound(frame, n + 1)
  BY <1>2, NextBlock
<1>4. decoded' \in Seq(Contexts) /\ Len(decoded') = n + 1
  BY <1>1, <1>2, AppendDecoded, FreshContextType
<1>5. WriterInv'
  BY <1>1, WriterUnmoved
<1>6. reading' \in {"decoding", "done"}
  BY <1>2 DEF Finish
<1>7. ReaderTypeOK'
  BY <1>1, <1>2, <1>4, <1>6 DEF ReaderTypeOK
<1>8. ReaderPlace'
  BY <1>1, <1>2, <1>3, <1>4, PlaceMoves
<1>9. ASSUME ~damaged
      PROVE  b.literals = "Raw" /\ b.sequences = FALSE /\ FreshContext = b.uses
  <2>1. b.type # "Compressed" /\ b = frame[n + 1] /\ b \in Blocks
    BY <1>2, <1>3, NextBlock
  <2>2. BlockIsSound(frame, n + 1)
    BY <1>3, <1>9
  <2>3. b.sequences \in BOOLEAN
    BY <2>1, BlockFacts
  <2> HIDE DEF b, n
  <2> QED
    BY <2>1, <2>2, <2>3 DEF BlockIsSound
<1>10. ReaderHolds'
  <2> SUFFICES ASSUME ~damaged
               PROVE  Holds(huffmanTables, currentTable, fieldTables, readerOffsets, frame, n + 1)
    BY <1>1, <1>2, <1>4 DEF ReaderHolds
  <2>1. Holds(huffmanTables, currentTable, fieldTables, readerOffsets, frame, n)
    BY <1>2 DEF IInv, ReaderInv, ReaderHolds
  <2>2. frame[n + 1].literals = "Raw" /\ frame[n + 1].sequences = FALSE
    BY <1>3, <1>9
  <2>3. /\ HeldTree(frame, n + 1) = HeldTree(frame, n)
        /\ \A f \in Fields : HeldTable(frame, n + 1, f) = HeldTable(frame, n, f)
        /\ HeldOffsets(frame, n + 1) = HeldOffsets(frame, n)
    <3> HIDE DEF n
    <3> QED
      BY <1>3, <2>2, HeldAfterBlock
  <2> HIDE DEF n
  <2> QED
    BY <2>1, <2>3 DEF Holds
<1>11. FastCopiesAreCurrent' /\ TablesOfThisFrame'
  BY <1>1, <1>2 DEF IInv, ReaderInv, FastCopiesAreCurrent, TablesOfThisFrame
<1>12. DecodesAsWritten'
  <2>1. ~damaged => FreshContext = frame[n + 1].uses
    BY <1>3, <1>9
  <2> QED
    BY <1>1, <1>2, <1>3, <2>1, ReadAsWritten, FreshContextType DEF IInv, ReaderInv
<1> QED
  BY <1>1, <1>5, <1>7, <1>8, <1>10, <1>11, <1>12 DEF IInv, ReaderInv

LEMMA ReadFieldsType ==
  ASSUME NEW fields \in [Fields -> TreeStates], NEW b \in Blocks, NEW n
  PROVE  ReadFields(fields, b, n) \in [Fields -> TreeStates]
<1>1. CASE Fields = {}
  BY <1>1 DEF ReadFields
<1>2. CASE Fields # {}
  BY <1>2, FieldRead
<1> QED
  BY <1>1, <1>2

LEMMA BuildFastType ==
  ASSUME NEW fast \in [Fields -> FastStates], NEW held \in [Fields -> TreeStates], NEW b \in Blocks
  PROVE  BuildFast(fast, held, b) \in [Fields -> FastStates]
<1>1. CASE Fields = {}
  BY <1>1 DEF BuildFast
<1>2. CASE Fields # {}
  BY <1>2, FastBuilt
<1> QED
  BY <1>1, <1>2

LEMMA ContextType ==
  ASSUME NEW tree \in Tables, NEW before \in Nat, NEW fastPath \in BOOLEAN, NEW b \in Blocks,
         NEW fast \in [Fields -> FastStates], NEW held \in [Fields -> TreeStates]
  PROVE  [huffman |-> tree, tables |-> FieldsUsed(fastPath, fast, held, b), offsets |-> before]
           \in Contexts
<1>1. NoTable \in Tables
  BY DEF Tables
<1>2. \A f \in Fields : fast[f].table \in Tables /\ held[f].table \in Tables
  BY DEF FastStates, TreeStates
<1>3. FieldsUsed(fastPath, fast, held, b) \in [Fields -> Tables]
  BY <1>1, <1>2 DEF FieldsUsed
<1> QED
  BY <1>3 DEF Contexts

LEMMA OffsetsAfterType ==
  ASSUME NEW before \in Nat, NEW b \in Blocks
  PROVE  OffsetsAfter(before, b) \in Nat
BY BlockFacts DEF OffsetsAfter

LEMMA FastIsCurrentMeans ==
  /\ FastCopiesAreCurrent <=>
       (reading \in {"decoding", "done"} => FastIsCurrent(fieldTables, fastTables))
  /\ TablesOfThisFrame <=>
       (reading \in {"decoding", "done"} =>
          TreesOfThisFrame(huffmanTables) /\ FieldsOfThisFrame(fieldTables))
BY DEF FastCopiesAreCurrent, FastIsCurrent, TablesOfThisFrame, TreesOfThisFrame, FieldsOfThisFrame

LEMMA DecodeBlockKeeps ==
  ASSUME IInv, NEW fastPath \in BOOLEAN, DecodeBlock(frame, fastPath),
         UNCHANGED <<writerVars, pipelineVars>>
  PROVE  IInv'
<1> DEFINE n == Len(decoded)
           b == frame[Position]
           trees == ReadLiterals(huffmanTables, currentTable, b)
           held == ReadFields(fieldTables, b, FieldCount)
           fast == BuildFast(fastTables, held, b)
           c == [huffman |-> HuffmanUsed(huffmanTables, currentTable, b),
                 tables  |-> FieldsUsed(fastPath, fast, held, b),
                 offsets |-> readerOffsets]
<1>1. /\ WriterInv /\ damaged \in BOOLEAN /\ ReaderPlace
      /\ frame \in Seq(Blocks)
      /\ damaged' = damaged /\ base' = base /\ frame' = frame /\ UNCHANGED writerVars
  BY DEF IInv, ReaderInv, pipelineVars, writerVars, WriterInv, WriterTypeOK
<1>2. /\ huffmanTables \in [Slots -> TreeStates] /\ currentTable \in Slots
      /\ fieldTables \in [Fields -> TreeStates] /\ fastTables \in [Fields -> FastStates]
      /\ readerOffsets \in Nat /\ decoded \in Seq(Contexts)
  BY ReaderTypeMeans DEF IInv, ReaderInv
<1>3. /\ reading = "decoding" /\ b.type = "Compressed" /\ Position \in DOMAIN frame
      /\ decoded' = Append(decoded, c) /\ Finish(b)
      /\ huffmanTables' = trees /\ currentTable' = currentTable /\ fieldTables' = held
      /\ fastTables' = fast /\ readerOffsets' = OffsetsAfter(readerOffsets, b)
  BY DEF DecodeBlock
<1>4. /\ n \in Nat /\ Position = n + 1 /\ n + 1 \in 1..Len(frame) /\ b \in Blocks
      /\ ~damaged => BlockIsSound(frame, n + 1)
      /\ b.id > base /\ b = frame[n + 1]
  BY <1>3, NextBlock
<1> HIDE DEF b, n
<1>5. /\ trees \in [Slots -> TreeStates] /\ held \in [Fields -> TreeStates]
      /\ fast \in [Fields -> FastStates] /\ OffsetsAfter(readerOffsets, b) \in Nat
  BY <1>2, <1>4, ReadLiteralsType, ReadFieldsType, BuildFastType, OffsetsAfterType
<1>6. HuffmanUsed(huffmanTables, currentTable, b) = IF Coded(b) THEN trees[currentTable].table ELSE NoTable
  BY DEF HuffmanUsed
<1> HIDE DEF trees
<1>7. c \in Contexts
  <2>1. HuffmanUsed(huffmanTables, currentTable, b) \in Tables
    BY <1>2, <1>5, <1>6 DEF TreeStates, Tables
  <2> HIDE DEF held, fast
  <2> QED
    BY <1>2, <1>4, <1>5, <2>1, ContextType
<1>8. /\ FastIsCurrent(fieldTables, fastTables)
      /\ TreesOfThisFrame(huffmanTables) /\ FieldsOfThisFrame(fieldTables)
      /\ ~damaged => Holds(huffmanTables, currentTable, fieldTables, readerOffsets, frame, n)
  BY <1>3, FastIsCurrentMeans DEF IInv, ReaderInv, ReaderHolds, n
<1>9. ~damaged =>
        /\ Holds(trees, currentTable, held, OffsetsAfter(readerOffsets, b), frame, n + 1)
        /\ c = b.uses
  <2> SUFFICES ASSUME ~damaged
               PROVE  /\ Holds(trees, currentTable, held, OffsetsAfter(readerOffsets, b), frame, n + 1)
                      /\ c = b.uses
    OBVIOUS
  <2>1. /\ BlockIsSound(frame, n + 1) /\ frame[n + 1] = b /\ b.type = "Compressed"
        /\ Holds(huffmanTables, currentTable, fieldTables, readerOffsets, frame, n)
    BY <1>3, <1>4, <1>8
  <2>2. /\ Holds(trees, currentTable, held, OffsetsAfter(readerOffsets, b), frame, n + 1)
        /\ b.uses = [huffman |-> IF Coded(b) THEN trees[currentTable].table ELSE NoTable,
                     tables  |-> FieldsUsed(fastPath, fast, held, b),
                     offsets |-> readerOffsets]
    BY <1>2, <1>4, <1>8, <2>1, BlockIsRead DEF trees
  <2> QED
    BY <1>6, <2>2
<1>10. FastIsCurrent(held, fast)
  BY <1>2, <1>4, <1>8, FastStaysCurrent
<1>11. TreesOfThisFrame(trees) /\ FieldsOfThisFrame(held)
  BY <1>2, <1>4, <1>8, TablesStayOfThisFrame DEF trees
<1> HIDE DEF held, fast, c
<1>12. decoded' \in Seq(Contexts) /\ Len(decoded') = n + 1
  BY <1>2, <1>3, <1>7, AppendDecoded DEF n
<1>13. WriterInv'
  BY <1>1, WriterUnmoved
<1>14. ReaderTypeOK'
  <2>1. reading' \in {"decoding", "done"}
    BY <1>3 DEF Finish
  <2> QED
    BY <1>2, <1>3, <1>5, <1>12, <2>1 DEF ReaderTypeOK, TreeStates, FastStates
<1>15. ReaderPlace'
  BY <1>1, <1>3, <1>4, <1>12, PlaceMoves
<1>16. ReaderHolds'
  BY <1>1, <1>3, <1>9, <1>12 DEF ReaderHolds
<1>17. FastCopiesAreCurrent'
  BY <1>3, <1>10 DEF FastCopiesAreCurrent, FastIsCurrent
<1>18. TablesOfThisFrame'
  BY <1>1, <1>3, <1>11 DEF TablesOfThisFrame, TreesOfThisFrame, FieldsOfThisFrame
<1>19. DecodesAsWritten'
  <2>1. DecodesAsWritten
    BY DEF IInv, ReaderInv
  <2>2. ~damaged => c = frame[Len(decoded) + 1].uses
    BY <1>4, <1>9 DEF n
  <2>3. Len(decoded) + 1 \in 1..Len(frame)
    BY <1>4 DEF n
  <2> QED
    BY <1>1, <1>2, <1>3, <1>7, <2>1, <2>2, <2>3, ReadAsWritten
<1> QED
  BY <1>1, <1>13, <1>14, <1>15, <1>16, <1>17, <1>18, <1>19 DEF IInv, ReaderInv

\* The two blocks of a pair.
LEMMA NextPair ==
  ASSUME IInv, Pairable(frame)
  PROVE  /\ Position + 1 \in 1..Len(frame) /\ Position \in 1..Len(frame)
         /\ Position = Len(decoded) + 1 /\ Len(decoded) \in Nat
         /\ \A k \in {Position, Position + 1} :
              /\ frame[k] \in Blocks /\ frame[k].type = "Compressed" /\ Coded(frame[k])
              /\ frame[k].id > base
              /\ ~damaged => BlockIsSound(frame, k)
<1>1. /\ decoded \in Seq(Contexts) /\ frame \in Seq(Blocks)
      /\ FrameIsSound /\ BodiesAreNew
  BY DEF IInv, WriterInv, WriterTypeOK, ReaderInv, ReaderTypeOK
<1>2. Position \in 1..Len(frame) /\ Position + 1 \in 1..Len(frame)
  BY <1>1 DEF Pairable
<1>3. Position = Len(decoded) + 1 /\ Len(decoded) \in Nat
  BY <1>1 DEF Position
<1>4. \A k \in {Position, Position + 1} : frame[k].type = "Compressed" /\ Coded(frame[k])
  BY DEF Pairable
<1>5. \A k \in {Position, Position + 1} : frame[k] \in Blocks
  BY <1>1, <1>2
<1>6. \A k \in {Position, Position + 1} : frame[k].id > base /\ (~damaged => BlockIsSound(frame, k))
  BY <1>1, <1>2, <1>4 DEF FrameIsSound, BodiesAreNew
<1> QED
  BY <1>2, <1>3, <1>4, <1>5, <1>6

LEMMA SecondSlotIsASlot ==
  ASSUME currentTable \in Slots, NEW c
  PROVE  /\ SecondSlot(c) \in Slots
         /\ c.literals # "Compressed" => SecondSlot(c) = currentTable
         /\ c.literals = "Compressed" => SecondSlot(c) # currentTable
BY DEF SecondSlot, Slots

LEMMA PairDecoded ==
  ASSUME NEW s \in Seq(Contexts), NEW c \in Contexts, NEW d \in Contexts
  PROVE  /\ s \o <<c, d>> \in Seq(Contexts)
         /\ Len(s \o <<c, d>>) = Len(s) + 2
         /\ \A i \in 1..Len(s) : (s \o <<c, d>>)[i] = s[i]
         /\ (s \o <<c, d>>)[Len(s) + 1] = c
         /\ (s \o <<c, d>>)[Len(s) + 2] = d
<1> DEFINE S == Contexts
<1>1. s \in Seq(S) /\ c \in S /\ d \in S
  OBVIOUS
<1> HIDE DEF S
<1> DEFINE t == <<c, d>>
<1>2. t \in Seq(S) /\ Len(t) = 2 /\ t[1] = c /\ t[2] = d
  <2>1. t \in Seq(S)
    BY <1>1
  <2> QED
    BY <2>1
<1> HIDE DEF t
<1>3. /\ s \o t \in Seq(S)
      /\ Len(s \o t) = Len(s) + Len(t)
      /\ \A i \in 1..Len(s) + Len(t) : (s \o t)[i] = IF i <= Len(s) THEN s[i] ELSE t[i - Len(s)]
  BY <1>1, <1>2, ConcatProperties
<1>4. Len(s) \in Nat
  BY <1>1
<1>5. \A i \in 1..Len(s) : (s \o t)[i] = s[i]
  BY <1>2, <1>3, <1>4
<1>6. (s \o t)[Len(s) + 1] = c
  <2>1. Len(s) + 1 \in 1..Len(s) + 2 /\ ~(Len(s) + 1 <= Len(s)) /\ (Len(s) + 1) - Len(s) = 1
    BY <1>4
  <2> QED
    BY <1>2, <1>3, <2>1
<1>7. (s \o t)[Len(s) + 2] = d
  <2>1. Len(s) + 2 \in 1..Len(s) + 2 /\ ~(Len(s) + 2 <= Len(s)) /\ (Len(s) + 2) - Len(s) = 2
    BY <1>4
  <2> QED
    BY <1>2, <1>3, <2>1
<1> QED
  BY <1>2, <1>3, <1>5, <1>6, <1>7 DEF S, t

LEMMA PairReadAsWritten ==
  ASSUME DecodesAsWritten, decoded \in Seq(Contexts), frame \in Seq(Blocks),
         frame' = frame, damaged' = damaged,
         NEW c \in Contexts, NEW d \in Contexts, decoded' = decoded \o <<c, d>>,
         Len(decoded) + 2 \in 1..Len(frame),
         ~damaged => c = frame[Len(decoded) + 1].uses /\ d = frame[Len(decoded) + 2].uses
  PROVE  DecodesAsWritten'
<1> DEFINE n == Len(decoded)
<1>1. /\ decoded' \in Seq(Contexts) /\ Len(decoded') = n + 2
      /\ \A i \in 1..n : decoded'[i] = decoded[i]
      /\ decoded'[n + 1] = c /\ decoded'[n + 2] = d
  BY PairDecoded
<1>2. /\ DOMAIN decoded' = 1..n + 2 /\ n \in Nat
      /\ DOMAIN frame = 1..Len(frame) /\ DOMAIN decoded = 1..n
  BY <1>1
<1>3. \A i \in 1..n + 2 : i \in 1..n \/ i = n + 1 \/ i = n + 2
  BY <1>2
<1>4. n + 1 \in DOMAIN frame /\ n + 2 \in DOMAIN frame
  BY <1>2
<1> HIDE DEF n
<1> QED
  BY <1>1, <1>2, <1>3, <1>4 DEF DecodesAsWritten, n

LEMMA DecodePairKeeps ==
  ASSUME IInv, NEW firstFast \in BOOLEAN, NEW secondFast \in BOOLEAN,
         DecodePair(frame, firstFast, secondFast), UNCHANGED <<writerVars, pipelineVars>>
  PROVE  IInv'
<1> DEFINE n == Len(decoded)
           b == frame[Position]
           c == frame[Position + 1]
           slot == SecondSlot(c)
           trees == ReadLiterals(huffmanTables, currentTable, b)
           held1 == ReadFields(fieldTables, b, FieldCount)
           fast1 == BuildFast(fastTables, held1, b)
           middle == OffsetsAfter(readerOffsets, b)
           both == ReadLiterals(trees, slot, c)
           held2 == ReadFields(held1, c, FieldCount)
           fast2 == BuildFast(fast1, held2, c)
           after == OffsetsAfter(middle, c)
           first == [huffman |-> both[currentTable].table,
                     tables  |-> FieldsUsed(firstFast, fast1, held1, b),
                     offsets |-> readerOffsets]
           second == [huffman |-> both[slot].table,
                      tables  |-> FieldsUsed(secondFast, fast2, held2, c),
                      offsets |-> middle]
<1>1. /\ WriterInv /\ damaged \in BOOLEAN /\ ReaderPlace
      /\ frame \in Seq(Blocks)
      /\ damaged' = damaged /\ base' = base /\ frame' = frame /\ UNCHANGED writerVars
  BY DEF IInv, ReaderInv, pipelineVars, writerVars, WriterInv, WriterTypeOK
<1>2. /\ huffmanTables \in [Slots -> TreeStates] /\ currentTable \in Slots
      /\ fieldTables \in [Fields -> TreeStates] /\ fastTables \in [Fields -> FastStates]
      /\ readerOffsets \in Nat /\ decoded \in Seq(Contexts)
  BY ReaderTypeMeans DEF IInv, ReaderInv
<1>3. /\ reading = "decoding" /\ Pairable(frame) /\ Finish(c)
      /\ huffmanTables' = both /\ currentTable' = slot /\ fieldTables' = held2
      /\ fastTables' = fast2 /\ readerOffsets' = after
      /\ decoded' = decoded \o <<first, second>>
  BY DEF DecodePair
<1>4. /\ n \in Nat /\ Position = n + 1 /\ n + 1 \in 1..Len(frame) /\ n + 2 \in 1..Len(frame)
      /\ b \in Blocks /\ c \in Blocks /\ b = frame[n + 1] /\ c = frame[n + 2]
      /\ b.type = "Compressed" /\ c.type = "Compressed" /\ Coded(b) /\ Coded(c)
      /\ b.id > base /\ c.id > base
      /\ ~damaged => BlockIsSound(frame, n + 1) /\ BlockIsSound(frame, n + 2)
  <2>1. (n + 1) + 1 = n + 2
    BY <1>3, NextPair
  <2> QED
    BY <1>3, <2>1, NextPair
<1> HIDE DEF b, c, n
<1>5. /\ slot \in Slots
      /\ c.literals # "Compressed" => slot = currentTable
      /\ c.literals = "Compressed" => slot # currentTable
  BY <1>2, SecondSlotIsASlot
<1> HIDE DEF slot
<1>6. /\ trees \in [Slots -> TreeStates] /\ held1 \in [Fields -> TreeStates]
      /\ fast1 \in [Fields -> FastStates] /\ middle \in Nat
  BY <1>2, <1>4, ReadLiteralsType, ReadFieldsType, BuildFastType, OffsetsAfterType
<1>7. both[currentTable] = trees[currentTable]
  <2> HIDE DEF trees
  <2> QED
    BY <1>2, <1>5, <1>6 DEF ReadLiterals
<1>8. /\ FastIsCurrent(fieldTables, fastTables)
      /\ TreesOfThisFrame(huffmanTables) /\ FieldsOfThisFrame(fieldTables)
      /\ ~damaged => Holds(huffmanTables, currentTable, fieldTables, readerOffsets, frame, n)
  BY <1>3, FastIsCurrentMeans DEF IInv, ReaderInv, ReaderHolds, n
<1>9. FastIsCurrent(held1, fast1)
  BY <1>2, <1>4, <1>8, FastStaysCurrent
<1>10. TreesOfThisFrame(trees) /\ FieldsOfThisFrame(held1)
  BY <1>2, <1>4, <1>8, TablesStayOfThisFrame
<1>11. ASSUME ~damaged
       PROVE  /\ Holds(trees, currentTable, held1, middle, frame, n + 1)
              /\ b.uses = [huffman |-> IF Coded(b) THEN trees[currentTable].table ELSE NoTable,
                           tables  |-> FieldsUsed(firstFast, fast1, held1, b),
                           offsets |-> readerOffsets]
  <2>1. /\ BlockIsSound(frame, n + 1) /\ frame[n + 1] = b
        /\ Holds(huffmanTables, currentTable, fieldTables, readerOffsets, frame, n)
    BY <1>4, <1>8, <1>11
  <2> QED
    BY <1>2, <1>4, <1>8, <2>1, BlockIsRead
<1> HIDE DEF trees, held1, fast1, middle
<1>12. /\ both \in [Slots -> TreeStates] /\ held2 \in [Fields -> TreeStates]
       /\ fast2 \in [Fields -> FastStates] /\ after \in Nat
  BY <1>4, <1>5, <1>6, ReadLiteralsType, ReadFieldsType, BuildFastType, OffsetsAfterType
<1>13. FastIsCurrent(held2, fast2)
  BY <1>4, <1>6, <1>9, FastStaysCurrent
<1>14. TreesOfThisFrame(both) /\ FieldsOfThisFrame(held2)
  BY <1>4, <1>5, <1>6, <1>10, TablesStayOfThisFrame
<1>15. ASSUME ~damaged
       PROVE  /\ Holds(both, slot, held2, after, frame, n + 2)
              /\ c.uses = [huffman |-> IF Coded(c) THEN both[slot].table ELSE NoTable,
                           tables  |-> FieldsUsed(secondFast, fast2, held2, c),
                           offsets |-> middle]
  <2> DEFINE m == n + 1
  <2>1. m \in Nat /\ m + 1 = n + 2
    BY <1>4
  <2>2. /\ BlockIsSound(frame, m + 1) /\ frame[m + 1] = c
        /\ Holds(trees, currentTable, held1, middle, frame, m)
    BY <1>4, <1>11, <1>15, <2>1
  <2> HIDE DEF m
  <2>3. /\ Holds(both, slot, held2, after, frame, m + 1)
        /\ c.uses = [huffman |-> IF Coded(c) THEN both[slot].table ELSE NoTable,
                     tables  |-> FieldsUsed(secondFast, fast2, held2, c),
                     offsets |-> middle]
    BY <1>2, <1>4, <1>5, <1>6, <1>9, <2>1, <2>2, BlockIsRead
  <2> QED
    BY <2>1, <2>3
<1> HIDE DEF both, held2, fast2, after
<1>16. first \in Contexts /\ second \in Contexts
  <2>1. both[currentTable].table \in Tables /\ both[slot].table \in Tables
    BY <1>2, <1>5, <1>12 DEF TreeStates
  <2> QED
    BY <1>2, <1>4, <1>6, <1>12, <2>1, ContextType
<1>17. ~damaged => first = b.uses /\ second = c.uses
  BY <1>4, <1>7, <1>11, <1>15
<1> HIDE DEF first, second
<1>18. decoded' \in Seq(Contexts) /\ Len(decoded') = n + 2
  BY <1>2, <1>3, <1>16, PairDecoded DEF n
<1>19. WriterInv'
  BY <1>1, WriterUnmoved
<1>20. ReaderTypeOK'
  <2>1. reading' \in {"decoding", "done"}
    BY <1>3 DEF Finish
  <2> QED
    BY <1>3, <1>5, <1>12, <1>18, <2>1 DEF ReaderTypeOK, TreeStates, FastStates
<1>21. ReaderPlace'
  BY <1>1, <1>3, <1>4, <1>18, PlaceMoves
<1>22. ReaderHolds'
  BY <1>1, <1>3, <1>15, <1>18 DEF ReaderHolds
<1>23. FastCopiesAreCurrent'
  BY <1>3, <1>13 DEF FastCopiesAreCurrent, FastIsCurrent
<1>24. TablesOfThisFrame'
  BY <1>1, <1>3, <1>14 DEF TablesOfThisFrame, TreesOfThisFrame, FieldsOfThisFrame
<1>25. DecodesAsWritten'
  <2>1. DecodesAsWritten
    BY DEF IInv, ReaderInv
  <2>2. ~damaged => first = frame[Len(decoded) + 1].uses /\ second = frame[Len(decoded) + 2].uses
    BY <1>4, <1>17 DEF n
  <2>3. Len(decoded) + 2 \in 1..Len(frame)
    BY <1>4 DEF n
  <2> QED
    BY <1>1, <1>2, <1>3, <1>16, <2>1, <2>2, <2>3, PairReadAsWritten
<1> QED
  BY <1>1, <1>19, <1>20, <1>21, <1>22, <1>23, <1>24, <1>25 DEF IInv, ReaderInv

\* Nothing refuses a frame that is not damaged.
LEMMA OnlyDamagedIsRefused ==
  ASSUME IInv, NEW n, RejectBlock(frame, damaged, n) \/ RejectPair(frame, damaged, n)
  PROVE  damaged
<1> SUFFICES ASSUME ~damaged PROVE FALSE
  OBVIOUS
<1> DEFINE m == Len(decoded)
           b == frame[Position]
<1>1. /\ huffmanTables \in [Slots -> TreeStates] /\ currentTable \in Slots
      /\ fieldTables \in [Fields -> TreeStates] /\ fastTables \in [Fields -> FastStates]
      /\ readerOffsets \in Nat
  BY ReaderTypeMeans DEF IInv, ReaderInv
<1>2. reading = "decoding"
  BY DEF RejectBlock, RejectPair
<1>3. /\ FastIsCurrent(fieldTables, fastTables)
      /\ Holds(huffmanTables, currentTable, fieldTables, readerOffsets, frame, m)
  BY <1>2, FastIsCurrentMeans DEF IInv, ReaderInv, ReaderHolds
<1>4. Position \in DOMAIN frame /\ b.type = "Compressed"
  BY DEF RejectBlock, RejectPair, Pairable
<1>5. /\ m \in Nat /\ Position = m + 1 /\ b \in Blocks /\ b = frame[m + 1]
      /\ BlockIsSound(frame, m + 1)
  BY <1>4, NextBlock
<1> HIDE DEF b, m
<1> DEFINE trees == ReadLiterals(huffmanTables, currentTable, b)
           held == ReadFields(fieldTables, b, FieldCount)
           fast == BuildFast(fastTables, held, b)
           middle == OffsetsAfter(readerOffsets, b)
<1>6. /\ LiteralsReadable(huffmanTables, currentTable, b) /\ FieldsReadable(fieldTables, b)
      /\ Holds(trees, currentTable, held, middle, frame, m + 1)
  <2>1. PICK fastPath \in BOOLEAN : TRUE
    OBVIOUS
  <2> QED
    BY <1>1, <1>3, <1>4, <1>5, BlockIsRead
<1>7. ~BlockRefused(frame)
  BY <1>6 DEF BlockRefused, b
<1>8. ASSUME Pairable(frame) PROVE ~PairRefused(frame)
  <2> DEFINE c == frame[Position + 1]
             slot == SecondSlot(c)
             p == m + 1
  <2>1. /\ c \in Blocks /\ c.type = "Compressed" /\ p \in Nat /\ frame[p + 1] = c
        /\ BlockIsSound(frame, p + 1)
    BY <1>5, <1>8, NextPair
  <2> HIDE DEF c
  <2>2. slot \in Slots /\ (c.literals # "Compressed" => slot = currentTable)
    BY <1>1, SecondSlotIsASlot
  <2> HIDE DEF slot
  <2>3. /\ trees \in [Slots -> TreeStates] /\ held \in [Fields -> TreeStates]
        /\ fast \in [Fields -> FastStates] /\ middle \in Nat
    BY <1>1, <1>5, ReadLiteralsType, ReadFieldsType, BuildFastType, OffsetsAfterType
  <2>4. FastIsCurrent(held, fast)
    BY <1>1, <1>3, <1>5, FastStaysCurrent
  <2>5. Holds(trees, currentTable, held, middle, frame, p)
    BY <1>6
  <2> HIDE DEF trees, held, fast, middle, p
  <2>6. LiteralsReadable(trees, slot, c) /\ FieldsReadable(held, c)
    <3>1. PICK fastPath \in BOOLEAN : TRUE
      OBVIOUS
    <3> QED
      BY <1>1, <2>1, <2>2, <2>3, <2>4, <2>5, BlockIsRead
  <2> QED
    BY <1>7, <2>6 DEF PairRefused, b, c, slot, trees, held
<1> QED
  BY <1>7, <1>8 DEF RejectBlock, RejectPair

LEMMA RejectKeeps ==
  ASSUME IInv, NEW n, RejectBlock(frame, damaged, n) \/ RejectPair(frame, damaged, n),
         UNCHANGED <<writerVars, pipelineVars>>
  PROVE  IInv'
<1> DEFINE b == frame[Position]
           c == frame[Position + 1]
<1>1. /\ WriterInv /\ damaged \in BOOLEAN /\ ReaderPlace
      /\ damaged' = damaged /\ base' = base /\ frame' = frame /\ complete' = complete
      /\ UNCHANGED writerVars
  BY DEF IInv, ReaderInv, pipelineVars, writerVars
<1>2. /\ huffmanTables \in [Slots -> TreeStates] /\ currentTable \in Slots
      /\ fieldTables \in [Fields -> TreeStates] /\ fastTables \in [Fields -> FastStates]
      /\ readerOffsets \in Nat /\ decoded \in Seq(Contexts)
  BY ReaderTypeMeans DEF IInv, ReaderInv
<1>3. damaged
  BY OnlyDamagedIsRefused
<1>4. reading = "decoding" /\ reading' = "error" /\ decoded' = decoded
  BY DEF RejectBlock, RejectPair, FailBlock, FailSequences, FailPairLiterals, FailPairSequences
<1>5. Position \in DOMAIN frame
  BY DEF RejectBlock, RejectPair, Pairable
<1>6. b \in Blocks
  BY <1>5, NextBlock
<1>7. RejectPair(frame, damaged, n) => c \in Blocks
  BY NextPair DEF RejectPair
<1>8. /\ huffmanTables' \in [Slots -> TreeStates] /\ currentTable' \in Slots
      /\ fieldTables' \in [Fields -> TreeStates] /\ fastTables' \in [Fields -> FastStates]
      /\ readerOffsets' \in Nat
  <2> HIDE DEF b, c
  <2> DEFINE trees == ReadLiterals(huffmanTables, currentTable, b)
             held == ReadFields(fieldTables, b, FieldCount)
  <2>1. /\ trees \in [Slots -> TreeStates] /\ held \in [Fields -> TreeStates]
        /\ ReadFields(fieldTables, b, n) \in [Fields -> TreeStates]
        /\ BuildFast(fastTables, held, b) \in [Fields -> FastStates]
        /\ OffsetsAfter(readerOffsets, b) \in Nat
    BY <1>2, <1>6, ReadLiteralsType, ReadFieldsType, BuildFastType, OffsetsAfterType
  <2> HIDE DEF trees, held
  <2>2. CASE RejectBlock(frame, damaged, n) /\ FailBlock(frame, n)
    BY <1>2, <2>1, <2>2 DEF FailBlock, b, trees
  <2>3. CASE RejectBlock(frame, damaged, n) /\ FailSequences(frame)
    BY <1>2, <2>1, <2>3 DEF FailSequences, b, trees, held
  <2>4. CASE RejectPair(frame, damaged, n)
    <3>1. /\ c \in Blocks /\ SecondSlot(c) \in Slots
      BY <1>2, <1>7, <2>4, SecondSlotIsASlot
    <3>2. /\ ReadLiterals(trees, SecondSlot(c), c) \in [Slots -> TreeStates]
          /\ ReadFields(held, c, n) \in [Fields -> TreeStates]
      BY <2>1, <3>1, ReadLiteralsType, ReadFieldsType
    <3>3. CASE FailPairLiterals(frame)
      BY <1>2, <2>1, <3>2, <3>3 DEF FailPairLiterals, b, c, trees
    <3>4. CASE FailPairSequences(frame, n)
      BY <1>2, <2>1, <3>1, <3>2, <3>4 DEF FailPairSequences, b, c, trees, held
    <3> QED
      BY <2>4, <3>3, <3>4 DEF RejectPair
  <2> QED
    BY <2>2, <2>3, <2>4 DEF RejectBlock
<1>9. WriterInv'
  BY <1>1, WriterUnmoved
<1>10. ReaderTypeOK'
  BY <1>2, <1>4, <1>8 DEF ReaderTypeOK, TreeStates, FastStates
<1>11. ReaderPlace'
  BY <1>1, <1>3, <1>4 DEF ReaderPlace
<1>12. ReaderHolds' /\ FastCopiesAreCurrent' /\ TablesOfThisFrame'
  BY <1>4 DEF ReaderHolds, FastCopiesAreCurrent, TablesOfThisFrame
<1>13. DecodesAsWritten'
  BY <1>1, <1>3 DEF DecodesAsWritten
<1> QED
  BY <1>1, <1>9, <1>10, <1>11, <1>12, <1>13 DEF IInv, ReaderInv

LEMMA DamageKeeps ==
  ASSUME IInv, NEW k \in DOMAIN frame, Damage(k)
  PROVE  IInv'
<1>1. /\ WriterInv /\ ReaderTypeOK /\ ReaderPlace /\ WriterTypeOK
      /\ frame \in Seq(Blocks) /\ complete /\ reading = "waiting" /\ stage = "idle" /\ block = NoBlock
  BY DEF IInv, WriterInv, ReaderInv, Damage, WriterTypeOK, LastIsLast, BetweenBlocks
<1>2. /\ damaged' = TRUE /\ complete' = complete /\ huffman' = huffman
      /\ sequenceTables' = sequenceTables /\ offsets' = offsets /\ stage' = stage
      /\ block' = block /\ bodies' = bodies /\ base' = base
      /\ huffmanTables' = huffmanTables /\ currentTable' = currentTable
      /\ fieldTables' = fieldTables /\ fastTables' = fastTables
      /\ readerOffsets' = readerOffsets /\ reading' = reading /\ decoded' = decoded
  BY DEF Damage, readerVars
<1>3. PICK d \in Blocks :
        /\ frame' = [frame EXCEPT ![k] = d]
        /\ d.type = frame[k].type /\ d.id = frame[k].id /\ d.last = frame[k].last
  <2>1. frame[k] \in Blocks
    BY <1>1
  <2>2. [frame[k] EXCEPT !.literals = "Treeless"] \in Blocks
    BY <2>1 DEF Blocks, LiteralsTypes
  <2>3. [frame[k] EXCEPT !.modes = [f \in Fields |-> "Repeat"]] \in Blocks
    BY <2>1 DEF Blocks, TableModes
  <2>4. CASE frame' = [frame EXCEPT ![k].literals = "Treeless"]
    <3> DEFINE d == [frame[k] EXCEPT !.literals = "Treeless"]
    <3>1. d.type = frame[k].type /\ d.id = frame[k].id /\ d.last = frame[k].last
      BY <2>1 DEF Blocks
    <3>2. frame' = [frame EXCEPT ![k] = d]
      BY <2>4
    <3> QED
      BY <2>2, <3>1, <3>2
  <2>5. CASE frame' = [frame EXCEPT ![k].modes = [f \in Fields |-> "Repeat"]]
    <3> DEFINE d == [frame[k] EXCEPT !.modes = [f \in Fields |-> "Repeat"]]
    <3>1. d.type = frame[k].type /\ d.id = frame[k].id /\ d.last = frame[k].last
      BY <2>1 DEF Blocks
    <3>2. frame' = [frame EXCEPT ![k] = d]
      BY <2>5
    <3> QED
      BY <2>3, <3>1, <3>2
  <2> QED
    BY <2>4, <2>5 DEF Damage
<1>4. /\ frame' \in Seq(Blocks) /\ Len(frame') = Len(frame)
      /\ \A i \in 1..Len(frame) : /\ frame'[i].type = frame[i].type
                                  /\ frame'[i].id = frame[i].id
                                  /\ frame'[i].last = frame[i].last
  <2> DEFINE B == Blocks
  <2>1. frame \in Seq(B) /\ d \in B /\ k \in 1..Len(frame)
    BY <1>1
  <2> HIDE DEF B
  <2>2. /\ [frame EXCEPT ![k] = d] \in Seq(B)
        /\ Len([frame EXCEPT ![k] = d]) = Len(frame)
        /\ \A j \in 1..Len(frame) : [frame EXCEPT ![k] = d][j] = IF j = k THEN d ELSE frame[j]
    BY <2>1, ExceptSeq
  <2> QED
    BY <1>3, <2>2 DEF B
<1>5. WriterTypeOK'
  BY <1>1, <1>2, <1>4 DEF WriterTypeOK
<1>6. FrameIsSound' /\ BodiesAreNew' /\ LastIsLast'
  <2>1. frame' # <<>>
    BY <1>1, <1>4 DEF WriterInv, LastIsLast
  <2>2. frame # <<>> /\ Len(frame) \in Nat /\ Len(frame) \in 1..Len(frame)
    BY <1>1 DEF WriterInv, LastIsLast
  <2> QED
    BY <1>1, <1>2, <1>4, <2>1, <2>2 DEF WriterInv, FrameIsSound, BodiesAreNew, LastIsLast
<1>7. BetweenBlocks' /\ InsideABlock' /\ SingleBlock' /\ SplitBlock'
  BY <1>1, <1>2 DEF BetweenBlocks, InsideABlock, SingleBlock, SplitBlock
<1>8. WriterInv'
  BY <1>1, <1>2, <1>5, <1>6, <1>7 DEF WriterInv
<1>9. ReaderTypeOK'
  BY <1>1, <1>2 DEF ReaderTypeOK
<1>10. ReaderPlace' /\ ReaderHolds' /\ FastCopiesAreCurrent' /\ TablesOfThisFrame' /\ DecodesAsWritten'
  BY <1>1, <1>2
     DEF ReaderPlace, ReaderHolds, FastCopiesAreCurrent, TablesOfThisFrame, DecodesAsWritten
<1> QED
  BY <1>2, <1>8, <1>9, <1>10 DEF IInv, ReaderInv

\* The frame and the history start again; the reader's tables do not.
LEMMA NewFrameKeeps ==
  ASSUME IInv, NewFrame
  PROVE  IInv'
<1>1. /\ WriterTypeOK /\ ReaderTypeOK
  BY DEF IInv, WriterInv, ReaderInv
<1>2. /\ frame' = <<>> /\ complete' = FALSE /\ offsets' = InitialOffsets /\ stage' = "idle"
      /\ block' = NoBlock /\ huffman' = huffman /\ sequenceTables' = sequenceTables
      /\ bodies' = bodies /\ base' = bodies /\ damaged' = FALSE
      /\ reading' = "waiting" /\ decoded' = <<>>
      /\ huffmanTables' = huffmanTables /\ currentTable' = currentTable
      /\ fieldTables' = fieldTables /\ fastTables' = fastTables /\ readerOffsets' = readerOffsets
  BY DEF NewFrame, WriterNewFrame, ReaderNewFrame
<1>3. WriterTypeOK'
  <2>1. frame' \in Seq(Blocks)
    BY <1>2
  <2>2. offsets' \in Nat
    BY <1>2 DEF InitialOffsets
  <2> QED
    BY <1>1, <1>2, <2>1, <2>2, NoBlockType DEF WriterTypeOK
<1>4. Len(frame') = 0
  BY <1>2
<1>5. FrameIsSound' /\ BodiesAreNew' /\ LastIsLast'
  BY <1>2, <1>4 DEF FrameIsSound, BodiesAreNew, LastIsLast
<1>6. BetweenBlocks' /\ InsideABlock' /\ SingleBlock' /\ SplitBlock'
  BY <1>2, <1>4, HeldAtStart DEF BetweenBlocks, InsideABlock, SingleBlock, SplitBlock
<1>7. WriterInv'
  BY <1>1, <1>2, <1>3, <1>5, <1>6 DEF WriterInv, WriterTypeOK
<1>8. ReaderTypeOK'
  BY <1>1, <1>2 DEF ReaderTypeOK
<1>9. ReaderPlace' /\ ReaderHolds' /\ FastCopiesAreCurrent' /\ TablesOfThisFrame' /\ DecodesAsWritten'
  BY <1>2
     DEF ReaderPlace, ReaderHolds, FastCopiesAreCurrent, TablesOfThisFrame, DecodesAsWritten
<1> QED
  BY <1>2, <1>7, <1>8, <1>9 DEF IInv, ReaderInv

LEMMA InitHolds == Init => IInv
<1> SUFFICES ASSUME Init PROVE IInv
  OBVIOUS
<1>1. /\ frame = <<>> /\ complete = FALSE /\ huffman = NoTable /\ offsets = InitialOffsets
      /\ sequenceTables = NewSequenceTables /\ stage = "idle" /\ block = NoBlock /\ bodies = 0
      /\ reading = "waiting" /\ decoded = <<>> /\ damaged = FALSE /\ base = 0
  BY DEF Init, WriterInit, ReaderInit
<1>2. WriterTypeOK
  <2>1. NoTable \in Tables /\ NewSequenceTables \in [Fields -> FieldStates]
    BY DEF Tables, NewSequenceTables, FieldStates, TableModes
  <2>2. frame \in Seq(Blocks)
    BY <1>1
  <2>3. offsets \in Nat
    BY <1>1 DEF InitialOffsets
  <2> QED
    BY <1>1, <2>1, <2>2, <2>3, NoBlockType DEF WriterTypeOK
<1>3. Len(frame) = 0
  BY <1>1
<1>4. FrameIsSound /\ BodiesAreNew /\ LastIsLast
  BY <1>1, <1>3 DEF FrameIsSound, BodiesAreNew, LastIsLast
<1>5. BetweenBlocks /\ InsideABlock /\ SingleBlock /\ SplitBlock
  BY <1>1, <1>3, HeldAtStart DEF BetweenBlocks, InsideABlock, SingleBlock, SplitBlock
<1>6. ReaderTypeOK
  BY DEF Init, ReaderInit, ReaderTypeOK, Tables, Slots, InitialOffsets
<1>7. ReaderPlace /\ ReaderHolds /\ FastCopiesAreCurrent /\ TablesOfThisFrame /\ DecodesAsWritten
  BY <1>1 DEF ReaderPlace, ReaderHolds, FastCopiesAreCurrent, TablesOfThisFrame, DecodesAsWritten
<1>8. base \in Nat /\ base <= bodies /\ damaged \in BOOLEAN
  <2>1. base = 0 /\ bodies = 0
    BY <1>1
  <2>2. base \in Nat /\ base <= bodies
    BY ONLY <2>1
  <2>3. damaged \in BOOLEAN
    BY <1>1, Zenon
  <2> QED
    BY <2>2, <2>3
<1>9. WriterInv
  BY <1>2, <1>4, <1>5, <1>8 DEF WriterInv
<1>10. ReaderInv
  BY <1>6, <1>7, <1>8 DEF ReaderInv
<1> QED
  BY <1>9, <1>10 DEF IInv

LEMMA NextKeeps == IInv /\ [Next]_vars => IInv'
<1> SUFFICES ASSUME IInv, [Next]_vars PROVE IInv'
  OBVIOUS
<1>1. CASE Write
  BY <1>1, WriteKeeps
<1>2. CASE \E k \in DOMAIN frame : Damage(k)
  BY <1>2, DamageKeeps
<1>3. CASE Read
  <2>1. UNCHANGED <<writerVars, pipelineVars>>
    BY <1>3 DEF Read
  <2>2. CASE complete /\ OpenFrame
    BY <2>1, <2>2, OpenFrameKeeps
  <2>3. CASE DecodePlainBlock(frame)
    BY <2>1, <2>3, DecodePlainBlockKeeps
  <2>4. CASE \E fastPath \in BOOLEAN : DecodeBlock(frame, fastPath)
    BY <2>1, <2>4, DecodeBlockKeeps
  <2>5. CASE \E firstFast, secondFast \in BOOLEAN : DecodePair(frame, firstFast, secondFast)
    BY <2>1, <2>5, DecodePairKeeps
  <2>6. CASE \E n \in 0..FieldCount : RejectBlock(frame, damaged, n) \/ RejectPair(frame, damaged, n)
    BY <2>1, <2>6, RejectKeeps
  <2> QED
    BY <1>3, <2>2, <2>3, <2>4, <2>5, <2>6 DEF Read
<1>4. CASE NewFrame
  BY <1>4, NewFrameKeeps
<1>5. CASE UNCHANGED vars
  <2>1. UNCHANGED writerVars /\ UNCHANGED readerVars /\ UNCHANGED pipelineVars
    BY <1>5 DEF vars
  <2>2. WriterInv'
    BY <2>1, WriterUnmoved DEF IInv, pipelineVars
  <2>3. ReaderTypeOK' /\ damaged' \in BOOLEAN
    BY <2>1 DEF IInv, ReaderInv, ReaderTypeOK, readerVars, pipelineVars
  <2>4. ReaderPlace' /\ ReaderHolds' /\ FastCopiesAreCurrent' /\ TablesOfThisFrame' /\ DecodesAsWritten'
    BY <2>1 DEF IInv, ReaderInv, readerVars, pipelineVars, writerVars,
                ReaderPlace, ReaderHolds, FastCopiesAreCurrent, TablesOfThisFrame, DecodesAsWritten
  <2> QED
    BY <2>2, <2>3, <2>4 DEF IInv, ReaderInv
<1> QED
  BY <1>1, <1>2, <1>3, <1>4, <1>5 DEF Next, Finished

\* The invariant of writer and reader: what both hold is what the blocks say.
THEOREM AlwaysIInv == Spec => []IInv
  BY InitHolds, NextKeeps, PTL DEF Spec

\* Every block of a frame that was not damaged is decoded with the tree, the
\* tables and the offsets its body was written for (write_block against
\* decode_block_sequence).
THEOREM AlwaysDecodesAsWritten == Spec => []DecodesAsWritten
<1>1. IInv => DecodesAsWritten
  BY DEF IInv, ReaderInv
<1> QED
  BY <1>1, AlwaysIInv, PTL

\* No frame reaches a table of an earlier one (reset_history).
THEOREM AlwaysTablesOfThisFrame == Spec => []TablesOfThisFrame
<1>1. IInv => TablesOfThisFrame
  BY DEF IInv, ReaderInv
<1> QED
  BY <1>1, AlwaysIInv, PTL

\* The fast copies are never behind the tables (FastSequenceTables::build_all).
THEOREM AlwaysFastCopiesAreCurrent == Spec => []FastCopiesAreCurrent
<1>1. IInv => FastCopiesAreCurrent
  BY DEF IInv, ReaderInv
<1> QED
  BY <1>1, AlwaysIInv, PTL

-----------------------------------------------------------------------------
(***************************************************************************)
(* The pipeline implements FrameTransfer.                                  *)
(***************************************************************************)

LEMMA PrefixOf ==
  ASSUME NEW S, NEW s \in Seq(S), NEW t \in Seq(S),
         Len(s) <= Len(t), \A i \in 1..Len(s) : t[i] = s[i]
  PROVE  Transfer!IsPrefixOf(s, t)
<1>1. Len(s) \in Nat /\ Len(t) \in Nat
  OBVIOUS
<1>2. \A i \in 1..Len(s) : i \in 1..Len(t)
  BY <1>1
<1>3. SubSeq(t, 1, Len(s)) = [i \in 1..Len(s) |-> t[i]]
  BY <1>1
<1>4. s = [i \in 1..Len(s) |-> s[i]]
  OBVIOUS
<1> QED
  BY <1>3, <1>4 DEF Transfer!IsPrefixOf

\* What the first n blocks of fr are to a reader.
UsesOf(fr, n) == [i \in 1..n |-> fr[i].uses]

SentCount == IF block = NoBlock THEN Len(frame) ELSE block.written

LEMMA SentIs == SentBlocks = UsesOf(frame, SentCount)
BY DEF SentBlocks, UsesOf, SentCount

LEMMA UsesAreContexts ==
  ASSUME NEW fr \in Seq(Blocks), NEW n \in Nat, n <= Len(fr)
  PROVE  /\ UsesOf(fr, n) \in Seq(Contexts) /\ Len(UsesOf(fr, n)) = n
         /\ \A i \in 1..n : UsesOf(fr, n)[i] = fr[i].uses
<1>1. \A i \in 1..n : fr[i] \in Blocks
  <2> TAKE i \in 1..n
  <2>1. i \in 1..Len(fr)
    OBVIOUS
  <2> QED
    BY <2>1
<1>2. \A i \in 1..n : fr[i].uses \in Contexts
  BY <1>1 DEF Blocks
<1> QED
  BY <1>2 DEF UsesOf

\* One block, or the pieces of one, becomes part of the frame.
LEMMA SendStep ==
  ASSUME NEW b, NEW n \in Nat, n <= Len(frame),
         frame \in Seq(Blocks), SentCount = n,
         frame' \in Seq(Blocks), frame' = Append(frame, b), block' = NoBlock,
         ~damaged, ~complete, stage # "aborted",
         damaged' = damaged, complete' \in BOOLEAN, stage' # "aborted",
         reading = "waiting", reading' = reading, decoded' = decoded
  PROVE  Transfer!Send
<1>1. Len(frame) \in Nat
  OBVIOUS
<1>2. Len(frame') = Len(frame) + 1 /\ \A i \in 1..Len(frame) : frame'[i] = frame[i]
  OBVIOUS
<1>3. SentBlocks = UsesOf(frame, n) /\ SentBlocks' = UsesOf(frame', Len(frame) + 1)
  BY <1>2, SentIs DEF SentBlocks, UsesOf
<1>4. /\ UsesOf(frame, n) \in Seq(Contexts) /\ Len(UsesOf(frame, n)) = n
      /\ \A i \in 1..n : UsesOf(frame, n)[i] = frame[i].uses
  BY UsesAreContexts
<1>5. Len(frame) + 1 \in Nat /\ Len(frame) + 1 <= Len(frame')
  BY <1>2
<1>6. /\ UsesOf(frame', Len(frame) + 1) \in Seq(Contexts)
      /\ Len(UsesOf(frame', Len(frame) + 1)) = Len(frame) + 1
      /\ \A i \in 1..Len(frame) + 1 : UsesOf(frame', Len(frame) + 1)[i] = frame'[i].uses
  BY <1>2, <1>5, UsesAreContexts
<1>7. \A i \in 1..n : i \in 1..Len(frame) /\ i \in 1..Len(frame) + 1
  OBVIOUS
<1>8. \A i \in 1..n : UsesOf(frame', Len(frame) + 1)[i] = UsesOf(frame, n)[i]
  BY <1>2, <1>4, <1>6, <1>7
<1>9. n <= Len(frame) + 1 /\ Len(frame) + 1 > n
  OBVIOUS
<1>10. Transfer!IsPrefixOf(UsesOf(frame, n), UsesOf(frame', Len(frame) + 1))
  BY <1>4, <1>6, <1>8, <1>9, PrefixOf
<1>11. Phase = "writing" /\ Phase' \in {"writing", "reading"}
  BY DEF Phase
<1> QED
  BY <1>3, <1>4, <1>6, <1>9, <1>10, <1>11 DEF Transfer!Send

\* What a block is written from is not yet, or no longer, part of the frame.
LEMMA SilentStep ==
  ASSUME ~damaged, ~complete, stage # "aborted",
         damaged' = damaged, ~complete', stage' # "aborted",
         decoded' = decoded, SentBlocks' = SentBlocks
  PROVE  UNCHANGED <<SentBlocks, decoded, Phase>>
<1>1. Phase = "writing" /\ Phase' = "writing"
  BY DEF Phase
<1> QED
  BY <1>1

LEMMA GiveUpStep ==
  ASSUME ~damaged, ~complete, stage # "aborted",
         damaged' = damaged, stage' = "aborted",
         decoded' = decoded, frame' = frame, block' = block
  PROVE  Transfer!GiveUp
<1>1. Phase = "writing" /\ Phase' = "given_up"
  BY DEF Phase
<1>2. SentBlocks' = SentBlocks
  BY DEF SentBlocks
<1> QED
  BY <1>1, <1>2 DEF Transfer!GiveUp

LEMMA WriteTransfers ==
  ASSUME IInv, IInv', Write
  PROVE  Transfer!Send \/ Transfer!GiveUp \/ UNCHANGED <<SentBlocks, decoded, Phase>>
<1>1. /\ reading = "waiting" /\ WriterNext
      /\ reading' = reading /\ decoded' = decoded /\ damaged' = damaged
  BY DEF Write, readerVars, pipelineVars
<1>2. /\ WriterInv /\ frame \in Seq(Blocks) /\ Len(frame) \in Nat
      /\ frame' \in Seq(Blocks) /\ block.written \in Nat /\ block.last \in BOOLEAN
      /\ damaged \in BOOLEAN /\ complete' \in BOOLEAN
  BY DEF IInv, WriterInv, WriterTypeOK, ReaderInv
<1>3. ~complete
  BY <1>1, <1>2, WriterMovesOnlyBefore
<1>4. ~damaged
  BY <1>3 DEF IInv, ReaderInv, ReaderPlace
<1>5. stage = "idle" => block = NoBlock
  BY <1>2 DEF WriterInv, BetweenBlocks
<1>6. stage \in {"pieces", "pieces_failed"} => block.written <= Len(frame) /\ block # NoBlock
  <2>1. NoBlock.found = 0
    BY DEF NoBlock
  <2>2. stage \in {"pieces", "pieces_failed"} => block.written <= Len(frame) /\ block.found > 1
    BY <1>2 DEF WriterInv, InsideABlock, SplitBlock
  <2> QED
    BY <2>1, <2>2
<1>7. stage \in {"single", "single_failed"} => SentCount = Len(frame)
  BY <1>2 DEF WriterInv, SingleBlock, SentCount
<1>8. ASSUME NEW type, NEW atStart, NEW last, WritePlainBlock(type, atStart, last)
      PROVE  Transfer!Send
  <2>1. stage = "idle" /\ stage' = stage /\ block' = block /\ frame' = Append(frame, PlainBlock(type, last))
    BY <1>8 DEF WritePlainBlock, CanBegin
  <2>2. SentCount = Len(frame)
    BY <1>5, <2>1 DEF SentCount
  <2> QED
    BY <1>1, <1>2, <1>3, <1>4, <1>5, <2>1, <2>2, SendStep
<1>9. ASSUME NEW atStart, NEW last, NEW found, NEW split, BeginBlock(atStart, last, found, split)
      PROVE  UNCHANGED <<SentBlocks, decoded, Phase>>
  <2>1. /\ stage = "idle" /\ stage' \in {"pieces", "single"} /\ frame' = frame /\ complete' = complete
        /\ block'.written = Len(frame)
    BY <1>9 DEF BeginBlock, CanBegin
  <2>2. SentCount = Len(frame) /\ SentCount' = Len(frame)
    BY <1>5, <2>1 DEF SentCount
  <2>3. SentBlocks' = SentBlocks
    BY <2>1, <2>2 DEF SentBlocks, SentCount
  <2> QED
    BY <1>1, <1>3, <1>4, <2>1, <2>3, SilentStep
<1>10. ASSUME NEW literals, NEW fourStreams, NEW modes, WritePiece(literals, fourStreams, modes)
       PROVE  Transfer!Send \/ UNCHANGED <<SentBlocks, decoded, Phase>>
  <2>1. PICK b : frame' = Append(frame, b)
    BY <1>10 DEF WritePiece, WriteBody
  <2>2. stage = "pieces" /\ stage' \in {"idle", "pieces"}
    BY <1>10 DEF WritePiece
  <2>3. SentCount = block.written /\ block.written <= Len(frame)
    BY <1>6, <2>2 DEF SentCount
  <2>4. CASE PiecesDone + 1 = block.found
    <3>1. block' = NoBlock
      BY <1>10, <2>4 DEF WritePiece
    <3> QED
      BY <1>1, <1>2, <1>3, <1>4, <2>1, <2>2, <2>3, <3>1, SendStep
  <2>5. CASE PiecesDone + 1 # block.found
    <3>1. block' = block /\ complete' = FALSE
      BY <1>10, <2>5 DEF WritePiece
    <3>2. SentCount' = block.written
      BY <1>6, <2>2, <3>1 DEF SentCount
    <3>3. \A i \in 1..block.written : frame'[i] = frame[i]
      <4>1. \A i \in 1..Len(frame) : frame'[i] = frame[i]
        BY <1>2, <2>1
      <4>2. \A i \in 1..block.written : i \in 1..Len(frame)
        BY <1>2, <2>3
      <4> QED
        BY <4>1, <4>2
    <3>4. SentBlocks' = SentBlocks
      BY <2>3, <3>2, <3>3 DEF SentBlocks, SentCount
    <3>5. ~complete' /\ stage # "aborted" /\ stage' # "aborted"
      BY <1>3, <2>2, <3>1
    <3> QED
      BY <1>1, <1>3, <1>4, <3>4, <3>5, SilentStep
  <2> QED
    BY <2>4, <2>5
<1>11. ASSUME stage \in {"pieces", "single"}, stage' \in {"pieces_failed", "single_failed"},
              frame' = frame, complete' = complete, block' = block
       PROVE  UNCHANGED <<SentBlocks, decoded, Phase>>
  <2>1. SentBlocks' = SentBlocks
    BY <1>11 DEF SentBlocks
  <2> QED
    BY <1>1, <1>3, <1>4, <1>11, <2>1, SilentStep
<1>12. ASSUME AbandonPieces
       PROVE  UNCHANGED <<SentBlocks, decoded, Phase>>
  <2>1. /\ stage = "pieces_failed" /\ stage' = "single" /\ block' = block /\ complete' = complete
        /\ frame' = SubSeq(frame, 1, block.written)
    BY <1>12 DEF AbandonPieces
  <2>2. \A i \in 1..block.written : frame'[i] = frame[i]
    <3>1. \A i \in 1..block.written : i \in 1..Len(frame)
      BY <1>2, <1>6, <2>1
    <3> QED
      BY <1>2, <2>1, <3>1
  <2>3. SentCount = block.written /\ SentCount' = block.written
    BY <1>6, <2>1 DEF SentCount
  <2>4. SentBlocks' = SentBlocks
    BY <2>2, <2>3 DEF SentBlocks, SentCount
  <2> QED
    BY <1>1, <1>3, <1>4, <2>1, <2>4, SilentStep
<1>13. ASSUME NEW b, stage \in {"single", "single_failed"}, stage' = "idle", block' = NoBlock,
              frame' = Append(frame, b)
       PROVE  Transfer!Send
  BY <1>1, <1>2, <1>3, <1>4, <1>7, <1>13, SendStep
<1>14. ASSUME stage \in {"idle", "pieces", "single", "single_failed"}, stage' = "aborted",
              frame' = frame, block' = block
       PROVE  Transfer!GiveUp
  BY <1>1, <1>3, <1>4, <1>14, GiveUpStep
<1>15. CASE \E literals \in LiteralsTypes, modes \in [Fields -> TableModes] :
              \/ \E fourStreams \in BOOLEAN :
                   \/ WritePiece(literals, fourStreams, modes)
                   \/ WriteSingle(literals, fourStreams, modes)
              \/ \E n \in 0..FieldCount :
                   \/ FailPiece(literals, modes, n)
                   \/ FailSingle(literals, modes, n)
                   \/ RunOutOfOutput(literals, modes, n)
  <2>1. PICK literals \in LiteralsTypes, modes \in [Fields -> TableModes] :
              \/ \E fourStreams \in BOOLEAN :
                   \/ WritePiece(literals, fourStreams, modes)
                   \/ WriteSingle(literals, fourStreams, modes)
              \/ \E n \in 0..FieldCount :
                   \/ FailPiece(literals, modes, n)
                   \/ FailSingle(literals, modes, n)
                   \/ RunOutOfOutput(literals, modes, n)
    BY <1>15
  <2>2. CASE \E fourStreams \in BOOLEAN : WritePiece(literals, fourStreams, modes)
    BY <1>10, <2>2
  <2>3. CASE \E fourStreams \in BOOLEAN : WriteSingle(literals, fourStreams, modes)
    BY <1>13, <2>3 DEF WriteSingle, WriteBody
  <2>4. CASE \E n \in 0..FieldCount : FailPiece(literals, modes, n)
    BY <1>11, <2>4 DEF FailPiece
  <2>5. CASE \E n \in 0..FieldCount : FailSingle(literals, modes, n)
    BY <1>11, <2>5 DEF FailSingle
  <2>6. CASE \E n \in 0..FieldCount : RunOutOfOutput(literals, modes, n)
    BY <1>14, <2>6 DEF RunOutOfOutput
  <2> QED
    BY <2>1, <2>2, <2>3, <2>4, <2>5, <2>6
<1>16. CASE WriteRawInstead
  BY <1>13, <1>16 DEF WriteRawInstead
<1>17. CASE RunOutBetweenBlocks \/ RunOutWritingRaw
  BY <1>14, <1>17 DEF RunOutBetweenBlocks, RunOutWritingRaw
<1> QED
  BY <1>1, <1>8, <1>9, <1>12, <1>15, <1>16, <1>17 DEF WriterNext

\* A block, or two, are read.
LEMMA DeliverStep ==
  ASSUME IInv, IInv', ~damaged, reading = "decoding", UNCHANGED <<writerVars, pipelineVars>>,
         reading' \in {"decoding", "done"},
         Len(decoded') \in {Len(decoded) + 1, Len(decoded) + 2},
         \A i \in 1..Len(decoded) : decoded'[i] = decoded[i]
  PROVE  Transfer!Deliver
<1>1. /\ decoded \in Seq(Contexts) /\ decoded' \in Seq(Contexts) /\ frame \in Seq(Blocks)
      /\ Len(decoded) \in Nat /\ Len(decoded') \in Nat /\ Len(frame) \in Nat
  BY DEF IInv, WriterInv, WriterTypeOK, ReaderInv, ReaderTypeOK
<1>2. /\ frame' = frame /\ complete' = complete /\ stage' = stage /\ block' = block
      /\ damaged' = damaged
  BY DEF writerVars, pipelineVars
<1>3. complete /\ stage = "idle" /\ block = NoBlock
  BY DEF IInv, WriterInv, ReaderInv, ReaderPlace, LastIsLast, BetweenBlocks
<1>4. Transfer!IsPrefixOf(decoded, decoded')
  BY <1>1, PrefixOf
<1>5. SentBlocks = UsesOf(frame, Len(frame)) /\ SentBlocks' = SentBlocks
  BY <1>2, <1>3 DEF SentBlocks, UsesOf
<1>6. /\ UsesOf(frame, Len(frame)) \in Seq(Contexts) /\ Len(UsesOf(frame, Len(frame))) = Len(frame)
      /\ \A i \in 1..Len(frame) : UsesOf(frame, Len(frame))[i] = frame[i].uses
  BY <1>1, UsesAreContexts
<1>7. /\ reading' = "decoding" => Len(decoded') < Len(frame)
      /\ reading' = "done" => Len(decoded') = Len(frame)
  BY <1>2 DEF IInv, ReaderInv, ReaderPlace
<1>8. Len(decoded') <= Len(frame)
  BY <1>1, <1>7
<1>9. \A i \in 1..Len(decoded') : UsesOf(frame, Len(frame))[i] = decoded'[i]
  <2>1. \A i \in 1..Len(decoded') : decoded'[i] = frame[i].uses
    BY <1>1, <1>2 DEF IInv, ReaderInv, DecodesAsWritten
  <2>2. \A i \in 1..Len(decoded') : i \in 1..Len(frame)
    BY <1>1, <1>8
  <2> QED
    BY <1>6, <2>1, <2>2
<1>10. Transfer!IsPrefixOf(decoded', SentBlocks)
  BY <1>1, <1>5, <1>6, <1>8, <1>9, PrefixOf
<1>11. Phase = "reading"
  BY <1>3 DEF Phase
<1>12. Phase' = IF Len(decoded') = Len(SentBlocks) THEN "received" ELSE "reading"
  <2>1. Phase' = IF reading' = "done" THEN "received" ELSE "reading"
    BY <1>2, <1>3 DEF Phase
  <2>2. reading' = "done" <=> Len(decoded') = Len(frame)
    BY <1>1, <1>7
  <2> QED
    BY <1>5, <1>6, <2>1, <2>2
<1> QED
  BY <1>4, <1>5, <1>10, <1>11, <1>12 DEF Transfer!Deliver

LEMMA ReadTransfers ==
  ASSUME IInv, IInv', Read
  PROVE  Transfer!Deliver \/ Transfer!ReadDamaged \/ UNCHANGED <<SentBlocks, decoded, Phase>>
<1>1. /\ UNCHANGED <<writerVars, pipelineVars>>
      /\ decoded \in Seq(Contexts) /\ decoded' \in Seq(Contexts) /\ Len(decoded) \in Nat
  BY DEF IInv, ReaderInv, ReaderTypeOK, Read
<1>2. /\ frame' = frame /\ complete' = complete /\ stage' = stage /\ block' = block
      /\ damaged' = damaged
  BY <1>1 DEF writerVars, pipelineVars
<1>3. SentBlocks' = SentBlocks
  BY <1>2 DEF SentBlocks
<1>4. CASE damaged
  <2>1. Phase = "damaged" /\ Phase' = "damaged"
    BY <1>2, <1>4 DEF Phase
  <2> QED
    BY <1>3, <2>1 DEF Transfer!ReadDamaged
<1>5. CASE ~damaged /\ complete /\ OpenFrame
  <2>1. stage # "aborted"
    BY <1>5 DEF IInv, WriterInv, LastIsLast
  <2>2. reading = "waiting" /\ reading' = "decoding" /\ decoded' = decoded
    BY <1>5 DEF OpenFrame
  <2>3. Phase' = Phase
    BY <1>2, <1>5, <2>1, <2>2 DEF Phase
  <2> QED
    BY <1>3, <2>2, <2>3
<1>6. ASSUME NEW c, ~damaged, reading = "decoding", decoded' = Append(decoded, c),
             reading' \in {"decoding", "done"}
      PROVE  Transfer!Deliver
  <2>1. Len(decoded') = Len(decoded) + 1 /\ \A i \in 1..Len(decoded) : decoded'[i] = decoded[i]
    BY <1>1, <1>6
  <2> QED
    BY <1>1, <1>6, <2>1, DeliverStep
<1>7. CASE ~damaged /\ DecodePlainBlock(frame)
  BY <1>6, <1>7 DEF DecodePlainBlock, Finish
<1>8. CASE ~damaged /\ \E fastPath \in BOOLEAN : DecodeBlock(frame, fastPath)
  <2>1. PICK fastPath \in BOOLEAN : DecodeBlock(frame, fastPath)
    BY <1>8
  <2>2. reading = "decoding" /\ reading' \in {"decoding", "done"}
    BY <2>1 DEF DecodeBlock, Finish
  <2>3. \E c : decoded' = Append(decoded, c)
    BY <2>1 DEF DecodeBlock
  <2> QED
    BY <1>6, <1>8, <2>2, <2>3
<1>9. CASE ~damaged /\ \E firstFast, secondFast \in BOOLEAN : DecodePair(frame, firstFast, secondFast)
  <2>1. PICK firstFast \in BOOLEAN, secondFast \in BOOLEAN : DecodePair(frame, firstFast, secondFast)
    BY <1>9
  <2>2. reading = "decoding" /\ reading' \in {"decoding", "done"}
    BY <2>1 DEF DecodePair, Finish
  <2>3. PICK c, d : decoded' = decoded \o <<c, d>>
    BY <2>1 DEF DecodePair
  <2>4. Len(decoded') = Len(decoded) + 2 /\ \A i \in 1..Len(decoded) : decoded'[i] = decoded[i]
    BY <1>1, <2>3
  <2> QED
    BY <1>1, <1>9, <2>2, <2>4, DeliverStep
<1>10. CASE \E n \in 0..FieldCount : RejectBlock(frame, damaged, n) \/ RejectPair(frame, damaged, n)
  BY <1>4, <1>10, OnlyDamagedIsRefused
<1> QED
  BY <1>4, <1>5, <1>7, <1>8, <1>9, <1>10 DEF Read

LEMMA DamageTransfers ==
  ASSUME IInv, NEW k \in DOMAIN frame, Damage(k)
  PROVE  Transfer!Damage
<1>1. /\ complete /\ reading = "waiting" /\ ~damaged /\ damaged' = TRUE
      /\ stage = "idle" /\ block = NoBlock /\ frame \in Seq(Blocks)
      /\ block' = block /\ decoded' = decoded
  BY DEF IInv, WriterInv, WriterTypeOK, LastIsLast, BetweenBlocks, Damage, readerVars
<1>2. Phase = "reading" /\ Phase' = "damaged"
  BY <1>1 DEF Phase
<1>3. Len(frame') = Len(frame) /\ \A i \in 1..Len(frame) : frame'[i].uses = frame[i].uses
  <2>1. \A i \in 1..Len(frame) : frame[i] \in Blocks
    BY <1>1
  <2>2. CASE frame' = [frame EXCEPT ![k].literals = "Treeless"]
    BY <1>1, <2>1, <2>2 DEF Blocks
  <2>3. CASE frame' = [frame EXCEPT ![k].modes = [f \in Fields |-> "Repeat"]]
    BY <1>1, <2>1, <2>3 DEF Blocks
  <2> QED
    BY <2>2, <2>3 DEF Damage
<1>4. SentBlocks' = SentBlocks
  BY <1>1, <1>3 DEF SentBlocks
<1> QED
  BY <1>1, <1>2, <1>4 DEF Transfer!Damage

LEMMA NothingSent ==
  ASSUME NEW fr, fr = <<>>
  PROVE  UsesOf(fr, Len(fr)) = <<>>
<1>1. fr \in Seq(Blocks)
  OBVIOUS
<1>2. Len(fr) = 0 /\ 0 \in Nat /\ 0 <= Len(fr)
  BY SMT
<1>3. UsesOf(fr, 0) \in Seq(Contexts) /\ Len(UsesOf(fr, 0)) = 0
  BY <1>1, <1>2, UsesAreContexts
<1> HIDE DEF UsesOf
<1> QED
  BY <1>2, <1>3, EmptySeq

LEMMA NewFrameTransfers ==
  ASSUME IInv, NewFrame
  PROVE  Transfer!NewFrame
<1>1. /\ reading \in {"done", "error"} \/ stage = "aborted"
      /\ frame' = <<>> /\ complete' = FALSE /\ stage' = "idle" /\ block' = NoBlock
      /\ decoded' = <<>> /\ damaged' = FALSE
  BY DEF NewFrame, WriterNewFrame, ReaderNewFrame
<1>2. /\ reading # "waiting" => complete
      /\ reading = "error" => damaged
  BY DEF IInv, ReaderInv, ReaderPlace
<1>3. Phase \in {"received", "given_up", "damaged"}
  BY <1>1, <1>2 DEF Phase
<1>4. Phase' = "writing"
  BY <1>1 DEF Phase
<1>5. SentBlocks' = <<>>
  <2>1. SentBlocks' = UsesOf(frame', Len(frame'))
    BY <1>1 DEF SentBlocks, UsesOf
  <2> QED
    BY <1>1, <2>1, NothingSent
<1> QED
  BY <1>1, <1>3, <1>4, <1>5 DEF Transfer!NewFrame

\* The writer with its fallbacks and the reader with its pairs and paths are
\* one channel of blocks: they implement FrameTransfer.
THEOREM PipelineTransfersFrames == Spec => TransfersFrames
<1>1. Init => Transfer!Init
  <2> SUFFICES ASSUME Init PROVE Transfer!Init
    OBVIOUS
  <2>1. /\ frame = <<>> /\ complete = FALSE /\ stage = "idle" /\ block = NoBlock
        /\ decoded = <<>> /\ damaged = FALSE
    BY DEF Init, WriterInit, ReaderInit
  <2>2. SentBlocks = UsesOf(frame, Len(frame))
    BY <2>1 DEF SentBlocks, UsesOf
  <2>3. SentBlocks = <<>>
    BY <2>1, <2>2, NothingSent
  <2>4. Phase = "writing"
    BY <2>1 DEF Phase
  <2> QED
    BY <2>1, <2>3, <2>4 DEF Transfer!Init
<1>2. IInv /\ IInv' /\ [Next]_vars => [Transfer!Next]_<<SentBlocks, decoded, Phase>>
  <2> SUFFICES ASSUME IInv, IInv', [Next]_vars
               PROVE  Transfer!Next \/ UNCHANGED <<SentBlocks, decoded, Phase>>
    OBVIOUS
  <2>1. CASE Write
    BY <2>1, WriteTransfers DEF Transfer!Next
  <2>2. CASE \E k \in DOMAIN frame : Damage(k)
    BY <2>2, DamageTransfers DEF Transfer!Next
  <2>3. CASE Read
    BY <2>3, ReadTransfers DEF Transfer!Next
  <2>4. CASE NewFrame
    BY <2>4, NewFrameTransfers DEF Transfer!Next
  <2>5. CASE UNCHANGED vars
    <3>1. /\ frame' = frame /\ complete' = complete /\ stage' = stage /\ block' = block
          /\ decoded' = decoded /\ damaged' = damaged /\ reading' = reading
      BY <2>5 DEF vars, writerVars, readerVars, pipelineVars
    <3> QED
      BY <3>1 DEF SentBlocks, Phase
  <2> QED
    BY <2>1, <2>2, <2>3, <2>4, <2>5 DEF Next, Finished
<1> QED
  BY <1>1, <1>2, AlwaysIInv, PTL DEF Spec, TransfersFrames, Transfer!Spec
=============================================================================
