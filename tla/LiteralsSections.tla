-------------------------- MODULE LiteralsSections --------------------------
(***************************************************************************)
(* The literals of the blocks of a frame, down to the bit: each section is *)
(* raw, one byte repeated, or coded with a Huffman tree that it brings or  *)
(* that an earlier section brought.  The writer keeps the tree of the last *)
(* section that brought one, and so does the reader.                       *)
(*                                                                         *)
(* The sizes and limits are those of the code.  Texts are shorter than the *)
(* 40,960 bytes from which write_literals takes samples of them.           *)
(***************************************************************************)
EXTENDS HuffmanTables

CONSTANTS
  FirstTexts,     \* what the first section of a frame may hold
  LaterTexts,     \* what the others may hold
  ForeignInputs,  \* [format, size, bits]: compressed sections of another writer
  MaxSections     \* bound: sections of a frame

MULTI_STREAM_MIN_SIZE == 256
MIN_LITERALS_TO_COMPRESS == 64
TABLE_OVERHEAD == 12
STREAM_COUNT == 4
MAX_BLOCK_SIZE == 131072

\* The workspace has room for the literals of a block and some slack.
LITERALS_BUFFER_LENGTH == MAX_BLOCK_SIZE + 32

NoTree == [maxBits |-> 0]

VARIABLES
  huffman,      \* EncodeWorkspace: huffman_table, as long as it may be used again
  tree,         \* BlockWorkspace: the Huffman table, NoTree when it is not ready
  weightTable,  \* BlockWorkspace: weight_fse_table, once it was read
  text,         \* history: the literals of the last section
  section,      \* the section on its way, <<>> when there is none
  kind,         \* its type
  result,       \* what the reader returned last
  sections      \* history: how many were written

vars == <<huffman, tree, weightTable, text, section, kind, result, sections>>

Init ==
  /\ huffman = NoTree /\ tree = NoTree /\ weightTable = <<>>
  /\ text = <<>> /\ section = <<>> /\ kind = "none"
  /\ result = [ok |-> TRUE, symbols |-> <<>>, bytes |-> 0]
  /\ sections = 0

(***************************************************************************)
(* The header of a section.                                                *)
(***************************************************************************)
TypeBits == [Raw |-> 0, Rle |-> 1, Compressed |-> 2, Treeless |-> 3]
TypeOf(bits) == CHOOSE type \in DOMAIN TypeBits : TypeBits[type] = bits

\* literals_size_bits.
SizeBits(format) == CASE format \in {0, 1} -> 10 [] format = 2 -> 14 [] OTHER -> 18

RawHeader(type, size) ==
  Bits(TypeBits[type], 2) \o
  (IF size < 32 THEN <<0>> \o Bits(size, 5)
   ELSE IF size < 4096 THEN Bits(1, 2) \o Bits(size, 12)
   ELSE Bits(3, 2) \o Bits(size, 20))

PickFormat(streams, size) ==
  IF streams = 1 THEN 0 ELSE IF size <= 1023 THEN 1 ELSE IF size <= 16383 THEN 2 ELSE 3

CompressedHeader(type, format, size, compressed) ==
  Bits(TypeBits[type], 2) \o Bits(format, 2)
    \o Bits(size, SizeBits(format)) \o Bits(compressed, SizeBits(format))

\* read_literals_header: what it says of the section, its own length in bytes.
ReadHeader(input) ==
  LET type == TypeOf(BitsAt(input, 0, 2))
      format == BitsAt(input, 2, 2)
      bits == SizeBits(format)
      size == IF type \in {"Compressed", "Treeless"} THEN BitsAt(input, 4, bits)
              ELSE IF format = 1 THEN BitsAt(input, 4, 12)
              ELSE IF format = 3 THEN BitsAt(input, 4, 20)
              ELSE BitsAt(input, 3, 5)
  IN [type |-> type,
      size |-> size,
      compressed |-> CASE type = "Raw" -> size
                       [] type = "Rle" -> 1
                       [] OTHER -> BitsAt(input, 4 + bits, bits),
      streams |-> IF type \in {"Compressed", "Treeless"} /\ format # 0 THEN STREAM_COUNT ELSE 1,
      length |-> IF type \in {"Compressed", "Treeless"} THEN (4 + 2 * bits) \div 8
                 ELSE CASE format = 1 -> 2 [] format = 3 -> 3 [] OTHER -> 1]

(***************************************************************************)
(* The streams: one, or four behind a table of the sizes of three.         *)
(***************************************************************************)
SegmentSize(count) == (count + STREAM_COUNT - 1) \div STREAM_COUNT

\* pick_stream_count.
PickStreams(count) ==
  IF count < MULTI_STREAM_MIN_SIZE \/ 3 * SegmentSize(count) > count THEN 1 ELSE STREAM_COUNT

\* Segment i of the literals, of four.
Segment(symbols, i) ==
  SubSeq(symbols, (i - 1) * SegmentSize(Len(symbols)) + 1,
         IF i = STREAM_COUNT THEN Len(symbols)
         ELSE Min({i * SegmentSize(Len(symbols)), Len(symbols)}))

EncodeFourStreams(symbols, with) ==
  LET stream == [i \in 1..STREAM_COUNT |-> EncodeStream(Segment(symbols, i), with)]
  IN Join([i \in 1..(STREAM_COUNT - 1) |-> Bits(Len(stream[i]) \div 8, 16)]) \o Join(stream)

EncodeStreams(symbols, with) ==
  IF PickStreams(Len(symbols)) = 1 THEN EncodeStream(symbols, with)
  ELSE EncodeFourStreams(symbols, with)

\* split_four_streams: how many symbols are in segment i.
SegmentLength(size, i) ==
  IF i = STREAM_COUNT THEN size - 3 * SegmentSize(size) ELSE SegmentSize(size)

DecodeFourStreams(input, with, size) ==
  LET told(i) == BitsAt(input, 16 * (i - 1), 16)
      start[i \in 1..STREAM_COUNT] == IF i = 1 THEN 48 ELSE start[i - 1] + 8 * told(i - 1)
      stream(i) == SubSeq(input, start[i] + 1,
                          IF i = STREAM_COUNT THEN Len(input) ELSE start[i + 1])
      segment == [i \in 1..STREAM_COUNT |-> DecodeStream(stream(i), with, SegmentLength(size, i))]
  IN IF Len(input) < 48 \/ 3 * SegmentSize(size) >= size THEN Refused
     ELSE IF start[STREAM_COUNT] >= Len(input) \/ \E i \in 1..3 : told(i) = 0 THEN Refused
     ELSE IF \E i \in 1..STREAM_COUNT : ~segment[i].ok THEN Refused
     ELSE [ok |-> TRUE, symbols |-> Join([i \in 1..STREAM_COUNT |-> segment[i].symbols])]

\* decode_streams.
DecodeStreams(streams, input, with, size) ==
  IF streams = 1 THEN DecodeStream(input, with, size) ELSE DecodeFourStreams(input, with, size)

(***************************************************************************)
(* write_literals.                                                         *)
(***************************************************************************)
Counts(symbols) ==
  [s \in 0..Max(ToSet(symbols)) |-> Quantify(DOMAIN symbols, LAMBDA i : symbols[i] = s)]

RawSection(symbols) ==
  RawHeader("Raw", Len(symbols)) \o Join([i \in 1..Len(symbols) |-> Bits(symbols[i], 8)])

RleSection(symbols) == RawHeader("Rle", Len(symbols)) \o Bits(symbols[1], 8)

\* estimate_huffman_bit_cost has an answer.
CanCode(with, counts) ==
  /\ with # NoTree
  /\ \A s \in Present(counts) : s \in DOMAIN with.codes /\ with.codes[s] # <<>>

BitCost(with, counts) == MapThenSumSet(LAMBDA s : counts[s] * Len(with.codes[s]), Present(counts))

\* write_compressed_literals: the section and the tree kept, or a refusal.
\* With quick, a tree that is large for its literals is not worth its time.
CompressedSection(symbols, reuse, quick) ==
  LET format == PickFormat(PickStreams(Len(symbols)), Len(symbols))
      Header(type, body) == CompressedHeader(type, format, Len(symbols), Len(body) \div 8)
      Whole(type, body, with) ==
        IF \/ Len(body) \div 8 >= 2^SizeBits(format)
           \/ Len(Header(type, body) \o body) >= Len(RawSection(symbols))
        THEN Refused
        ELSE [ok |-> TRUE, bits |-> Header(type, body) \o body, kind |-> type, huffman |-> with]
      Chosen(counts, candidate, description) ==
        LET tooLarge == quick /\ Len(description.bits) \div 8 + TABLE_OVERHEAD >= Len(symbols)
        IN IF /\ reuse /\ CanCode(huffman, counts)
              /\ tooLarge \/ BitCost(huffman, counts)
                               < BitCost(candidate, counts) + Len(description.bits)
           THEN Whole("Treeless", EncodeStreams(symbols, huffman), huffman)
           ELSE IF tooLarge THEN Refused
           ELSE Whole("Compressed", description.bits \o EncodeStreams(symbols, candidate), candidate)
      Described(counts, candidate, description) ==
        IF description.ok THEN Chosen(counts, candidate, description) ELSE Refused
      With(counts, candidate) == Described(counts, candidate, WriteTree(candidate))
      Counted(counts) == With(counts, BuildEncodeTree(counts, CheapDepth(counts, Len(symbols))))
  IN Counted(Counts(symbols))

\* is_too_flat: no byte is frequent.
TooFlat(symbols, quick) ==
  LET counts == Counts(symbols)
  IN quick /\ \A s \in DOMAIN counts : counts[s] <= Len(symbols) \div 128 + 4

\* The section for these literals, as write_literals picks it.
SectionFor(symbols, reuse, quick) ==
  LET raw == [kind |-> "Raw", bits |-> RawSection(symbols), huffman |-> huffman]
      OrRaw(compressed) == IF compressed.ok THEN compressed ELSE raw
  IN IF symbols = <<>> THEN raw
     ELSE IF quick /\ Len(symbols) < MIN_LITERALS_TO_COMPRESS THEN raw
     ELSE IF \A i \in DOMAIN symbols : symbols[i] = symbols[1]
          THEN [kind |-> "Rle", bits |-> RleSection(symbols), huffman |-> huffman]
     ELSE IF TooFlat(symbols, quick) THEN raw
     ELSE OrRaw(CompressedSection(symbols, reuse, quick))

Write(symbols, reuse, quick) ==
  /\ section = <<>> /\ result.ok /\ sections < MaxSections
  /\ LET written == SectionFor(symbols, reuse, quick)
     IN /\ section' = written.bits
        /\ kind' = written.kind
        /\ huffman' = written.huffman
  /\ text' = symbols
  /\ sections' = sections + 1
  /\ UNCHANGED <<tree, weightTable, result>>

(***************************************************************************)
(* decode_literals, on a section with more of the block behind it.         *)
(***************************************************************************)

\* The table of the weights is written before its description is accepted.
WeightTableAfter(body) ==
  LET Written(described) == IF described.ok THEN described.table ELSE weightTable
  IN IF TreeIsThere(body) /\ ~IsDirect(body)
     THEN Written(DescribedTable(TreeSection(body), MAX_WEIGHT_ACCURACY_LOG, 255))
     ELSE weightTable

\* What a section decodes to, whose body lies in the input with a tree of so
\* many bytes in front.
Decoded(header, body, treeBytes, with) ==
  LET symbol(i) == BitsAt(body, IF header.type = "Rle" THEN 0 ELSE 8 * (i - 1), 8)
      Section(symbols) ==
        [ok |-> TRUE, symbols |-> symbols, bytes |-> header.length + header.compressed]
      OfStreams(decoded) == IF decoded.ok THEN Section(decoded.symbols) ELSE Refused
  IN IF Len(body) < 8 * header.compressed THEN Refused
     ELSE IF header.type \in {"Raw", "Rle"} THEN Section([i \in 1..header.size |-> symbol(i)])
     ELSE IF with = NoTree THEN Refused
     ELSE OfStreams(DecodeStreams(header.streams, SubSeq(body, 8 * treeBytes + 1, Len(body)),
                                  with, header.size))

\* More literals than a block may have, or than the workspace has room for.
TooLong(header) == header.size > MAX_BLOCK_SIZE \/ header.size > LITERALS_BUFFER_LENGTH

\* A section that is too long is refused before a tree is read.
\* read_huffman_table leaves a tree that is not ready when it fails.
Read(behind) ==
  /\ section # <<>>
  /\ \E header \in {ReadHeader(section \o behind)} :
       \E body \in {SubSeq(section \o behind, 8 * header.length + 1,
                           Min({8 * (header.length + header.compressed), Len(section \o behind)}))} :
         IF TooLong(header)
         THEN result' = Refused /\ UNCHANGED <<tree, weightTable>>
         ELSE IF header.type = "Compressed" /\ Len(body) = 8 * header.compressed
         THEN \E read \in {ReadTree(body)} :
                /\ tree' = IF read.ok THEN read.tree ELSE NoTree
                /\ weightTable' = WeightTableAfter(body)
                /\ result' = IF read.ok THEN Decoded(header, body, read.bytes, read.tree) ELSE Refused
         ELSE /\ result' = Decoded(header, body, 0, tree)
              /\ UNCHANGED <<tree, weightTable>>
  /\ section' = <<>>
  /\ UNCHANGED <<huffman, text, kind, sections>>

\* A section of another writer ends what this frame's writer may say.
Foreign(input) ==
  /\ section = <<>> /\ result.ok /\ sections = 0
  /\ section' = CompressedHeader("Compressed", input.format, input.size, Len(input.bits) \div 8) \o input.bits
  /\ kind' = "Foreign"
  /\ text' = <<>>
  /\ sections' = MaxSections
  /\ UNCHANGED <<huffman, tree, weightTable, result>>

Next ==
  \/ \E symbols \in IF sections = 0 THEN FirstTexts ELSE LaterTexts,
        reuse \in {FALSE, huffman # NoTree}, quick \in BOOLEAN : Write(symbols, reuse, quick)
  \/ \E behind \in {<<>>, Bits(255, 8)} : Read(behind)
  \/ \E input \in ForeignInputs : Foreign(input)

Spec == Init /\ [][Next]_vars
-----------------------------------------------------------------------------
\* What was written is what is read, and no byte of the block behind it is
\* taken: whatever form the literals, the tree and the streams were given.
SectionsArrive ==
  kind \notin {"none", "Foreign"} /\ section = <<>> =>
    result.ok /\ result.symbols = text

\* The cheapest code of some counts, most frequent first, each no shorter than
\* the one before, that fits into so much room under a limit of depth.
RECURSIVE Cheapest(_, _, _, _)
Cheapest(counts, least, room, depth) ==
  IF counts = <<>> THEN 0
  ELSE Min({10^6} \cup
           {Head(counts) * l + Cheapest(Tail(counts), l, room - 2^(depth - l), depth) :
              l \in {l \in least..depth : Len(counts) <= room /\ 2^(depth - l) <= room}})

MostFrequentFirst(counts) ==
  SortSeq([i \in 1..Cardinality(Present(counts)) |->
             counts[SymbolsWhere(counts, LAMBDA s : counts[s] > 0)[i]]], LAMBDA a, b : a > b)

\* No code within the limit of depth is shorter than the one of package-merge
\* (checked for alphabets of up to nine bytes).
LengthsAreOptimal ==
  LET counts == Counts(text)
      depth == CheapDepth(counts, Len(text))
  IN kind = "Compressed" /\ section # <<>> /\ Cardinality(Present(counts)) <= 9 =>
       /\ huffman.maxBits <= depth
       /\ BitCost(huffman, counts) = Cheapest(MostFrequentFirst(counts), 1, 2^depth, depth)

\* Every cell of a tree belongs to a code, and a code of b bits has all the
\* cells that begin with it: no bits read are without a meaning.
TreeIsComplete ==
  tree # NoTree =>
    \A cell \in DOMAIN tree.entries :
      LET entry == tree.entries[cell]
          block == 2^(tree.maxBits - entry.bits)
      IN /\ entry.bits \in 1..tree.maxBits
         /\ {c \in DOMAIN tree.entries : tree.entries[c].symbol = entry.symbol}
              = ((cell \div block) * block)..((cell \div block) * block + block - 1)

\* What a reader accepts, from any writer, it can decode with.
TreesAreSound == TreeIsComplete /\ (weightTable # <<>> => StatesInside(weightTable))
=============================================================================
