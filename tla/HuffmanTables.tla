--------------------------- MODULE HuffmanTables ----------------------------
(***************************************************************************)
(* Huffman trees: how the lengths of the codes are chosen under a limit of *)
(* depth, how a tree is described (the weights of all symbols but the last *)
(* one that occurs, as they are or in a finite state stream), how the      *)
(* description is read, and how symbols are coded with it.                 *)
(*                                                                         *)
(* Weight w of a symbol is max_bits + 1 less the length of its code, and   *)
(* zero without a code.  Lengths and weights are functions on 0..n-1.      *)
(*                                                                         *)
(* The definitions named Broken... are the bugs the runs must notice;      *)
(* nothing uses them.                                                      *)
(***************************************************************************)
EXTENDS FseTables

MIN_HUFFMAN_BITS == 5
MAX_HUFFMAN_BITS == 11
MAX_DIRECT_WEIGHT_COUNT == 128
MAX_WEIGHT_COUNT == 256
MAX_WEIGHT_ACCURACY_LOG == 6

\* find_largest_symbol; the last symbol that occurs.
LastSymbol(counts) == IF Present(counts) = {} THEN 0 ELSE Max(Present(counts))

CheapDepth(counts, total) ==
  LET needed == Min({HighestBit(total) + 1, HighestBit(Max({LastSymbol(counts), 1})) + 2})
      worthPaying == Min({LimitedMinus(HighestBit(total - 1), 1), MAX_HUFFMAN_BITS})
  IN IF total <= 1 THEN MAX_HUFFMAN_BITS
     ELSE Min({MAX_HUFFMAN_BITS, Max({MIN_HUFFMAN_BITS, worthPaying, needed})})

(***************************************************************************)
(* build_code_lengths: package-merge.  A level is a sorted sequence of     *)
(* leaves, which are symbols, and of packages, each two neighbours of the  *)
(* level before.                                                           *)
(***************************************************************************)
Leaf(counts, symbol) == [weight |-> counts[symbol], leaf |-> TRUE, of |-> symbol]

Package(level, k) ==
  [weight |-> level[2 * k - 1].weight + level[2 * k].weight, leaf |-> FALSE, of |-> k]

\* A leaf comes before a package of its weight.
ComesBefore(a, b) ==
  \/ a.weight < b.weight
  \/ a.weight = b.weight /\ a.leaf /\ ~b.leaf
  \/ a.weight = b.weight /\ a.leaf = b.leaf /\ a.of < b.of

NextLevel(counts, level) ==
  LET used == SymbolsWhere(counts, LAMBDA s : counts[s] > 0)
  IN SortSeq([i \in 1..Len(used) |-> Leaf(counts, used[i])]
               \o [k \in 1..(Len(level) \div 2) |-> Package(level, k)], ComesBefore)

RECURSIVE Levels(_, _)
Levels(counts, depth) ==
  IF depth = 0 THEN << <<>> >>
  ELSE The({Append(below, NextLevel(counts, Last(below))) : below \in {Levels(counts, depth - 1)}})

\* Broken: one item too few is taken of the last level.
BrokenFirstPrefix(counts) == 2 * Cardinality(Present(counts)) - 3

\* Items of the last level that are paid for.
FirstPrefix(counts) == 2 * (Cardinality(Present(counts)) - 1)

\* The symbols whose leaves are in the prefix of this level, or in those of the
\* levels below, which the packages in the prefix are made of.
RECURSIVE LeavesTaken(_, _, _)
LeavesTaken(levels, depth, prefix) ==
  LET taken == SubSeq(levels[depth + 1], 1, Min({prefix, Len(levels[depth + 1])}))
      leaves == SelectSeq(taken, LAMBDA item : item.leaf)
  IN IF depth = 0 THEN <<>>
     ELSE [i \in 1..Len(leaves) |-> leaves[i].of]
            \o LeavesTaken(levels, depth - 1, 2 * (Len(taken) - Len(leaves)))

\* A symbol is as long as its leaves are many.
CodeLengths(counts, depth) ==
  The({[s \in DOMAIN counts |-> Quantify(DOMAIN leaves, LAMBDA i : leaves[i] = s)] :
         leaves \in {LeavesTaken(levels, depth, FirstPrefix(counts)) :
                        levels \in {Levels(counts, depth)}}})

\* assign_codes: the codes are cut from 0..2^max_bits - 1, the longest first.
CodeStart(weights, symbol) ==
  MapThenSumSet(LAMBDA s : 2^(weights[s] - 1),
                {s \in DOMAIN weights : /\ weights[s] > 0
                                        /\ \/ weights[s] < weights[symbol]
                                           \/ weights[s] = weights[symbol] /\ s < symbol})

\* build_huffman_encode_table, for two symbols that occur or more.
BuildEncodeTree(counts, limit) ==
  LET Weights(lengths, maxBits) ==
        [s \in 0..LastSymbol(counts) |-> IF lengths[s] = 0 THEN 0 ELSE maxBits + 1 - lengths[s]]
      Code(weights, maxBits, s) ==
        IF weights[s] = 0 THEN <<>>
        ELSE Bits(CodeStart(weights, s) \div 2^(weights[s] - 1), maxBits + 1 - weights[s])
      Tree(lengths, maxBits) ==
        The({[maxBits |-> maxBits, weights |-> weights,
              codes |-> [s \in DOMAIN weights |-> Code(weights, maxBits, s)]] :
               weights \in {Weights(lengths, maxBits)}})
  IN The({Tree(lengths, Max({lengths[s] : s \in DOMAIN counts})) :
            lengths \in {CodeLengths(counts, Min({limit, MAX_HUFFMAN_BITS}))}})

(***************************************************************************)
(* Writing the description.  Refused is the TableNotUsable of the code.    *)
(***************************************************************************)
Refused == [ok |-> FALSE]
Told(bits) == [ok |-> TRUE, bits |-> bits]

\* The weights that are told: all but the last, which follows from them.
ToldWeights(tree) == [i \in 1..(Cardinality(DOMAIN tree.weights) - 1) |-> tree.weights[i - 1]]

\* A weight is a nibble, the first of two the high one.
WriteDirect(told) ==
  LET Nibble(i) == Bits(IF i <= Len(told) THEN told[i] ELSE 0, 4)
  IN IF Len(told) \notin 1..MAX_DIRECT_WEIGHT_COUNT THEN Refused
     ELSE Told(Bits(127 + Len(told), 8) \o
               Join([k \in 1..((Len(told) + 1) \div 2) |-> Nibble(2 * k) \o Nibble(2 * k - 1)]))

\* The last index of this parity (0 for the first weight) in so many weights.
LastOfParity(count, parity) == IF (count - 1) % 2 = parity THEN count - 1 ELSE count - 2

\* The weights from index `from` down to index `to`, each with the state of
\* its parity.  A state holds the table size on top of its log bits, which a
\* write masks away.
RECURSIVE EncodeWeights(_, _, _, _, _)
EncodeWeights(table, told, states, from, to) ==
  LET weight == told[from + 1]
      p == from % 2
      middle == (from + to) \div 2
      Both(first, second) == [bits |-> first.bits \o second.bits, states |-> second.states]
      After(first) ==
        The({Both(first, second) : second \in {EncodeWeights(table, told, first.states, middle, to)}})
  IN IF from < to THEN [bits |-> <<>>, states |-> states]
     ELSE IF from = to
          THEN [bits |-> Bits(states[p], BitsOut(table, states[p], weight)),
                states |-> [states EXCEPT ![p] = NextState(table, @, weight)]]
     ELSE The({After(first) : first \in {EncodeWeights(table, told, states, from, middle + 1)}})

Encoded(table, told) ==
  LET first == [p \in {0, 1} |-> StateFor(table, told[LastOfParity(Len(told), p) + 1])]
  IN EncodeWeights(table, told, first, Len(told) - 3, 0)

\* write_interleaved_weight_stream: from the last weight to the first, two
\* states that take turns.
WriteStream(table, told) ==
  LET done == Encoded(table, told)
  IN Marked(done.bits \o Bits(done.states[1], table.log) \o Bits(done.states[0], table.log))

\* Broken: a single weight value is left to the stream, which cannot count.
BrokenDistinctEnough(counts) == TRUE

\* With one weight value every weight costs no bits and their number is lost.
DistinctEnough(counts) == Cardinality(Present(counts)) >= 2

WriteFse(told) ==
  LET weightMax == Max(ToSet(told))
      counts == [w \in 0..weightMax |-> Quantify(1..Len(told), LAMBDA i : told[i] = w)]
      log == PickAccuracyLog(Len(told), weightMax + 1, MAX_WEIGHT_ACCURACY_LOG)
      Sized(body) == IF Len(body) \div 8 >= 128 THEN Refused
                     ELSE Told(Bits(Len(body) \div 8, 8) \o body)
      Coded(table) == Sized(WriteDescription(table) \o WriteStream(table, told))
      Scaled(scaled) == IF scaled.ok /\ FillsTable(scaled.norm, log)
                        THEN Coded(BuildEncodeTable(scaled.norm, log)) ELSE Refused
  IN IF Len(told) < 2 THEN Refused
     ELSE IF ~DistinctEnough(counts) THEN Refused
     ELSE Scaled(NormalizeCounts(counts, Len(told), log))

\* write_huffman_table: the shorter of the two forms.
WriteTree(tree) ==
  LET Shorter(fse, direct) ==
        IF fse.ok /\ (direct.ok => Len(fse.bits) < Len(direct.bits)) THEN fse ELSE direct
      Written(told) == Shorter(WriteFse(told), WriteDirect(told))
  IN Written(ToldWeights(tree))

(***************************************************************************)
(* Reading the description.                                                *)
(***************************************************************************)

\* The two states take turns until one reads past the start of the stream;
\* the symbol of the other one is the last weight.
RECURSIVE ReadWeights(_, _, _, _, _, _)
ReadWeights(stream, table, reader, current, other, weights) ==
  LET longer == Append(weights, table.entries[current].symbol)
      count == table.entries[current].bits
      after == Skip(reader, count)
      next == table.entries[current].base + Peek(stream, reader, count)
      last == Append(longer, table.entries[other].symbol)
  IN IF Len(longer) > MAX_WEIGHT_COUNT - 1 THEN Refused
     ELSE IF ~after.overflowed THEN ReadWeights(stream, table, after, other, next, longer)
     ELSE IF Len(last) > MAX_WEIGHT_COUNT - 1 THEN Refused
     ELSE [ok |-> TRUE, weights |-> last]

ReadFseWeights(section) ==
  LET Weights(table, stream) ==
        LET first == OpenBackward(stream)
            second == Skip(first, table.log)
            start == Skip(second, table.log)
        IN IF ~HasMarker(stream) \/ start.overflowed THEN Refused
           ELSE ReadWeights(stream, table, start, Peek(stream, first, table.log),
                            Peek(stream, second, table.log), <<>>)
      After(description) ==
        IF ~description.ok THEN Refused
        ELSE Weights(description.table, SubSeq(section, 8 * description.bytes + 1, Len(section)))
  IN After(ReadDescription(section, MAX_WEIGHT_ACCURACY_LOG, 255))

\* The last weight makes the sum a power of two; it must be one weight.
AddLastWeight(weights) ==
  LET unit(w) == IF w = 0 THEN 0 ELSE 2^(w - 1)
      sum == MapThenSumSet(LAMBDA i : unit(weights[i]), DOMAIN weights)
      maxBits == HighestBit(sum) + 1
      rest == 2^maxBits - sum
      whole == Append(weights, HighestBit(rest) + 1)
      longest == Quantify(DOMAIN whole, LAMBDA i : whole[i] = 1)
  IN IF \E i \in DOMAIN weights : weights[i] > MAX_HUFFMAN_BITS THEN Refused
     ELSE IF sum = 0 \/ maxBits > MAX_HUFFMAN_BITS THEN Refused
     ELSE IF ~IsPowerOfTwo(rest) THEN Refused
     ELSE IF longest < 2 \/ longest % 2 # 0 THEN Refused
     ELSE [ok |-> TRUE, maxBits |-> maxBits,
           weights |-> [s \in 0..Len(weights) |-> whole[s + 1]]]

\* build_huffman_decode_table: each symbol fills the cells that begin with its
\* code.
BuildDecodeTree(weights, maxBits) ==
  LET Starts == [s \in DOMAIN weights |-> IF weights[s] = 0 THEN 0 ELSE CodeStart(weights, s)]
      Holds(start, s, cell) ==
        weights[s] > 0 /\ start[s] <= cell /\ cell < start[s] + 2^(weights[s] - 1)
      Entry(s) == [symbol |-> s, bits |-> maxBits + 1 - weights[s]]
  IN The({[maxBits |-> maxBits,
           entries |-> [cell \in 0..(2^maxBits - 1) |->
                          Entry(CHOOSE s \in DOMAIN weights : Holds(start, s, cell))]] :
            start \in {Starts}})

\* The header of a description tells its form, and how many bytes follow.
TreeHeader(input) == BitsAt(input, 0, 8)
IsDirect(input) == TreeHeader(input) >= 128
TreeBytes(input) == IF IsDirect(input) THEN (TreeHeader(input) - 126) \div 2 ELSE TreeHeader(input)
TreeSection(input) == SubSeq(input, 9, 8 + 8 * TreeBytes(input))
TreeIsThere(input) == input # <<>> /\ Len(input) >= 8 + 8 * TreeBytes(input)

\* read_huffman_table: the tree and the bytes it took, or a refusal.
ReadTree(input) ==
  LET Nibble(i) == BitsAt(input, 8 + 4 * (IF i % 2 = 1 THEN i ELSE i - 2), 4)
      read == IF IsDirect(input)
              THEN [ok |-> TRUE, weights |-> [i \in 1..(TreeHeader(input) - 127) |-> Nibble(i)]]
              ELSE ReadFseWeights(TreeSection(input))
      Built(whole) == IF ~whole.ok THEN Refused
                      ELSE [ok |-> TRUE, bytes |-> 1 + TreeBytes(input),
                            tree |-> BuildDecodeTree(whole.weights, whole.maxBits)]
      After(told) == IF told.ok THEN Built(AddLastWeight(told.weights)) ELSE Refused
  IN IF TreeIsThere(input) THEN After(read) ELSE Refused

(***************************************************************************)
(* Symbols coded with a tree: from the last to the first, so that they are *)
(* read, backward, from the first to the last.                             *)
(***************************************************************************)
EncodeStream(symbols, tree) ==
  Marked(Join([i \in 1..Len(symbols) |-> tree.codes[symbols[Len(symbols) + 1 - i]]]))

\* count symbols from this reader on; in halves, for the sake of long streams.
RECURSIVE DecodeSymbols(_, _, _, _)
DecodeSymbols(stream, tree, reader, count) ==
  LET entry == tree.entries[Peek(stream, reader, tree.maxBits)]
      Both(first, second) == [reader |-> second.reader, symbols |-> first.symbols \o second.symbols]
      After(first) ==
        The({Both(first, second) :
               second \in {DecodeSymbols(stream, tree, first.reader, count - count \div 2)}})
  IN IF count = 0 THEN [reader |-> reader, symbols |-> <<>>]
     ELSE IF count = 1 THEN [reader |-> Skip(reader, entry.bits), symbols |-> <<entry.symbol>>]
     ELSE The({After(first) : first \in {DecodeSymbols(stream, tree, reader, count \div 2)}})

DecodeStream(stream, tree, count) ==
  LET done == DecodeSymbols(stream, tree, OpenBackward(stream), count)
  IN IF ~HasMarker(stream) \/ ~ReadExactly(done.reader) THEN Refused
     ELSE [ok |-> TRUE, symbols |-> done.symbols]
=============================================================================
