----------------------------- MODULE FseTables ------------------------------
(***************************************************************************)
(* Finite state entropy coding: how counts of symbols are scaled to a      *)
(* table, the table the encoder walks, the table the decoder walks, and    *)
(* the description of the table that goes between them.                    *)
(*                                                                         *)
(* Counts are functions on 0..n-1, the symbols.  A normalized count is the *)
(* number of cells of a symbol; -1 stands for a symbol too rare for a      *)
(* share, which gets one cell at the top of the table.                     *)
(*                                                                         *)
(* The definitions named Broken... are the bugs the runs must notice;      *)
(* nothing uses them.                                                      *)
(***************************************************************************)
EXTENDS BitStreams, Integers, FiniteSets, FiniteSetsExt

MAX_ACCURACY_LOG == 9
MAX_SYMBOL_COUNT == 256

\* highest_bit; of zero it is zero.
HighestBit(value) ==
  IF value = 0 THEN 0 ELSE CHOOSE b \in 0..28 : 2^b <= value /\ value < 2^(b + 1)

BitsNeeded(value) == HighestBit(value) + 1

LimitedMinus(a, b) == IF a > b THEN a - b ELSE 0

(***************************************************************************)
(* Scaling.                                                                *)
(***************************************************************************)
PickAccuracyLog(total, symbols, maxLog) ==
  LET most == Min({maxLog, MAX_ACCURACY_LOG})
      fromTotal == IF total <= 1 THEN 0 ELSE LimitedMinus(HighestBit(total - 1), 2)
      fromSymbols == HighestBit(LimitedMinus(symbols, 1)) + 2
  IN Min({most, Max({Min({most, fromTotal}), fromSymbols, 5})})

\* find_largest_count_symbol: the first of the most frequent symbols.
LargestSymbol(counts) ==
  Min({s \in DOMAIN counts : \A t \in DOMAIN counts : counts[t] <= counts[s]})

IsPowerOfTwo(n) == n = 2^HighestBit(n)

\* (count * (2^62 / total)) >> (62 - log).  The inner quotient is cut off, so
\* that a share that would come out whole falls short of it, unless the total
\* divides 2^62.
ScaledShare(count, total, size) ==
  LET share == (count * size) \div total
  IN IF (count * size) % total = 0 /\ ~IsPowerOfTwo(total) THEN share - 1 ELSE share

ProportionalShare(count, total, size) == (count * size) \div total

\* Every symbol that occurs gets its share, or a rare cell for a share of
\* nothing; what is left over goes to the largest.
Distribute(counts, size, Share(_)) ==
  LET shares == [s \in DOMAIN counts |->
                   IF counts[s] = 0 THEN 0 ELSE IF Share(counts[s]) = 0 THEN -1 ELSE Share(counts[s])]
      taken == MapThenSumSet(LAMBDA s : IF shares[s] = -1 THEN 1 ELSE shares[s], DOMAIN counts)
  IN [shares EXCEPT ![LargestSymbol(counts)] = @ + size - taken]

Present(counts) == {s \in DOMAIN counts : counts[s] > 0}

NormalizeCounts(counts, total, log) ==
  LET size == 2^log
      scaled == Distribute(counts, size, LAMBDA c : ScaledShare(c, total, size))
      proportional == Distribute(counts, size, LAMBDA c : ProportionalShare(c, total, size))
      Valid(norm) == norm[LargestSymbol(counts)] > 0
      refused == [ok |-> FALSE]
  IN CASE Cardinality(Present(counts)) \notin 1..size -> refused
       [] Cardinality(Present(counts)) = 1 ->
            [ok |-> TRUE, norm |-> [s \in DOMAIN counts |-> IF counts[s] > 0 THEN size ELSE 0]]
       [] OTHER -> IF Valid(scaled) THEN [ok |-> TRUE, norm |-> scaled]
                   ELSE IF Valid(proportional) THEN [ok |-> TRUE, norm |-> proportional]
                   ELSE refused

(***************************************************************************)
(* The cells.                                                              *)
(***************************************************************************)
CellsOf(count) == IF count = -1 THEN 1 ELSE count

FillsTable(norm, log) ==
  MapThenSumSet(LAMBDA s : CellsOf(norm[s]), DOMAIN norm) = 2^log

SpreadStep(size) == (size \div 2) + (size \div 8) + 3

\* A function on 0..n-1 as a sequence of the symbols that pass a test.
SymbolsWhere(norm, Test(_)) ==
  SelectSeq([i \in 1..Cardinality(DOMAIN norm) |-> i - 1], Test)

\* Rare symbols take the cells from the top down; the others are dealt, in
\* order, along a walk of the table that steps over those.
SpreadSymbols(norm, log) ==
  LET size == 2^log
      rare == SymbolsWhere(norm, LAMBDA s : norm[s] = -1)
      high == size - 1 - Len(rare)
      walk == SelectSeq([k \in 1..size |-> ((k - 1) * SpreadStep(size)) % size],
                        LAMBDA cell : cell <= high)
      dealt == Join([i \in 1..Cardinality(DOMAIN norm) |->
                             [k \in 1..(IF norm[i - 1] > 0 THEN norm[i - 1] ELSE 0) |-> i - 1]])
  IN [cell \in 0..(size - 1) |->
        IF cell > high THEN rare[size - cell]
        ELSE dealt[SelectInSeq(walk, LAMBDA c : c = cell)]]

\* Cells of the same symbol before this one.
Rank(spread, cell) == Quantify(0..(cell - 1), LAMBDA c : spread[c] = spread[cell])

\* symbol_next_state before the first cell of a symbol.
FirstState(count) == CellsOf(count)

BuildDecodeTable(norm, log) ==
  LET Entry(spread, cell) ==
        LET next == FirstState(norm[spread[cell]]) + Rank(spread, cell)
            count == log - HighestBit(next)
        IN [symbol |-> spread[cell], bits |-> count, base |-> next * 2^count - 2^log]
  IN The({[log |-> log, entries |-> [cell \in 0..(2^log - 1) |-> Entry(spread, cell)]] :
            spread \in {SpreadSymbols(norm, log)}})

(***************************************************************************)
(* The encoder's table and its steps.  The deltas are 32-bit words in the  *)
(* code; for a log of at most 9 none of them wraps.                        *)
(***************************************************************************)
CellsBefore(norm, symbol) ==
  MapThenSumSet(LAMBDA s : CellsOf(norm[s]), {s \in DOMAIN norm : s < symbol})

Transform(norm, log, symbol) ==
  LET n == norm[symbol]
      maxBits == log - HighestBit(n - 1)
      running == CellsBefore(norm, symbol)
  IN IF n = 0 THEN [bitsDelta |-> (log + 1) * 2^16 - 2^log, findState |-> 0]
     ELSE IF n \in {-1, 1} THEN [bitsDelta |-> log * 2^16 - 2^log, findState |-> running - 1]
     ELSE [bitsDelta |-> maxBits * 2^16 - n * 2^maxBits, findState |-> running - n]

BuildEncodeTable(norm, log) ==
  LET size == 2^log
      Slots(spread) ==
        [cell \in 0..(size - 1) |-> CellsBefore(norm, spread[cell]) + Rank(spread, cell)]
      Table(slot) ==
        [log |-> log, norm |-> norm,
         nextState |-> [i \in 0..(size - 1) |->
                          size + CHOOSE cell \in 0..(size - 1) : slot[cell] = i],
         transforms |-> [s \in DOMAIN norm |-> Transform(norm, log, s)]]
  IN The({Table(slot) : slot \in {Slots(spread) : spread \in {SpreadSymbols(norm, log)}}})

\* FseEncodeState::new: the first state of the symbol, for no bits.
StateFor(table, symbol) ==
  LET t == table.transforms[symbol]
      out == (t.bitsDelta + 2^15) \div 2^16
  IN table.nextState[((out * 2^16 - t.bitsDelta) \div 2^out) + t.findState]

\* encode_symbol: the low bits of the state go out and the rest finds the next.
BitsOut(table, state, symbol) == (state + table.transforms[symbol].bitsDelta) \div 2^16

NextState(table, state, symbol) ==
  table.nextState[(state \div 2^BitsOut(table, state, symbol)) + table.transforms[symbol].findState]

(***************************************************************************)
(* The description of a table.                                             *)
(***************************************************************************)

\* A count plus one, in as many bits as what remains can need, one less for
\* the values below the threshold.
ValueBits(value, remaining) ==
  LET n == BitsNeeded(remaining)
      threshold == 2^n - 1 - remaining
  IN IF value < threshold THEN Bits(value, n - 1)
     ELSE IF value < 2^(n - 1) THEN Append(Bits(value, n - 1), 0)
     ELSE Append(Bits(value + threshold - 2^(n - 1), n - 1), 1)

\* After a count of zero: how many more zeros follow, in digits of two bits.
RunBits(run) == Join([i \in 1..(run \div 3) |-> <<1, 1>>] \o <<Bits(run % 3, 2)>>)

ZerosFrom(norm, symbol) ==
  LET others == {s \in DOMAIN norm : s >= symbol /\ norm[s] # 0}
  IN (IF others = {} THEN Cardinality(DOMAIN norm) ELSE Min(others)) - symbol

WriteDescription(table) ==
  LET norm == table.norm
      One(so_far, symbol) ==
        IF so_far.remaining <= 1 THEN so_far
        ELSE IF so_far.zeros > 0 THEN [so_far EXCEPT !.zeros = @ - 1]
        ELSE LET value == norm[symbol] + 1
                 zeros == IF value = 1 THEN ZerosFrom(norm, symbol + 1) ELSE 0
             IN [bits |-> so_far.bits \o ValueBits(value, so_far.remaining)
                            \o (IF value = 1 THEN RunBits(zeros) ELSE <<>>),
                 remaining |-> so_far.remaining - CellsOf(norm[symbol]),
                 zeros |-> zeros]
      start == [bits |-> Bits(table.log - 5, 4), remaining |-> 2^table.log + 1, zeros |-> 0]
  IN WholeBytes(FoldLeft(One, start, SymbolsWhere(norm, LAMBDA s : TRUE)).bits)

(***************************************************************************)
(* read_fse_table_description, from its parts: what one value is and how   *)
(* far it reaches, a run of zeros, and the loop over them.                 *)
(***************************************************************************)
ReadValue(input, position, remaining) ==
  LET n == BitsNeeded(remaining)
      low == BitsAt(input, position, n - 1)
      threshold == 2^n - 1 - remaining
      extra == BitsAt(input, position + n - 1, 1)
  IN IF low < threshold THEN [value |-> low, position |-> position + n - 1]
     ELSE [value |-> low + extra * (2^(n - 1) - threshold), position |-> position + n]

RECURSIVE ReadRun(_, _)
ReadRun(input, position) ==
  LET repeat == BitsAt(input, position, 2)
      more == ReadRun(input, position + 2)
  IN IF repeat # 3 THEN [zeros |-> repeat, position |-> position + 2]
     ELSE [zeros |-> 3 + more.zeros, position |-> more.position]

\* The counts from here on, appended to those so far (a sequence), or a refusal.
RECURSIVE ReadCounts(_, _, _, _, _)
ReadCounts(input, position, remaining, counts, maxSymbol) ==
  LET RunAfter(one) == IF one.value = 1 THEN ReadRun(input, one.position)
                       ELSE [zeros |-> 0, position |-> one.position]
      After(one, run) ==
        LET longer == Append(counts, one.value - 1) \o [i \in 1..run.zeros |-> 0]
        IN IF Len(longer) > Min({maxSymbol + 1, MAX_SYMBOL_COUNT}) THEN [ok |-> FALSE]
           ELSE ReadCounts(input, run.position, remaining - CellsOf(one.value - 1), longer, maxSymbol)
      WithRun(one) == After(one, RunAfter(one))
  IN IF remaining = 1 THEN [ok |-> TRUE, counts |-> counts, position |-> position]
     ELSE WithRun(ReadValue(input, position, remaining))

\* The table that is built, and the bytes it took.  A truncated description
\* reads on as zeros and takes more bytes than there are.
DescribedTable(input, maxLog, maxSymbol) ==
  LET log == BitsAt(input, 0, 4) + 5
      Norm(counts) == [s \in 0..(Len(counts) - 1) |-> counts[s + 1]]
      Built(read) == IF ~read.ok THEN read
                     ELSE [ok |-> TRUE, bytes |-> BytesFor(read.position),
                           table |-> BuildDecodeTable(Norm(read.counts), log)]
  IN IF input = <<>> \/ log > Min({maxLog, MAX_ACCURACY_LOG}) THEN [ok |-> FALSE]
     ELSE Built(ReadCounts(input, 4, 2^log + 1, <<>>, maxSymbol))

\* It is refused for that, with its table built.
ReadDescription(input, maxLog, maxSymbol) ==
  LET Checked(described) ==
        IF described.ok /\ 8 * described.bytes > Len(input) THEN [ok |-> FALSE] ELSE described
  IN Checked(DescribedTable(input, maxLog, maxSymbol))
-----------------------------------------------------------------------------
\* From the cells of a symbol, each state of a table is reached in one way: all
\* are reached, and no more often than there are states.
StatesInside(table) ==
  LET entries == table.entries
      Ways(cells) ==
        MapThenSumSet(LAMBDA b : 2^b * Quantify(cells, LAMBDA c : entries[c].bits = b), 0..table.log)
  IN \A symbol \in {entries[c].symbol : c \in DOMAIN entries} :
       \E own \in {{c \in DOMAIN entries : entries[c].symbol = symbol}} :
         /\ UNION {entries[c].base..(entries[c].base + 2^entries[c].bits - 1) : c \in own} = DOMAIN entries
         /\ Ways(own) = Cardinality(DOMAIN entries)
=============================================================================
