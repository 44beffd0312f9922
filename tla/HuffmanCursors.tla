--------------------------- MODULE HuffmanCursors ---------------------------
(***************************************************************************)
(* Several Huffman streams decoded at once.  While every stream has room,  *)
(* rounds of five symbols are decoded from a word without looking at its   *)
(* bounds; what is left is decoded symbol by symbol.  Of a pair of blocks  *)
(* the streams of both are decoded together, then those of each alone.     *)
(*                                                                         *)
(* A stream is known by its length and marker, a code by its length.  The  *)
(* word of a cursor has a set bit, its sentinel, in place of the lowest    *)
(* bit: how far it has been shifted out says how many bits are used.       *)
(***************************************************************************)
EXTENDS BitContainers

CONSTANTS
  RoundSymbols,    \* 5
  RoundBytes,      \* 7: bytes that a round may use up
  MaxCodeBits,     \* MAX_HUFFMAN_BITS: 11
  CodeLengths,     \* of the codes that occur
  HuffmanStreams,  \* bytes of streams
  SymbolCounts,    \* symbols of a stream
  FirstGroup, SecondGroup   \* streams of the two blocks, numbered in order

ASSUME CursorAssumption ==
  /\ RoundSymbols \in Nat \ {0} /\ RoundBytes \in Nat \ {0} /\ MaxCodeBits \in Nat \ {0}
  /\ CodeLengths \subseteq 1..MaxCodeBits
  /\ HuffmanStreams \subseteq Nat \ {0} /\ SymbolCounts \subseteq Nat
  /\ FirstGroup \subseteq Nat /\ FirstGroup # {}
  /\ SecondGroup \subseteq Nat /\ SecondGroup # {}
  /\ \A c \in FirstGroup, d \in SecondGroup : c < d
  /\ RoundSymbols * MaxCodeBits <= ByteBits * RoundBytes
  /\ ByteBits + RoundSymbols * MaxCodeBits < WordBits

VARIABLES
  cursors,       \* of every stream
  group,         \* cursors of the running decode_rounds_unchecked
  rounds,        \* of it that are left
  turn,          \* the cursor decoding a round
  symbol,        \* symbols of that round that are decoded
  huffmanPhase,  \* "closed", "count", "round", "finish", "accepted" or "refused"
  left           \* history: bits of each stream that are not decoded; Overdrawn if too many were

cursorVars == <<cursors, group, rounds, turn, symbol, huffmanPhase, left>>

Streams == FirstGroup \cup SecondGroup

Overdrawn == 0 - 1

Take(bits, count) == IF count <= bits THEN bits - count ELSE Overdrawn

LeastOf(S) == CHOOSE x \in S : \A y \in S : x <= y

\* StreamCursor::new_unchecked.  `consumed' is the number of bits shifted out,
\* those of the sentinel's word; a word with nothing left has the sentinel alone.
NewCursor(length, marker, count) ==
  LET reader == OpenFast(length, marker)
  IN  [reader |-> reader, window |-> reader.position,
       consumed |-> Least(reader.consumed, WordBits - 1),
       remaining |-> count, moved |-> FALSE]

CursorsInit ==
  /\ cursors = [s \in Streams |-> NewCursor(WordBytes, 1, 0)]
  /\ left = [s \in Streams |-> 0]
  /\ group = Streams /\ rounds = 0 /\ turn = LeastOf(Streams) /\ symbol = 0
  /\ huffmanPhase = "closed"

\* start_section_unchecked, for both sections.
OpenStreams(lengths, markers, counts) ==
  /\ huffmanPhase = "closed"
  /\ cursors' = [s \in Streams |-> NewCursor(lengths[s], markers[s], counts[s])]
  /\ left' = [s \in Streams |-> StreamBits(lengths[s], markers[s])]
  /\ huffmanPhase' = "count"
  /\ UNCHANGED <<group, rounds, turn, symbol>>
-----------------------------------------------------------------------------
(* Rounds                                                                  *)

\* Broken: a round is taken to use up a byte less than it may.
BrokenSafeRounds(c) ==
  Least((c.window - c.consumed \div ByteBits) \div (RoundBytes - 1), c.remaining \div RoundSymbols)

\* safe_rounds.
SafeRounds(c) ==
  LET used == c.consumed \div ByteBits
      room == IF used <= c.window THEN c.window - used ELSE 0
  IN  Least(room \div RoundBytes, c.remaining \div RoundSymbols)

\* What decode_two_sections_unchecked decodes after this group.
NextGroup(streams) ==
  IF streams = Streams THEN FirstGroup
  ELSE IF streams = FirstGroup THEN SecondGroup ELSE Streams

CountRounds ==
  LET count == LeastOf({SafeRounds(cursors[s]) : s \in group})
  IN  /\ huffmanPhase = "count"
      /\ rounds' = count
      /\ IF count > 0
         THEN huffmanPhase' = "round" /\ turn' = LeastOf(group) /\ UNCHANGED group
         ELSE /\ group' = NextGroup(group)
              /\ huffmanPhase' = IF group = SecondGroup THEN "finish" ELSE "count"
              /\ UNCHANGED turn
      /\ UNCHANGED <<cursors, symbol, left>>

\* The end of decode_round_unchecked: the word moves over the bytes used up.
MoveWindow(c) ==
  [c EXCEPT !.window = @ - c.consumed \div ByteBits, !.consumed = @ % ByteBits,
            !.remaining = @ - RoundSymbols, !.moved = TRUE]

\* After this cursor comes the next one of the group, then the next round.
NextTurn ==
  LET behind == {s \in group : s > turn}
  IN  IF behind # {}
      THEN turn' = LeastOf(behind) /\ UNCHANGED <<rounds, huffmanPhase>>
      ELSE /\ turn' = LeastOf(group) /\ rounds' = rounds - 1
           /\ huffmanPhase' = IF rounds = 1 THEN "count" ELSE "round"

\* One symbol of decode_round_unchecked.
DecodeSymbol(bits) ==
  LET shifted == [cursors[turn] EXCEPT !.consumed = @ + bits]
  IN  /\ huffmanPhase = "round"
      /\ left' = [left EXCEPT ![turn] = Take(@, bits)]
      /\ IF symbol + 1 < RoundSymbols
         THEN /\ symbol' = symbol + 1
              /\ cursors' = [cursors EXCEPT ![turn] = shifted]
              /\ UNCHANGED <<rounds, turn, huffmanPhase>>
         ELSE /\ symbol' = 0
              /\ cursors' = [cursors EXCEPT ![turn] = MoveWindow(shifted)]
              /\ NextTurn
      /\ UNCHANGED group
-----------------------------------------------------------------------------
(* The rest, symbol by symbol                                              *)

\* The reader that finish_unchecked goes on with.
HandOver(c) == IF c.moved THEN [position |-> c.window, consumed |-> c.consumed] ELSE c.reader

\* The first stream not decoded to its end.
Unfinished == {s \in Streams : cursors[s].remaining > 0}

\* A symbol of finish_unchecked; a stream's missing bits count as zeros.
FinishSymbol(bits) ==
  LET s == LeastOf(Unfinished)
      c == cursors[s]
  IN  /\ huffmanPhase = "finish" /\ Unfinished # {}
      /\ cursors' = [cursors EXCEPT ![s] =
           [c EXCEPT !.reader = SkipFast(Refill(HandOver(c)), bits),
                     !.moved = FALSE, !.remaining = @ - 1]]
      /\ left' = [left EXCEPT ![s] = Take(@, bits)]
      /\ UNCHANGED <<group, rounds, turn, symbol, huffmanPhase>>

\* finish_cursors_unchecked: every stream has to be used up, to its last bit.
FinishStreams ==
  /\ huffmanPhase = "finish" /\ Unfinished = {}
  /\ huffmanPhase' = IF \A s \in Streams : FastIsFinished(HandOver(cursors[s]))
                     THEN "accepted" ELSE "refused"
  /\ UNCHANGED <<cursors, group, rounds, turn, symbol, left>>

CursorsOver == huffmanPhase \in {"accepted", "refused"} /\ UNCHANGED cursorVars

CursorsNext ==
  \/ \E lengths \in [Streams -> HuffmanStreams], markers \in [Streams -> {1, ByteBits}],
        counts \in [Streams -> SymbolCounts] : OpenStreams(lengths, markers, counts)
  \/ CountRounds
  \/ \E bits \in CodeLengths : DecodeSymbol(bits) \/ FinishSymbol(bits)
  \/ FinishStreams
  \/ CursorsOver

CursorsSpec == CursorsInit /\ [][CursorsNext]_cursorVars
-----------------------------------------------------------------------------
\* The rounds counted for all streams at once are safe for each: no word starts
\* in front of its stream, every code is taken from bits above the sentinel, and
\* a cursor is always at the first bit that is not decoded; and the streams are
\* accepted exactly when their symbols take all of their bits and no more.
CursorsStayInside ==
  /\ \A s \in Streams : LET c == cursors[s] IN
       /\ c.window >= 0
       /\ huffmanPhase = "round" /\ s = turn => c.consumed + MaxCodeBits < WordBits
       /\ huffmanPhase \in {"count", "round"} =>
            \/ left[s] = ByteBits * c.window + WordBits - c.consumed
            \/ left[s] = 0 /\ ~c.moved
  /\ huffmanPhase = "accepted" => \A s \in Streams : left[s] = 0
  /\ huffmanPhase = "refused" => \E s \in Streams : left[s] # 0
=============================================================================
