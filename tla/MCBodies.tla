----------------------------- MODULE MCBodies -------------------------------
(***************************************************************************)
(* The two sections of the body of a block.  They keep tables of their own *)
(* from block to block and share none, so a behaviour is a behaviour of    *)
(* one of them, while the other rests.  Here are the texts and foreign     *)
(* trees of the literals, then the sequences and their foreign sections.   *)
(***************************************************************************)
EXTENDS LiteralsSections, SequencesSections

\* A text from runs of bytes: <<byte, how many>>, ...
FromRuns(runs) ==
  Join([r \in 1..Len(runs) |-> [i \in 1..runs[r][2] |-> runs[r][1]]])

\* Three bytes, each absent, or seldom to frequent.
FewBytes ==
  {FromRuns([r \in 1..3 |-> <<r - 1, count[r]>>]) : count \in [1..3 -> {0, 1, 7, 60}]}

\* Alphabets with counts that grow, so that a limit of depth bites: as the
\* Fibonacci numbers, and as powers of two (256 bytes and more, in four streams).
Growing ==
  {FromRuns([r \in 1..n |-> <<r, <<1, 1, 2, 3, 5, 8, 13, 21, 34>>[r]>>]) : n \in 6..9}
    \cup {FromRuns([r \in 1..n |-> <<n - r, 2^r>>]) : n \in {5, 7}}

\* Wide alphabets: sparse ones, whose weights are worth a stream; a full one,
\* whose weights are all the same; one of more weights than the direct form has.
Wide ==
  {FromRuns(<< <<0, 60>>, <<7, 3>>, <<40, 11>>, <<last, 5>> >>) : last \in {41, 90, 130}}
    \cup {FromRuns([r \in 1..n |-> <<r - 1, each>>]) : n \in {16, 33}, each \in {4, 9}}
    \cup {FromRuns([r \in 1..n |-> <<r - 1, IF r % 3 = 0 THEN 5 ELSE 1>>]) : n \in {40, 140}}

MCFirstTexts == FewBytes \cup Growing \cup Wide

MCLaterTexts ==
  {FromRuns(<< <<1, 30>>, <<2, 30>> >>), FromRuns(<< <<0, 200>>, <<2, 70>> >>),
   FromRuns(<< <<3, 40>> >>), FromRuns(<< <<0, 70>>, <<7, 70>>, <<41, 120>> >>)}

\* Trees of other writers, told directly: any three weights up to 4, in both orders
\* of nibbles; with a weight no code has; and one cut short.
Direct(weights) == WriteDirect(weights).bits
ForeignDirect ==
  {Direct(w) : w \in [1..3 -> 0..4]} \cup {Direct(<<12, 1>>), Direct(<<11, 11>>), Direct(<<0>>)}
    \cup {SubSeq(Direct(<<1, 1, 2>>), 1, 16), <<>>}

\* Trees told in a stream: from tables of every shape, among them ones the
\* scaling of this writer never makes, before streams of any last two bytes.
Norms ==
  {norm \in [0..3 -> {-1, 0, 1, 2, 15, 30, 32}] : norm[3] # 0 /\ FillsTable(norm, 5)}
Streams == {Bits(low, 8) \o Bits(high, 8) : low \in {0, 90}, high \in {1, 13, 255}}
Sized(body) == Bits(Len(body) \div 8, 8) \o body
ForeignFse ==
  {Sized(WriteDescription([log |-> 5, norm |-> norm]) \o stream) : norm \in Norms, stream \in Streams}
    \* descriptions cut short, which read on as zeros
    \cup {Sized(Bits(a, 8) \o Bits(b, 8)) : a \in {0, 1, 48, 240, 255}, b \in {0, 3, 128, 255}}

MCForeignInputs ==
  {[format |-> 0, size |-> size, bits |-> bits \o Bits(last, 8)] :
     size \in {0, 3}, bits \in ForeignDirect \cup ForeignFse, last \in {1, 21}}
    \* as many literals as a block may have, and one more
    \cup {[format |-> 3, size |-> MAX_BLOCK_SIZE + more, bits |-> Direct(<<1, 1, 2>>)] : more \in {0, 1}}
-----------------------------------------------------------------------------
Sequence(l, m, o) == [literal_length |-> l, match_length |-> m, offset |-> o]

\* The same sequence over and over: counts of one, two and three bytes.
Alike(n) == [i \in 1..n |-> Sequence(2, 3, 1)]

\* One sequence on each edge between two ways to find its codes.
Edges ==
  {<<Sequence(l, 5, 7)>> : l \in {0, 15, 16, 17, 23, 24, 63, 64, 127, 128, 65535, 65536, 131071}}
    \cup {<<Sequence(1, m, 2)>> : m \in {3, 34, 35, 36, 42, 43, 98, 99, 130, 131, 258, 259,
                                         65538, 65539, 131074}}
    \cup {<<Sequence(0, 3, o)>> : o \in {1, 2, 3, 4, 255, 256, 2^21 - 1, 2^27}}

\* Sequences whose codes differ, few and more.
Mixed(n) ==
  [i \in 1..n |-> Sequence(<<0, 3, 15, 20, 300>>[(i % 5) + 1],
                           <<3, 4, 34, 60, 1000, 131>>[(i % 6) + 1],
                           <<10, 500, 70000, 2, 1>>[((i * i) % 5) + 1])]

\* One code is frequent and the others are not: a table of its own pays.
Skewed(n) ==
  [i \in 1..n |-> Sequence(IF i % 9 = 0 THEN 40 + i ELSE 0, IF i % 7 = 0 THEN 3 + i ELSE 4, 1 + (i % 3))]

MCFirstRecords ==
  Edges \cup {Alike(n) : n \in {3, 4, 23, 24, 30}}
    \cup {Mixed(2), Mixed(3), Mixed(17), Skewed(40), Skewed(75)}

MCLaterRecords == {<<>>, <<Sequence(70, 70, 70)>>, Mixed(5), Skewed(30)}

\* Two long sequences at distances of megabytes, as in a block of 128 KiB of
\* which long pieces were seen before.
MCLongRecords ==
  {<<Sequence(8192, 1100, 2^20), Sequence(l, m, 2^21 + 5)>> : l \in {1024, 16384}, m \in {1100, 16387}}

\* Tables of other writers: described in shapes the scaling of this writer
\* never makes, cut short, of one symbol that may have no base, kept from nowhere.
Described(norm) == WriteDescription([log |-> 5, norm |-> norm])
Descriptions ==
  {Described(norm) : norm \in {norm \in [0..3 -> {-1, 0, 1, 13, 16}] : norm[3] # 0 /\ FillsTable(norm, 5)}}
    \cup {Described([s \in 0..58 |-> IF s = 58 THEN 1 ELSE IF s = 0 THEN 31 ELSE 0])}
    \cup {Bits(a, 8) \o Bits(b, 8) : a \in {0, 16, 240}, b \in {0, 128, 255}}

ForeignSection(field, mode, told) ==
  [count |-> <<2>>, modes |-> [[f \in Fields |-> "Predefined"] EXCEPT ![field] = mode],
   bits |-> told \o Bits(77, 8) \o Bits(1, 8)]

MCForeignSections ==
  {ForeignSection(f, "Compressed", told) : f \in Fields, told \in Descriptions}
    \cup {ForeignSection(f, "Rle", Bits(s, 8)) : f \in Fields, s \in {31, 32, 35, 36, 52, 53}}
    \cup {ForeignSection(f, "Repeat", <<>>) : f \in Fields}
-----------------------------------------------------------------------------
VARIABLE part   \* which section moves

MCInit == Init /\ SequencesInit /\ part \in {"literals", "sequences"}

MCNext ==
  /\ UNCHANGED part
  /\ \/ part = "literals" /\ Next /\ UNCHANGED sequencesVars
     \/ part = "sequences" /\ SequencesNext /\ UNCHANGED vars

MCSpec == MCInit /\ [][MCNext]_<<vars, sequencesVars, part>>
-----------------------------------------------------------------------------
\* What a reader accepts, from any writer, it can decode with: Huffman trees,
\* the tables of their weights, and the tables of the sequences.
ReadTablesAreSound == TreesAreSound /\ SequenceTablesAreSound
=============================================================================
