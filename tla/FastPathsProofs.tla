-------------------------- MODULE FastPathsProofs --------------------------
(***************************************************************************)
(* Theorems about the fast paths of the decoder: SequenceExecution, for    *)
(* every width of a vector, slack, size of a block, length of the output   *)
(* and stream of sequences; behind it HuffmanCursors and SequenceReader,   *)
(* for every size of a byte, a word and a round, and streams of any length.*)
(*                                                                         *)
(* What is behind `position + moved' of the output is never relied on, but *)
(* for the literals of the second block of a pair; what is before it is    *)
(* final.  A match that is copied in vectors repeats at every distance the *)
(* doubling reaches, as soon as so much of it is copied.                   *)
(***************************************************************************)
EXTENDS SequenceExecution, SequenceReader, HuffmanCursors, SequenceTheorems,
        NaturalsInduction, WellFoundedInduction, TLAPS

Bytes == Int \X Int
Phases == {"frame", "block", "literals", "match", "copy", "refused"}
BlockRecords ==
  [number : Nat, source : {"none", "raw", "rle", "decoded", "parked"}, count : Nat,
   readable : Nat, start : Nat, path : {"slow", "fast"}, left : Nat]
SequenceRecords == [literals : Nat, match : Nat, offset : Nat, exact : BOOLEAN]

\* The first n bytes of an output are those of a text.
AgreeUpTo(out, bytes, n) == \A i \in 0..n - 1 : out[i] = bytes[i + 1]

\* The literals of a block are in the output, where the block expects them.
LiteralsAreIn(out, b) == \A i \in 0..b.count - 1 : out[b.start + i] = Literal(b.number, i)

\* Behind the first "start" bytes of a text comes a match.
MatchIsIn(bytes, start, length, offset) ==
  \A i \in 0..length - 1 : bytes[start + i + 1] = bytes[start - offset + (i % offset) + 1]

\* That match repeats what lies a distance before it, as far as it and the
\* bytes it was copied from go back.
Repeats(bytes, start, length, offset, distance) ==
  \A j \in start..start + length - 1 :
    j - distance >= start - offset => bytes[j + 1] = bytes[j + 1 - distance]

\* Behind the first "start" bytes of a text come literals of a block.
LiteralsComeNext(bytes, start, length, b, from) ==
  \A i \in 0..length - 1 :
    bytes[start + i + 1] = IF b.source = "rle" THEN Literal(b.number, 0)
                                               ELSE Literal(b.number, from + i)
-----------------------------------------------------------------------------
(***************************************************************************)
(* The inductive invariant.                                                *)
(***************************************************************************)
ExecutionTypeOK ==
  /\ outputLength \in Nat /\ position \in Nat /\ position <= outputLength
  /\ blockStart \in Nat /\ blockStart <= position
  /\ block \in BlockRecords /\ parked \in BlockRecords
  /\ sequence \in SequenceRecords
  /\ cursor \in Nat /\ moved \in Nat /\ step \in Nat /\ begun \in Nat
  /\ phase \in Phases /\ valid \in BOOLEAN /\ text \in Seq(Bytes)

\* What a block's memory has behind its literals.
IsReadable(b) ==
  /\ b.source # "rle" => b.count <= b.readable
  /\ b.path = "fast" => b.count + Vector <= b.readable

BlocksFit ==
  /\ phase # "frame" => cursor <= block.count
  /\ IsReadable(block) /\ IsReadable(parked)
  /\ parked = NoBlock \/ parked.source = "parked"

\* Literals that wait in the output are whole, and far enough from what the
\* block being executed may write.
LiteralsWait ==
  /\ (valid /\ parked # NoBlock) =>
       /\ blockStart + PairedLiteralsDistance <= parked.start
       /\ parked.start + parked.count <= outputLength
       /\ LiteralsAreIn(output, parked)
  /\ (valid /\ block.source = "parked") =>
       /\ blockStart + MaxBlock + Slack <= block.start
       /\ block.start + block.count <= outputLength
       /\ LiteralsAreIn(output, block)

InFrame == phase = "frame" => valid /\ moved = 0 /\ position = Len(text) /\ parked = NoBlock

InBlock ==
  phase = "block" =>
    /\ valid /\ moved = 0 /\ position = Len(text)
    /\ position - blockStart <= MaxBlock

InLiterals ==
  phase = "literals" =>
    LET end == position + sequence.literals + sequence.match
    IN  /\ moved < sequence.literals
        /\ cursor + sequence.literals <= block.count
        /\ position + sequence.literals <= outputLength
        /\ sequence.exact => moved = 0
        /\ ~sequence.exact => block.path = "fast" /\ end + Slack <= outputLength
        /\ block.path = "fast" => end - blockStart <= MaxBlock /\ end <= outputLength
        /\ valid <=> /\ end - blockStart <= MaxBlock /\ end <= outputLength
                     /\ sequence.match > 0 => sequence.offset \in 1..position + sequence.literals
        /\ valid =>
             /\ Len(text) = end
             /\ LiteralsComeNext(text, position, sequence.literals, block, cursor)
             /\ sequence.match > 0 =>
                  MatchIsIn(text, position + sequence.literals, sequence.match, sequence.offset)

InMatch ==
  phase = "match" =>
    LET end == position + sequence.match
    IN  /\ sequence.match > 0 /\ moved = 0
        /\ block.path = "fast" => end - blockStart <= MaxBlock /\ end <= outputLength
        /\ valid <=> /\ end - blockStart <= MaxBlock /\ end <= outputLength
                     /\ sequence.offset \in 1..position
        /\ valid => /\ Len(text) = end
                    /\ MatchIsIn(text, position, sequence.match, sequence.offset)

InCopy ==
  phase = "copy" =>
    LET end == position + sequence.match
    IN  /\ moved < sequence.match /\ end + Slack <= outputLength
        /\ sequence.offset \in 1..position
        /\ sequence.offset <= step /\ step - sequence.offset <= moved
        /\ block.path = "fast" => end - blockStart <= MaxBlock
        /\ valid <=> end - blockStart <= MaxBlock
        /\ valid => /\ Len(text) = end
                    /\ Repeats(text, position, sequence.match, sequence.offset, step)

InRefused == phase = "refused" => ~valid

IsPlainSoFar == valid => AgreeUpTo(output, text, position + moved)

IInv ==
  /\ ExecutionTypeOK /\ BlocksFit /\ LiteralsWait
  /\ InFrame /\ InBlock /\ InLiterals /\ InMatch /\ InCopy /\ InRefused
  /\ IsPlainSoFar
-----------------------------------------------------------------------------
(***************************************************************************)
(* What a plain execution appends to a text.                               *)
(***************************************************************************)
LEMMA Division ==
  ASSUME NEW n \in Nat, NEW d \in Nat, d > 0
  PROVE  /\ n \div d \in Nat /\ n % d \in Nat /\ n % d < d
         /\ n = (n \div d) * d + (n % d)
OBVIOUS

LEMMA DivisionIs ==
  ASSUME NEW n \in Nat, NEW d \in Nat, d > 0, NEW q \in Nat, NEW r \in Nat,
         n = q * d + r, r < d
  PROVE  n \div d = q /\ n % d = r
OBVIOUS

\* One distance further back the remainder is the same.
LEMMA RemainderRepeats ==
  ASSUME NEW n \in Nat, NEW d \in Nat, d > 0
  PROVE  /\ n < d => n % d = n
         /\ n >= d => n % d = (n - d) % d
<1>1. ASSUME n < d PROVE n % d = n
  <2>1. n = 0 * d + n
    OBVIOUS
  <2> QED
    BY <1>1, <2>1, DivisionIs
<1>2. ASSUME n >= d PROVE n % d = (n - d) % d
  <2>1. PICK m \in Nat : m = n - d
    BY <1>2
  <2>2. PICK q \in Nat, r \in Nat : q = m \div d /\ r = m % d /\ r < d /\ m = q * d + r
    BY Division
  <2>3. PICK p \in Nat : p = q + 1
    OBVIOUS
  <2>4. n = p * d + r
    BY <2>1, <2>2, <2>3
  <2>5. n % d = r
    BY <2>2, <2>4, DivisionIs
  <2> QED
    BY <2>1, <2>2, <2>5
<1> QED
  BY <1>1, <1>2

\* A match repeats at its own distance.
LEMMA MatchRepeats ==
  ASSUME NEW bytes, NEW start \in Nat, NEW length \in Nat, NEW offset \in 1..start,
         MatchIsIn(bytes, start, length, offset)
  PROVE  Repeats(bytes, start, length, offset, offset)
<1> SUFFICES ASSUME NEW j \in start..start + length - 1
             PROVE  bytes[j + 1] = bytes[j + 1 - offset]
  BY DEF Repeats
<1>1. PICK i \in Nat : i = j - start /\ i \in 0..length - 1
  OBVIOUS
<1>2. bytes[start + i + 1] = bytes[start - offset + (i % offset) + 1]
  BY <1>1 DEF MatchIsIn
<1>3. CASE i < offset
  <2>1. i % offset = i
    BY <1>3, RemainderRepeats
  <2>2. start + i + 1 = j + 1 /\ start - offset + i + 1 = j + 1 - offset
    BY <1>1
  <2> QED
    BY <1>2, <2>1, <2>2
<1>4. CASE ~(i < offset)
  <2>1. PICK k \in Nat : k = i - offset /\ k \in 0..length - 1
    BY <1>1, <1>4
  <2>2. bytes[start + k + 1] = bytes[start - offset + (k % offset) + 1]
    BY <2>1 DEF MatchIsIn
  <2>3. i % offset = k % offset
    BY <1>4, <2>1, RemainderRepeats
  <2>4. start + i + 1 = j + 1 /\ start + k + 1 = j + 1 - offset
    BY <1>1, <2>1
  <2> QED
    BY <1>2, <2>2, <2>3, <2>4
<1> QED
  BY <1>3, <1>4

\* Twice a distance at which it repeats is another one.
LEMMA RepeatsDouble ==
  ASSUME NEW bytes, NEW start \in Nat, NEW length \in Nat, NEW offset \in Nat, NEW distance \in Nat,
         offset <= distance, Repeats(bytes, start, length, offset, distance)
  PROVE  Repeats(bytes, start, length, offset, 2 * distance)
<1> SUFFICES ASSUME NEW j \in start..start + length - 1, j - 2 * distance >= start - offset
             PROVE  bytes[j + 1] = bytes[j + 1 - 2 * distance]
  BY DEF Repeats
<1>1. PICK k \in Int : k = j - distance
  OBVIOUS
<1>2. k \in start..start + length - 1 /\ k - distance >= start - offset /\ j - distance >= start - offset
  BY <1>1
<1>3. bytes[j + 1] = bytes[j + 1 - distance] /\ bytes[k + 1] = bytes[k + 1 - distance]
  BY <1>2 DEF Repeats
<1>4. j + 1 - distance = k + 1 /\ k + 1 - distance = j + 1 - 2 * distance
  BY <1>1
<1> QED
  BY <1>3, <1>4

\* A text behind which literals and a match are appended.
IsAppended(u, t, l, m) ==
  /\ u \in Seq(Bytes) /\ Len(u) = Len(t) + Len(l) + Len(m)
  /\ \A i \in 1..Len(t) : u[i] = t[i]
  /\ \A i \in 1..Len(l) : u[Len(t) + i] = l[i]
  /\ \A i \in 1..Len(m) : u[Len(t) + Len(l) + i] = m[i]
  /\ \A i \in 1..Len(t) + Len(l) : u[i] = (t \o l)[i]

LEMMA AppendedText ==
  ASSUME NEW t \in Seq(Bytes), NEW l \in Seq(Bytes), NEW m \in Seq(Bytes), NEW u,
         u = (t \o l) \o m
  PROVE  IsAppended(u, t, l, m)
BY DEF IsAppended

LEMMA PlainLiteralsType ==
  ASSUME ExecutionTypeOK, NEW n \in Nat
  PROVE  /\ PlainLiterals(n) \in Seq(Bytes) /\ Len(PlainLiterals(n)) = n
         /\ \A i \in 1..n : PlainLiterals(n)[i] = PlainLiteral(cursor + i - 1)
<1>1. block.number \in Nat /\ cursor \in Nat
  BY DEF ExecutionTypeOK, BlockRecords
<1>2. \A i \in 1..n : PlainLiteral(cursor + i - 1) \in Bytes
  BY <1>1 DEF PlainLiteral, Literal, Bytes
<1> QED
  BY <1>2 DEF PlainLiterals

IsMatchBehind(m, t, length, offset) ==
  \A i \in 1..length : m[i] = t[Len(t) - offset + 1 + ((i - 1) % offset)]

LEMMA PlainMatchType ==
  ASSUME NEW t \in Seq(Bytes), NEW length \in Nat, NEW offset \in 1..Len(t)
  PROVE  /\ PlainMatch(t, length, offset) \in Seq(Bytes)
         /\ Len(PlainMatch(t, length, offset)) = length
         /\ IsMatchBehind(PlainMatch(t, length, offset), t, length, offset)
<1>1. ASSUME NEW i \in 1..length
      PROVE  t[Len(t) - offset + 1 + ((i - 1) % offset)] \in Bytes
  <2>1. PICK r \in Nat : r = (i - 1) % offset /\ r < offset
    BY Division
  <2>2. Len(t) - offset + 1 + r \in 1..Len(t)
    BY <2>1
  <2> QED
    BY <2>1, <2>2
<1> QED
  BY <1>1 DEF PlainMatch, IsMatchBehind

LEMMA PlainExecuteAppends ==
  ASSUME ExecutionTypeOK, position = Len(text),
         NEW literals \in Nat, NEW match \in Nat, NEW offset \in Nat,
         PlainExecute(literals, match, offset), valid'
  PROVE  /\ text' \in Seq(Bytes) /\ Len(text') = position + literals + match
         /\ \A i \in 1..position : text'[i] = text[i]
         /\ LiteralsComeNext(text', position, literals, block, cursor)
         /\ match > 0 => MatchIsIn(text', position + literals, match, offset)
<1>1. text \in Seq(Bytes) /\ position \in Nat
  BY DEF ExecutionTypeOK
<1>2. PICK l \in Seq(Bytes) :
        /\ l = PlainLiterals(literals) /\ Len(l) = literals
        /\ \A i \in 1..literals : l[i] = PlainLiteral(cursor + i - 1)
  BY PlainLiteralsType
<1> DEFINE b == text \o l
           m == IF match = 0 THEN <<>> ELSE PlainMatch(b, match, offset)
<1>3. b \in Seq(Bytes) /\ Len(b) = position + literals
  <2>1. PICK t \in Seq(Bytes) : t = text
    BY <1>1
  <2>2. t \o l \in Seq(Bytes) /\ Len(t \o l) = Len(t) + Len(l)
    OBVIOUS
  <2> QED
    BY <1>2, <2>1, <2>2
<1>4. PlainAccepts(literals, match, offset)
  BY DEF PlainExecute
<1>5. text' = IF match = 0 THEN b ELSE b \o PlainMatch(b, match, offset)
  BY <1>2, <1>4 DEF PlainExecute
<1> HIDE DEF b
<1>6. /\ text' = b \o m /\ m \in Seq(Bytes) /\ Len(m) = match
      /\ match > 0 => IsMatchBehind(m, b, match, offset)
  <2>1. CASE match = 0
    <3>1. m = <<>>
      BY <2>1
    <3>2. b \o <<>> = b /\ <<>> \in Seq(Bytes) /\ Len(<<>>) = 0
      BY <1>3
    <3> HIDE DEF m
    <3> QED
      BY <1>5, <2>1, <3>1, <3>2
  <2>2. CASE match > 0
    <3>1. offset \in 1..Len(b)
      BY <1>3, <1>4, <2>2 DEF PlainAccepts
    <3>2. m = PlainMatch(b, match, offset) /\ text' = b \o m
      BY <1>5, <2>2
    <3> HIDE DEF m
    <3>3. m \in Seq(Bytes) /\ Len(m) = match /\ IsMatchBehind(m, b, match, offset)
      BY <1>3, <3>1, <3>2, PlainMatchType
    <3> QED
      BY <3>2, <3>3
  <2> QED
    BY <2>1, <2>2
<1> HIDE DEF m
<1>7. /\ text' \in Seq(Bytes) /\ Len(text') = position + literals + match
      /\ \A i \in 1..position : text'[i] = text[i]
      /\ \A i \in 1..literals : text'[position + i] = l[i]
      /\ \A i \in 1..match : text'[position + literals + i] = m[i]
      /\ \A i \in 1..position + literals : text'[i] = b[i]
  <2>1. PICK t \in Seq(Bytes), u \in {text'} : t = text /\ u = text' /\ u = (t \o l) \o m /\ b = t \o l
    BY <1>1, <1>6 DEF b
  <2>2. m \in Seq(Bytes)
    BY <1>6
  <2>4. IsAppended(u, t, l, m)
    BY <2>1, <2>2, AppendedText
  <2>3. Len(t) = position /\ Len(l) = literals /\ Len(m) = match
    BY <1>2, <1>6, <2>1
  <2> QED
    BY <2>1, <2>3, <2>4 DEF IsAppended
<1>8. LiteralsComeNext(text', position, literals, block, cursor)
  <2> SUFFICES ASSUME NEW i \in 0..literals - 1
               PROVE  text'[position + i + 1] = PlainLiteral(cursor + i)
    BY DEF LiteralsComeNext, PlainLiteral
  <2>1. PICK k \in 1..literals : k = i + 1
    OBVIOUS
  <2>2. text'[position + k] = PlainLiteral(cursor + k - 1)
    BY <1>2, <1>7
  <2>3. position + k = position + i + 1 /\ cursor + k - 1 = cursor + i
    BY <1>1, <2>1 DEF ExecutionTypeOK
  <2> QED
    BY <2>2, <2>3
<1>9. ASSUME match > 0 PROVE MatchIsIn(text', position + literals, match, offset)
  <2> SUFFICES ASSUME NEW i \in 0..match - 1
               PROVE  text'[position + literals + i + 1]
                        = text'[position + literals - offset + (i % offset) + 1]
    BY DEF MatchIsIn
  <2>1. PICK k \in 1..match : k = i + 1
    OBVIOUS
  <2>2. offset \in 1..position + literals
    BY <1>4, <1>9 DEF PlainAccepts
  <2>3. PICK r \in Nat : r = i % offset /\ r < offset
    BY <2>2, Division
  <2>4. text'[position + literals + k] = b[Len(b) - offset + 1 + ((k - 1) % offset)]
    BY <1>6, <1>7, <1>9 DEF IsMatchBehind
  <2>5. k - 1 = i
    BY <2>1
  <2>6. position + literals - offset + r + 1 \in 1..position + literals
    BY <1>1, <2>2, <2>3
  <2>7. text'[position + literals - offset + r + 1] = b[position + literals - offset + r + 1]
    BY <1>7, <2>6
  <2>8. /\ position + literals + k = position + literals + i + 1
        /\ Len(b) - offset + 1 + r = position + literals - offset + r + 1
    BY <1>1, <1>3, <2>1, <2>3
  <2> QED
    BY <2>3, <2>4, <2>5, <2>7, <2>8
<1> QED
  BY <1>7, <1>8, <1>9
-----------------------------------------------------------------------------
(***************************************************************************)
(* Constants, fields, and what a write leaves alone.                       *)
(***************************************************************************)
LEMMA Sizes ==
  /\ Vector \in Nat /\ Vector > 0 /\ Slack \in Nat /\ Slack >= Vector
  /\ ReadSlack \in Nat /\ ReadSlack >= Vector /\ MaxBlock \in Nat
  /\ PairedLiteralsDistance = 2 * MaxBlock + 2 * Slack
  /\ PairedOutputRoom = 3 * MaxBlock + 2 * Slack + ReadSlack
  /\ LiteralsBufferLength = MaxBlock + Slack
BY ExecutionAssumption DEF PairedLiteralsDistance, PairedOutputRoom, LiteralsBufferLength

LEMMA Fields ==
  ASSUME ExecutionTypeOK
  PROVE  /\ sequence.literals \in Nat /\ sequence.match \in Nat /\ sequence.offset \in Nat
         /\ sequence.exact \in BOOLEAN
         /\ block.number \in Nat /\ block.count \in Nat /\ block.readable \in Nat
         /\ block.start \in Nat /\ block.left \in Nat /\ block.path \in {"slow", "fast"}
         /\ parked.number \in Nat /\ parked.count \in Nat /\ parked.readable \in Nat
         /\ parked.start \in Nat
BY DEF ExecutionTypeOK, SequenceRecords, BlockRecords

LEMMA NoBlockFits == NoBlock \in BlockRecords /\ IsReadable(NoBlock) /\ NoBlock.source = "none"
BY Sizes DEF NoBlock, Block, BlockRecords, IsReadable

\* Only bytes from "start" on, so many, were written.
OnlyWritten(start, length) ==
  \A i \in 0..outputLength - 1 :
    i \notin start..start + length - 1 => output'[i] = output[i]

\* What lies behind a write stays.
LEMMA LiteralsStay ==
  ASSUME NEW b \in BlockRecords, NEW start \in Nat, NEW length \in Nat, outputLength \in Nat,
         OnlyWritten(start, length), start + length <= b.start,
         b.start + b.count <= outputLength, LiteralsAreIn(output, b)
  PROVE  LiteralsAreIn(output', b)
<1>1. b.start \in Nat /\ b.count \in Nat
  BY DEF BlockRecords
<1> SUFFICES ASSUME NEW i \in 0..b.count - 1
             PROVE  output'[b.start + i] = Literal(b.number, i)
  BY DEF LiteralsAreIn
<1>2. PICK k \in Nat : k = b.start + i /\ k \in 0..outputLength - 1 /\ k \notin start..start + length - 1
  BY <1>1
<1>3. output'[k] = output[k]
  BY <1>2 DEF OnlyWritten
<1> QED
  BY <1>2, <1>3 DEF LiteralsAreIn

\* A write of the block that is being executed.
LEMMA LiteralsStillWait ==
  ASSUME ExecutionTypeOK, BlocksFit, LiteralsWait, NEW start \in Nat, NEW length \in Nat,
         OnlyWritten(start, length), valid => start + length <= blockStart + MaxBlock + Slack
  PROVE  /\ (valid /\ parked # NoBlock) =>
              /\ blockStart + PairedLiteralsDistance <= parked.start
              /\ parked.start + parked.count <= outputLength
              /\ LiteralsAreIn(output', parked)
         /\ (valid /\ block.source = "parked") =>
              /\ blockStart + MaxBlock + Slack <= block.start
              /\ block.start + block.count <= outputLength
              /\ LiteralsAreIn(output', block)
<1>1. outputLength \in Nat /\ blockStart \in Nat /\ block \in BlockRecords /\ parked \in BlockRecords
  BY DEF ExecutionTypeOK
<1>2. ASSUME valid, parked # NoBlock
      PROVE  /\ blockStart + PairedLiteralsDistance <= parked.start
             /\ parked.start + parked.count <= outputLength
             /\ LiteralsAreIn(output', parked)
  <2>1. /\ blockStart + PairedLiteralsDistance <= parked.start
        /\ parked.start + parked.count <= outputLength
        /\ LiteralsAreIn(output, parked)
    BY <1>2 DEF LiteralsWait
  <2>2. start + length <= parked.start
    BY <1>1, <1>2, <2>1, Sizes, Fields
  <2> QED
    BY <1>1, <2>1, <2>2, LiteralsStay
<1>3. ASSUME valid, block.source = "parked"
      PROVE  /\ blockStart + MaxBlock + Slack <= block.start
             /\ block.start + block.count <= outputLength
             /\ LiteralsAreIn(output', block)
  <2>1. /\ blockStart + MaxBlock + Slack <= block.start
        /\ block.start + block.count <= outputLength
        /\ LiteralsAreIn(output, block)
    BY <1>3 DEF LiteralsWait
  <2>2. start + length <= block.start
    BY <1>1, <1>3, <2>1, Sizes, Fields
  <2> QED
    BY <1>1, <2>1, <2>2, LiteralsStay
<1> QED
  BY <1>2, <1>3

\* A write behind what is done, of the bytes a plain execution would write.
LEMMA AgreesFurther ==
  ASSUME outputLength \in Nat, NEW done \in Nat, NEW width \in Nat, NEW right \in Nat,
         right <= width, done + right <= outputLength,
         OnlyWritten(done, width), AgreeUpTo(output, text, done),
         \A i \in 0..right - 1 : output'[done + i] = text[done + i + 1]
  PROVE  AgreeUpTo(output', text, done + right)
<1> SUFFICES ASSUME NEW i \in 0..done + right - 1 PROVE output'[i] = text[i + 1]
  BY DEF AgreeUpTo
<1>1. CASE i < done
  <2>1. i \in 0..outputLength - 1 /\ i \notin done..done + width - 1 /\ i \in 0..done - 1
    BY <1>1
  <2> QED
    BY <2>1 DEF OnlyWritten, AgreeUpTo
<1>2. CASE ~(i < done)
  <2>1. PICK k \in 0..right - 1 : i = done + k
    BY <1>2
  <2> QED
    BY <2>1
<1> QED
  BY <1>1, <1>2
-----------------------------------------------------------------------------
(***************************************************************************)
(* Blocks begin.                                                           *)
(***************************************************************************)
LEMMA InitIInv == ExecutionInit => IInv
<1> SUFFICES ASSUME ExecutionInit PROVE IInv
  OBVIOUS
<1>1. outputLength \in Nat /\ position \in Nat /\ position <= outputLength
  BY ExecutionAssumption DEF ExecutionInit
<1>2. text \in Seq(Bytes) /\ Len(text) = position /\ \A i \in 1..position : text[i] = Literal(0, i - 1)
  <2>1. \A i \in 1..position : Literal(0, i - 1) \in Bytes
    BY <1>1 DEF Literal, Bytes
  <2> QED
    BY <1>1, <2>1 DEF ExecutionInit
<1>3. ExecutionTypeOK
  <2>1. sequence \in SequenceRecords
    BY DEF ExecutionInit, NoSequence, SequenceRecords
  <2> QED
    BY <1>1, <1>2, <2>1, NoBlockFits DEF ExecutionInit, ExecutionTypeOK, Phases
<1>4. BlocksFit
  BY NoBlockFits DEF ExecutionInit, BlocksFit
<1>5. LiteralsWait
  BY NoBlockFits DEF ExecutionInit, LiteralsWait
<1>6. IsPlainSoFar
  <2>1. \A i \in 0..position - 1 : output[i] = text[i + 1]
    <3> TAKE i \in 0..position - 1
    <3>1. i \in 0..outputLength - 1 /\ i < position /\ i + 1 \in 1..position /\ (i + 1) - 1 = i
      BY <1>1
    <3>2. output[i] = Literal(0, i)
      BY <3>1 DEF ExecutionInit
    <3> QED
      BY <1>2, <3>1, <3>2
  <2>2. position + moved = position
    BY <1>1 DEF ExecutionInit
  <2> QED
    BY <2>1, <2>2 DEF IsPlainSoFar, AgreeUpTo
<1>7. InFrame /\ InBlock /\ InLiterals /\ InMatch /\ InCopy /\ InRefused
  BY <1>2 DEF ExecutionInit, InFrame, InBlock, InLiterals, InMatch, InCopy, InRefused
<1> QED
  BY <1>3, <1>4, <1>5, <1>6, <1>7 DEF IInv

\* What a block has behind its literals, by where they are.
LEMMA PathsAreReadable ==
  ASSUME NEW source \in {"raw", "rle", "decoded"}, NEW count \in LiteralCounts, NEW rest \in Nat,
         NEW due \in Nat, NEW path \in PathsOf(source, rest, due), NEW number \in Nat
  PROVE  LET b == Block(number, source, count, Readable(source, count, rest), 0, path, due)
         IN  b \in BlockRecords /\ IsReadable(b) /\ b.source = source /\ b.count = count
<1>1. count \in Nat /\ count <= MaxBlock
  BY ExecutionAssumption
<1>2. path \in {"slow", "fast"} /\ (path = "fast" => HasReadSlack(source, rest))
  BY DEF PathsOf
<1>3. CASE source = "raw"
  <2>1. Readable(source, count, rest) = count + rest
    BY <1>3 DEF Readable
  <2>2. path = "fast" => rest >= ReadSlack
    BY <1>2, <1>3 DEF HasReadSlack
  <2> QED
    BY <1>1, <1>2, <1>3, <2>1, <2>2, Sizes DEF Block, BlockRecords, IsReadable
<1>4. CASE source = "rle"
  <2>1. Readable(source, count, rest) = 0
    BY <1>4 DEF Readable
  <2>2. path = "slow"
    BY <1>2, <1>4 DEF HasReadSlack
  <2> QED
    BY <1>1, <1>2, <1>4, <2>1, <2>2, Sizes DEF Block, BlockRecords, IsReadable
<1>5. CASE source = "decoded"
  <2>1. Readable(source, count, rest) = MaxBlock + Slack
    BY <1>5, Sizes DEF Readable
  <2> QED
    BY <1>1, <1>2, <1>5, <2>1, Sizes DEF Block, BlockRecords, IsReadable
<1> QED
  BY <1>3, <1>4, <1>5

LEMMA StartBlockKeepsIInv ==
  ASSUME IInv, NEW source \in {"raw", "rle", "decoded"}, NEW count \in LiteralCounts,
         NEW rest \in PayloadRests, NEW due \in 0..MaxSequences,
         StartBlock(source, count, rest, due)
  PROVE  IInv'
<1>0. ExecutionTypeOK /\ BlocksFit /\ LiteralsWait /\ InFrame /\ IsPlainSoFar
  BY DEF IInv
<1>1. /\ phase = "frame" /\ phase' = "block" /\ begun' = begun + 1 /\ blockStart' = position
      /\ cursor' = 0
      /\ UNCHANGED <<outputLength, output, position, parked, sequence, moved, step, text, valid>>
  BY DEF StartBlock
<1>2. valid /\ moved = 0 /\ position = Len(text) /\ parked = NoBlock
  BY <1>0, <1>1 DEF InFrame
<1>3. block' \in BlockRecords /\ IsReadable(block') /\ block'.source = source
  <2>1. rest \in Nat /\ due \in Nat /\ begun + 1 \in Nat
    BY <1>0, ExecutionAssumption DEF ExecutionTypeOK
  <2>2. PICK path \in PathsOf(source, rest, due) :
          block' = Block(begun + 1, source, count, Readable(source, count, rest), 0, path, due)
    BY DEF StartBlock
  <2> QED
    BY <2>1, <2>2, PathsAreReadable
<1>4. ExecutionTypeOK'
  BY <1>0, <1>1, <1>3 DEF ExecutionTypeOK, Phases
<1>5. BlocksFit'
  <2>1. block'.count \in Nat
    BY <1>3 DEF BlockRecords
  <2>2. IsReadable(parked)'
    BY <1>0, <1>1 DEF BlocksFit, IsReadable
  <2>3. IsReadable(block)'
    BY <1>3 DEF IsReadable
  <2> QED
    BY <1>1, <1>2, <2>1, <2>2, <2>3 DEF BlocksFit
<1>6. LiteralsWait'
  BY <1>1, <1>2, <1>3 DEF LiteralsWait
<1>7. InBlock'
  BY <1>0, <1>1, <1>2, Sizes DEF InBlock, ExecutionTypeOK
<1>8. InFrame' /\ InLiterals' /\ InMatch' /\ InCopy' /\ InRefused'
  BY <1>1 DEF InFrame, InLiterals, InMatch, InCopy, InRefused
<1>9. IsPlainSoFar'
  BY <1>0, <1>1 DEF IsPlainSoFar, AgreeUpTo
<1> QED
  BY <1>4, <1>5, <1>6, <1>7, <1>8, <1>9 DEF IInv

LEMMA StartPairKeepsIInv ==
  ASSUME IInv, NEW count \in LiteralCounts, NEW parkedCount \in LiteralCounts,
         NEW due \in 0..MaxSequences, NEW parkedLeft \in 0..MaxSequences,
         StartPair(count, due, parkedCount, parkedLeft)
  PROVE  IInv'
<1>0. ExecutionTypeOK /\ BlocksFit /\ LiteralsWait /\ InFrame /\ IsPlainSoFar
  BY DEF IInv
<1> DEFINE start == position + PairedLiteralsDistance
<1>1. /\ phase = "frame" /\ phase' = "block" /\ begun' = begun + 2 /\ blockStart' = position
      /\ cursor' = 0 /\ outputLength >= position + PairedOutputRoom
      /\ UNCHANGED <<outputLength, position, sequence, moved, step, text, valid>>
  BY DEF StartPair
<1>2. valid /\ moved = 0 /\ position = Len(text) /\ parked = NoBlock
  BY <1>0, <1>1 DEF InFrame
<1>3. /\ position \in Nat /\ outputLength \in Nat /\ begun \in Nat /\ due \in Nat /\ parkedLeft \in Nat
      /\ begun + 1 \in Nat /\ begun + 2 \in Nat /\ start \in Nat
      /\ parkedCount \in Nat /\ parkedCount <= MaxBlock
      /\ start + MaxBlock + ReadSlack <= outputLength /\ position <= start
  BY <1>0, <1>1, ExecutionAssumption, Sizes DEF ExecutionTypeOK
<1>4. block' \in BlockRecords /\ IsReadable(block') /\ block'.source = "decoded"
  <2>1. PICK path \in PathsOf("decoded", 0, due) :
          block' = Block(begun + 1, "decoded", count, LiteralsBufferLength, 0, path, due)
    BY DEF StartPair
  <2>2. LiteralsBufferLength = Readable("decoded", count, 0)
    BY DEF Readable
  <2> QED
    BY <1>3, <2>1, <2>2, PathsAreReadable
<1>5. /\ parked' \in BlockRecords /\ IsReadable(parked') /\ parked'.source = "parked"
      /\ parked'.start = start /\ parked'.count = parkedCount /\ parked'.number = begun + 2
  <2>1. PICK path \in PathsOf("parked", 0, parkedLeft) :
          parked' = Block(begun + 2, "parked", parkedCount, outputLength - start, start, path, parkedLeft)
    BY DEF StartPair
  <2>2. path \in {"slow", "fast"}
    BY DEF PathsOf
  <2>3. PICK n \in Nat : n = outputLength - start /\ MaxBlock + ReadSlack <= n
    BY <1>3, Sizes
  <2>4. parked' = Block(begun + 2, "parked", parkedCount, n, start, path, parkedLeft)
    BY <2>1, <2>3
  <2>5. parkedCount <= n /\ parkedCount + Vector <= n
    BY <1>3, <2>3, Sizes
  <2> HIDE DEF start
  <2> QED
    BY <1>3, <2>2, <2>4, <2>5 DEF Block, BlockRecords, IsReadable
<1>6. \A i \in 0..outputLength - 1 :
        output'[i] = IF i \in start..start + parkedCount - 1 THEN Literal(begun + 2, i - start)
                                                             ELSE output[i]
  BY DEF StartPair, Stored
<1> HIDE DEF start
<1>7. ExecutionTypeOK'
  BY <1>0, <1>1, <1>3, <1>4, <1>5 DEF ExecutionTypeOK, Phases
<1>8. BlocksFit'
  <2>1. block'.count \in Nat
    BY <1>4 DEF BlockRecords
  <2>2. IsReadable(parked)' /\ IsReadable(block)'
    BY <1>4, <1>5 DEF IsReadable
  <2> QED
    BY <1>1, <1>5, <2>1, <2>2 DEF BlocksFit
<1>9. LiteralsWait'
  <2>1. LiteralsAreIn(output', parked')
    <3> SUFFICES ASSUME NEW i \in 0..parkedCount - 1
                 PROVE  output'[start + i] = Literal(begun + 2, i)
      BY <1>5 DEF LiteralsAreIn
    <3>1. PICK k \in Nat : k = start + i /\ k \in 0..outputLength - 1 /\ k \in start..start + parkedCount - 1
      BY <1>3, Sizes
    <3>2. k - start = i
      BY <1>3, <3>1
    <3> QED
      BY <1>6, <3>1, <3>2
  <2>2. blockStart' + PairedLiteralsDistance <= parked'.start
    BY <1>1, <1>3, <1>5, Sizes DEF start
  <2>3. parked'.start + parked'.count <= outputLength'
    BY <1>1, <1>3, <1>5, Sizes
  <2> QED
    BY <1>4, <2>1, <2>2, <2>3 DEF LiteralsWait
<1>10. InBlock'
  BY <1>0, <1>1, <1>2, Sizes DEF InBlock, ExecutionTypeOK
<1>11. InFrame' /\ InLiterals' /\ InMatch' /\ InCopy' /\ InRefused'
  BY <1>1 DEF InFrame, InLiterals, InMatch, InCopy, InRefused
<1>12. IsPlainSoFar'
  <2>1. ASSUME NEW i \in 0..position - 1 PROVE output'[i] = text[i + 1]
    <3>1. output[i] = text[i + 1]
      BY <1>0, <1>2, <1>3 DEF IsPlainSoFar, AgreeUpTo
    <3>2. i \in 0..outputLength - 1 /\ i \notin start..start + parkedCount - 1
      BY <1>0, <1>3 DEF ExecutionTypeOK
    <3> QED
      BY <1>6, <3>1, <3>2
  <2>2. position' + moved' = position
    BY <1>1, <1>2, <1>3
  <2>3. AgreeUpTo(output', text', position)
    BY <1>1, <2>1 DEF AgreeUpTo
  <2> QED
    BY <2>2, <2>3 DEF IsPlainSoFar
<1> QED
  BY <1>7, <1>8, <1>9, <1>10, <1>11, <1>12 DEF IInv

\* Behind a block: what was done is done, and the parked block finds its
\* literals where they were left.
LEMMA EndBlockKeepsIInv ==
  ASSUME ExecutionTypeOK, BlocksFit, EndBlock,
         valid, valid', UNCHANGED <<outputLength, begun>>, text' \in Seq(Bytes),
         position' \in Nat, blockStart <= position', position' <= outputLength,
         position' - blockStart <= MaxBlock, position' = Len(text'), moved' = 0,
         sequence' \in SequenceRecords, step' \in Nat, valid' \in BOOLEAN,
         AgreeUpTo(output', text', position'),
         parked # NoBlock => /\ blockStart + PairedLiteralsDistance <= parked.start
                             /\ parked.start + parked.count <= outputLength
                             /\ LiteralsAreIn(output', parked)
  PROVE  IInv'
<1>1. InLiterals' /\ InMatch' /\ InCopy' /\ InRefused' /\ IsPlainSoFar'
  <2>1. phase' \in {"frame", "block"}
    BY DEF EndBlock
  <2>2. position' + moved' = position'
    OBVIOUS
  <2>3. IsPlainSoFar'
    BY <2>2 DEF IsPlainSoFar
  <2> QED
    BY <2>1, <2>3 DEF InLiterals, InMatch, InCopy, InRefused
<1>2. CASE parked = NoBlock
  <2>1. phase' = "frame" /\ block' = NoBlock /\ UNCHANGED <<parked, blockStart, cursor>>
    BY <1>2 DEF EndBlock
  <2>2. ExecutionTypeOK'
    BY <2>1, NoBlockFits DEF ExecutionTypeOK, Phases
  <2>3. BlocksFit'
    BY <1>2, <2>1, NoBlockFits DEF BlocksFit
  <2>4. LiteralsWait'
    BY <1>2, <2>1, NoBlockFits DEF LiteralsWait
  <2>5. InFrame' /\ InBlock'
    BY <1>2, <2>1 DEF InFrame, InBlock
  <2> QED
    BY <1>1, <2>2, <2>3, <2>4, <2>5 DEF IInv
<1>3. CASE parked # NoBlock
  <2>1. /\ phase' = "block" /\ block' = parked /\ parked' = NoBlock
        /\ blockStart' = position' /\ cursor' = 0
    BY <1>3 DEF EndBlock
  <2>2. ExecutionTypeOK'
    BY <2>1, NoBlockFits DEF ExecutionTypeOK, Phases
  <2>3. BlocksFit'
    BY <2>1, NoBlockFits, Fields DEF BlocksFit
  <2>4. LiteralsWait'
    <3>1. blockStart' + MaxBlock + Slack <= parked.start
      BY <1>3, <2>1, Sizes, Fields DEF ExecutionTypeOK
    <3> QED
      BY <1>3, <2>1, <3>1 DEF LiteralsWait
  <2>5. InFrame' /\ InBlock'
    BY <2>1, Sizes DEF InFrame, InBlock
  <2> QED
    BY <1>1, <2>2, <2>3, <2>4, <2>5 DEF IInv
<1> QED
  BY <1>2, <1>3
-----------------------------------------------------------------------------
(***************************************************************************)
(* Sequences begin.                                                        *)
(***************************************************************************)

\* What is refused stays as it is.
LEMMA RefuseKeepsIInv ==
  ASSUME IInv, Refuse, phase # "frame", valid' = FALSE, text' \in Seq(Bytes),
         UNCHANGED <<outputLength, begun>>
  PROVE  IInv'
<1>0. ExecutionTypeOK /\ BlocksFit
  BY DEF IInv
<1>1. /\ phase' = "refused"
      /\ UNCHANGED <<output, position, blockStart, block, parked, cursor, sequence, moved, step>>
  BY DEF Refuse
<1>2. ExecutionTypeOK'
  BY <1>0, <1>1 DEF ExecutionTypeOK, Phases
<1>3. BlocksFit'
  BY <1>0, <1>1 DEF BlocksFit, IsReadable
<1>4. LiteralsWait' /\ IsPlainSoFar'
  BY DEF LiteralsWait, IsPlainSoFar
<1>5. InFrame' /\ InBlock' /\ InLiterals' /\ InMatch' /\ InCopy' /\ InRefused'
  BY <1>1 DEF InFrame, InBlock, InLiterals, InMatch, InCopy, InRefused
<1> QED
  BY <1>2, <1>3, <1>4, <1>5 DEF IInv

\* A block that has one sequence less is otherwise the block it was.
LEMMA OneSequenceLess ==
  ASSUME ExecutionTypeOK, block.left > 0, block' = [block EXCEPT !.left = @ - 1]
  PROVE  /\ block' \in BlockRecords /\ block'.number = block.number
         /\ block'.source = block.source /\ block'.count = block.count
         /\ block'.readable = block.readable /\ block'.start = block.start
         /\ block'.path = block.path
<1>1. block \in BlockRecords /\ block.left \in Nat
  BY DEF ExecutionTypeOK, BlockRecords
<1>2. PICK due \in Nat : due = block.left
  BY <1>1
<1>3. due - 1 \in Nat /\ block' = [block EXCEPT !.left = due - 1]
  BY <1>2
<1> QED
  BY <1>1, <1>3 DEF BlockRecords

\* What a path looks at, said as what it lets through.
LEMMA NotTooMuch ==
  ASSUME ExecutionTypeOK, NEW literals \in Nat, NEW match \in Nat
  PROVE  ~TooMuch(literals, match) <=>
           /\ cursor + literals <= block.count
           /\ position + literals <= outputLength
           /\ block.path = "fast" => /\ position + literals + match - blockStart <= MaxBlock
                                     /\ position + literals + match <= outputLength
<1>1. /\ outputLength \in Nat /\ position \in Nat /\ blockStart \in Nat /\ cursor \in Nat
      /\ block.count \in Nat /\ MaxBlock \in Nat
  BY Fields, Sizes DEF ExecutionTypeOK
<1>2. PICK count \in Nat : count = block.count
  BY <1>1
<1>3. /\ cursor + literals > count <=> ~(cursor + literals <= count)
      /\ position + literals > outputLength <=> ~(position + literals <= outputLength)
      /\ position + literals + match - blockStart > MaxBlock <=>
           ~(position + literals + match - blockStart <= MaxBlock)
      /\ position + literals + match > outputLength <=> ~(position + literals + match <= outputLength)
  BY <1>1
<1> QED
  BY <1>2, <1>3, Zenon DEF TooMuch

LEMMA NotExact ==
  ASSUME ExecutionTypeOK, NEW end \in Nat
  PROVE  /\ Exact(end) \in BOOLEAN
         /\ ~Exact(end) => block.path = "fast" /\ end + Slack <= outputLength
<1>1. outputLength \in Nat /\ Slack \in Nat /\ block.path \in {"slow", "fast"}
  BY Fields, Sizes DEF ExecutionTypeOK
<1>2. ~(outputLength - end < Slack) => end + Slack <= outputLength
  BY <1>1
<1> QED
  BY <1>1, <1>2, Zenon DEF Exact

LEMMA NextSequenceKeepsIInv ==
  ASSUME IInv, NEW literals \in LiteralLengths, NEW match \in MatchLengths, NEW offset \in Offsets,
         NextSequence(literals, match, offset)
  PROVE  IInv'
<1>0. ExecutionTypeOK /\ BlocksFit /\ LiteralsWait /\ InBlock /\ IsPlainSoFar
  BY DEF IInv
<1>1. /\ phase = "block" /\ block.left > 0 /\ PlainExecute(literals, match, offset)
      /\ UNCHANGED <<outputLength, begun>>
      /\ literals \in Nat /\ match \in Nat /\ match > 0 /\ offset \in Nat
  BY ExecutionAssumption DEF NextSequence
<1>2. valid /\ moved = 0 /\ position = Len(text) /\ position - blockStart <= MaxBlock
  BY <1>0, <1>1 DEF InBlock
<1>3. /\ outputLength \in Nat /\ position \in Nat /\ blockStart \in Nat /\ cursor \in Nat
      /\ block.count \in Nat /\ block.path \in {"slow", "fast"} /\ text \in Seq(Bytes)
  BY <1>0, Fields DEF ExecutionTypeOK
<1>4. valid' = PlainAccepts(literals, match, offset) /\ valid' \in BOOLEAN
  BY <1>1 DEF PlainExecute, PlainAccepts
<1>5. ~valid' => text' = text
  BY <1>1, <1>4 DEF PlainExecute
<1>6. ASSUME valid'
      PROVE  /\ text' \in Seq(Bytes) /\ Len(text') = position + literals + match
             /\ \A i \in 1..position : text'[i] = text[i]
             /\ LiteralsComeNext(text', position, literals, block, cursor)
             /\ MatchIsIn(text', position + literals, match, offset)
  BY <1>0, <1>1, <1>2, <1>6, PlainExecuteAppends
<1>7. CASE TooMuch(literals, match)
  <2>1. Refuse
    BY <1>7 DEF NextSequence
  <2>2. ~PlainAccepts(literals, match, offset)
    <3>1. PICK count \in Nat : count = block.count
      BY <1>3
    <3>2. position + literals + match <= outputLength => position + literals <= outputLength
      BY <1>1, <1>3
    <3> QED
      BY <1>0, <1>1, <1>7, <3>2, NotTooMuch, Zenon DEF PlainAccepts
  <2>3. valid' = FALSE
    BY <1>4, <2>2
  <2> QED
    BY <1>1, <1>3, <1>5, <2>1, <2>3, RefuseKeepsIInv
<1>8. CASE ~TooMuch(literals, match)
  <2>1. /\ sequence' = [literals |-> literals, match |-> match, offset |-> offset,
                        exact |-> Exact(position + literals + match)]
        /\ block' = [block EXCEPT !.left = @ - 1]
        /\ phase' = IF literals = 0 THEN "match" ELSE "literals"
        /\ UNCHANGED <<output, position, blockStart, parked, cursor, moved, step>>
    BY <1>8 DEF NextSequence
  <2>2. /\ block' \in BlockRecords /\ block'.number = block.number
        /\ block'.source = block.source /\ block'.count = block.count
        /\ block'.readable = block.readable /\ block'.start = block.start
        /\ block'.path = block.path
    BY <1>0, <1>1, <2>1, OneSequenceLess
  <2>3. Exact(position + literals + match) \in BOOLEAN
    BY DEF Exact
  <2>e. PICK end \in Nat : end = position + literals + match
    BY <1>1, <1>3
  <2>4. /\ sequence' \in SequenceRecords /\ sequence'.literals = literals
        /\ sequence'.match = match /\ sequence'.offset = offset
        /\ sequence'.exact = Exact(position + literals + match)
    BY <1>1, <2>1, <2>3 DEF SequenceRecords
  <2>5. text' \in Seq(Bytes)
    BY <1>3, <1>5, <1>6, <1>4
  <2>6. ExecutionTypeOK'
    BY <1>0, <1>1, <1>4, <2>1, <2>2, <2>4, <2>5 DEF ExecutionTypeOK, Phases
  <2>7. BlocksFit'
    BY <1>0, <1>1, <2>1, <2>2 DEF BlocksFit, IsReadable
  <2>8. LiteralsWait'
    BY <1>0, <1>1, <1>2, <2>1, <2>2 DEF LiteralsWait, LiteralsAreIn
  <2>f. /\ position + literals + match - blockStart <= MaxBlock <=> end - blockStart <= MaxBlock
        /\ position + literals + match <= outputLength <=> end <= outputLength
    BY <1>1, <1>3, <2>e
  <2>9. /\ cursor + literals <= block.count /\ position + literals <= outputLength
        /\ block.path = "fast" => /\ end - blockStart <= MaxBlock
                                  /\ end <= outputLength
    <3>1. /\ cursor + literals <= block.count /\ position + literals <= outputLength
          /\ block.path = "fast" => /\ position + literals + match - blockStart <= MaxBlock
                                    /\ position + literals + match <= outputLength
      BY <1>0, <1>1, <1>8, NotTooMuch, Zenon
    <3> QED
      BY <2>f, <3>1, Zenon
  <2>10. valid' <=> /\ end - blockStart <= MaxBlock
                    /\ end <= outputLength
                    /\ offset \in 1..position + literals
    <3>1. valid' <=> /\ cursor + literals <= block.count
                     /\ position + literals + match - blockStart <= MaxBlock
                     /\ position + literals + match <= outputLength
                     /\ match > 0 => offset \in 1..position + literals
      BY <1>4, Zenon DEF PlainAccepts
    <3> QED
      BY <1>1, <2>9, <2>f, <3>1, Zenon
  <2>11. InLiterals'
    <3> SUFFICES ASSUME phase' = "literals" PROVE InLiterals'
      BY DEF InLiterals
    <3>1. literals > 0
      BY <1>1, <2>1
    <3>2. ~sequence'.exact => /\ block'.path = "fast"
                              /\ end + Slack <= outputLength
      BY <1>0, <2>2, <2>4, <2>e, NotExact, Zenon
    <3>3. valid' => LiteralsComeNext(text', position, literals, block', cursor)
      BY <1>6, <2>2 DEF LiteralsComeNext
    <3>4. position' = position /\ moved' = 0 /\ cursor' = cursor /\ blockStart' = blockStart
          /\ outputLength' = outputLength
      BY <1>1, <1>2, <2>1
    <3>5. /\ moved' < literals /\ cursor' + literals <= block'.count
          /\ position' + literals <= outputLength'
          /\ sequence'.exact => moved' = 0
          /\ block'.path = "fast" => end - blockStart' <= MaxBlock /\ end <= outputLength'
      <4>1. moved' < literals
        BY <1>1, <3>1, <3>4
      <4> QED
        BY <2>2, <2>9, <3>4, <4>1, Zenon
    <3>6. valid' => Len(text') = end /\ LiteralsComeNext(text', position', literals, block', cursor')
                    /\ MatchIsIn(text', position' + literals, match, offset)
      BY <1>6, <2>e, <3>3, <3>4, Zenon
    <3>7. position' + literals + match = end
      BY <2>e, <3>4
    <3>8. valid' <=> /\ end - blockStart' <= MaxBlock /\ end <= outputLength'
                     /\ match > 0 => offset \in 1..position' + literals
      BY <1>1, <2>10, <3>4, Zenon
    <3>9. ~sequence'.exact => block'.path = "fast" /\ end + Slack <= outputLength'
      BY <3>2, <3>4
    <3> QED
      BY <2>4, <3>5, <3>6, <3>7, <3>8, <3>9 DEF InLiterals
  <2>12. InMatch'
    <3> SUFFICES ASSUME phase' = "match" PROVE InMatch'
      BY DEF InMatch
    <3>1. literals = 0 /\ position + literals = position
      BY <1>1, <1>3, <2>1
    <3>4. position' = position /\ moved' = 0 /\ blockStart' = blockStart
          /\ outputLength' = outputLength
      BY <1>1, <1>2, <2>1
    <3>5. end = position' + match /\ moved' = 0
      BY <1>1, <1>3, <2>e, <3>1, <3>4
    <3>6. block'.path = "fast" => end - blockStart' <= MaxBlock /\ end <= outputLength'
      BY <2>2, <2>9, <3>4, Zenon
    <3>7. valid' => Len(text') = end /\ MatchIsIn(text', position', match, offset)
      BY <1>6, <2>e, <3>1, <3>4, Zenon
    <3>8. valid' <=> /\ end - blockStart' <= MaxBlock /\ end <= outputLength'
                     /\ offset \in 1..position'
      BY <2>10, <3>1, <3>4, Zenon
    <3> QED
      BY <1>1, <2>4, <3>5, <3>6, <3>7, <3>8 DEF InMatch
  <2>13. InFrame' /\ InBlock' /\ InCopy' /\ InRefused'
    BY <2>1 DEF InFrame, InBlock, InCopy, InRefused
  <2>14. IsPlainSoFar'
    <3> SUFFICES ASSUME valid', NEW i \in 0..position - 1 PROVE output[i] = text'[i + 1]
      BY <1>2, <1>3, <2>1 DEF IsPlainSoFar, AgreeUpTo
    <3>1. output[i] = text[i + 1]
      BY <1>0, <1>2, <1>3 DEF IsPlainSoFar, AgreeUpTo
    <3>2. i + 1 \in 1..position
      BY <1>3
    <3> QED
      BY <1>6, <3>1, <3>2
  <2> QED
    BY <2>6, <2>7, <2>8, <2>11, <2>12, <2>13, <2>14 DEF IInv
<1> QED
  BY <1>7, <1>8

LEMMA LastLiteralsKeepsIInv ==
  ASSUME IInv, LastLiterals
  PROVE  IInv'
<1>0. ExecutionTypeOK /\ BlocksFit /\ LiteralsWait /\ InBlock /\ IsPlainSoFar
  BY DEF IInv
<1>1. /\ phase = "block" /\ UNCHANGED <<outputLength, begun>>
      /\ PlainExecute(block.count - cursor, 0, 0)
  BY DEF LastLiterals
<1>2. valid /\ moved = 0 /\ position = Len(text) /\ position - blockStart <= MaxBlock
  BY <1>0, <1>1 DEF InBlock
<1>3. /\ outputLength \in Nat /\ position \in Nat /\ blockStart \in Nat /\ cursor \in Nat
      /\ block.count \in Nat /\ block.path \in {"slow", "fast"} /\ text \in Seq(Bytes)
      /\ cursor <= block.count /\ position <= outputLength /\ blockStart <= position
  BY <1>0, <1>1, Fields DEF ExecutionTypeOK, BlocksFit
<1>4. PICK literals \in Nat : literals = block.count - cursor /\ cursor + literals = block.count
  BY <1>3
<1>5. PICK end \in Nat : end = position + literals /\ position + literals + 0 = end
  BY <1>3
<1>f. /\ position + literals + 0 - blockStart <= MaxBlock <=> end - blockStart <= MaxBlock
      /\ position + literals + 0 <= outputLength <=> end <= outputLength
      /\ position + literals <= outputLength <=> end <= outputLength
  BY <1>3, <1>5
<1>6. PlainExecute(literals, 0, 0)
  BY <1>1, <1>4
<1>7. /\ valid' <=> /\ cursor + literals <= block.count
                    /\ end - blockStart <= MaxBlock /\ end <= outputLength
      /\ valid' \in BOOLEAN
  <2>1. /\ valid' <=> /\ cursor + literals <= block.count
                      /\ position + literals + 0 - blockStart <= MaxBlock
                      /\ position + literals + 0 <= outputLength
                      /\ 0 > 0 => 0 \in 1..position + literals
        /\ valid' \in BOOLEAN
    BY <1>6, Zenon DEF PlainExecute, PlainAccepts
  <2>2. ~(0 > 0)
    OBVIOUS
  <2> QED
    BY <1>f, <2>1, <2>2, Zenon
<1>8. ~valid' => text' = text
  BY <1>6 DEF PlainExecute
<1>9. ASSUME valid'
      PROVE  /\ text' \in Seq(Bytes) /\ Len(text') = end
             /\ \A i \in 1..position : text'[i] = text[i]
             /\ LiteralsComeNext(text', position, literals, block, cursor)
  <2>1. 0 \in Nat /\ end = position + literals + 0
    BY <1>5
  <2> QED
    BY <1>0, <1>2, <1>6, <1>9, <2>1, PlainExecuteAppends, Zenon
<1>10. text' \in Seq(Bytes)
  BY <1>3, <1>8, <1>9
<1>11. ASSUME valid' PROVE AgreeUpTo(output, text', position)
  <2> SUFFICES ASSUME NEW i \in 0..position - 1 PROVE output[i] = text'[i + 1]
    BY DEF AgreeUpTo
  <2>1. output[i] = text[i + 1]
    BY <1>0, <1>2, <1>3 DEF IsPlainSoFar, AgreeUpTo
  <2>2. i + 1 \in 1..position
    BY <1>3
  <2> QED
    BY <1>9, <1>11, <2>1, <2>2
<1>12. CASE literals = 0
  <2>1. UNCHANGED <<output, position, sequence, moved, step>> /\ EndBlock
    BY <1>4, <1>12 DEF LastLiterals
  <2>2. end = position
    BY <1>3, <1>5, <1>12
  <2>3. cursor + literals <= block.count
    BY <1>3, <1>4
  <2>4. valid'
    BY <1>2, <1>3, <1>7, <2>2, <2>3, Zenon
  <2>5. parked # NoBlock => /\ blockStart + PairedLiteralsDistance <= parked.start
                            /\ parked.start + parked.count <= outputLength
                            /\ LiteralsAreIn(output', parked)
    BY <1>0, <1>2, <2>1 DEF LiteralsWait
  <2>6. /\ position' \in Nat /\ blockStart <= position' /\ position' <= outputLength
        /\ position' - blockStart <= MaxBlock /\ position' = Len(text') /\ moved' = 0
        /\ sequence' \in SequenceRecords /\ step' \in Nat
    BY <1>0, <1>2, <1>3, <1>9, <2>1, <2>2, <2>4 DEF ExecutionTypeOK
  <2>7. AgreeUpTo(output', text', position')
    BY <1>11, <2>1, <2>4
  <2> QED
    BY <1>0, <1>1, <1>2, <1>7, <1>10, <2>1, <2>4, <2>5, <2>6, <2>7, EndBlockKeepsIInv
<1>13. CASE literals # 0 /\ TooMuch(literals, 0)
  <2>1. Refuse
    BY <1>4, <1>13 DEF LastLiterals
  <2>2. ~(/\ cursor + literals <= block.count
          /\ end - blockStart <= MaxBlock /\ end <= outputLength)
    <3>1. ~(/\ cursor + literals <= block.count
            /\ position + literals <= outputLength
            /\ block.path = "fast" => /\ position + literals + 0 - blockStart <= MaxBlock
                                      /\ position + literals + 0 <= outputLength)
      <4>1. 0 \in Nat
        OBVIOUS
      <4> QED
        BY <1>0, <1>13, <4>1, NotTooMuch, Zenon
    <3> QED
      BY <1>f, <3>1, Zenon
  <2>3. valid' = FALSE
    BY <1>7, <2>2
  <2> QED
    BY <1>1, <1>10, <2>1, <2>3, RefuseKeepsIInv
<1>14. CASE literals # 0 /\ ~TooMuch(literals, 0)
  <2>1. /\ sequence' = [literals |-> literals, match |-> 0, offset |-> 0,
                        exact |-> Exact(position + literals)]
        /\ phase' = "literals"
        /\ UNCHANGED <<output, position, blockStart, block, parked, cursor, moved, step>>
    BY <1>4, <1>14 DEF LastLiterals
  <2>2. /\ sequence' \in SequenceRecords /\ sequence'.literals = literals
        /\ sequence'.match = 0 /\ sequence'.offset = 0
        /\ sequence'.exact = Exact(end)
    <3>1. Exact(end) \in BOOLEAN
      BY DEF Exact
    <3> QED
      BY <1>5, <2>1, <3>1 DEF SequenceRecords
  <2>3. ExecutionTypeOK'
    BY <1>0, <1>1, <1>7, <1>10, <2>1, <2>2 DEF ExecutionTypeOK, Phases
  <2>4. BlocksFit'
    BY <1>0, <1>1, <2>1 DEF BlocksFit, IsReadable
  <2>5. LiteralsWait'
    BY <1>0, <1>1, <1>2, <2>1 DEF LiteralsWait
  <2>6. /\ cursor + literals <= block.count /\ position + literals <= outputLength
        /\ block.path = "fast" => end - blockStart <= MaxBlock /\ end <= outputLength
    <3>1. /\ cursor + literals <= block.count /\ position + literals <= outputLength
          /\ block.path = "fast" => /\ position + literals + 0 - blockStart <= MaxBlock
                                    /\ position + literals + 0 <= outputLength
      <4>1. 0 \in Nat
        OBVIOUS
      <4> QED
        BY <1>0, <1>14, <4>1, NotTooMuch, Zenon
    <3> QED
      BY <1>f, <3>1, Zenon
  <2>7. InLiterals'
    <3>1. position' = position /\ moved' = 0 /\ cursor' = cursor /\ blockStart' = blockStart
          /\ outputLength' = outputLength /\ block' = block
      BY <1>1, <1>2, <2>1
    <3>2. moved' < literals
      BY <1>4, <1>14, <3>1
    <3>3. position' + literals + 0 = end /\ ~(0 > 0)
      BY <1>5, <3>1
    <3>4. /\ cursor' + literals <= block'.count /\ position' + literals <= outputLength'
          /\ block'.path = "fast" => end - blockStart' <= MaxBlock /\ end <= outputLength'
          /\ sequence'.exact => moved' = 0
      BY <2>6, <3>1, Zenon
    <3>5. ~sequence'.exact => block'.path = "fast" /\ end + Slack <= outputLength'
      BY <1>0, <2>2, <3>1, NotExact, Zenon
    <3>6. valid' <=> end - blockStart' <= MaxBlock /\ end <= outputLength'
      BY <1>7, <2>6, <3>1, Zenon
    <3>7. valid' => Len(text') = end /\ LiteralsComeNext(text', position', literals, block', cursor')
      BY <1>9, <3>1, Zenon
    <3> QED
      BY <2>2, <3>2, <3>3, <3>4, <3>5, <3>6, <3>7 DEF InLiterals
  <2>8. InFrame' /\ InBlock' /\ InMatch' /\ InCopy' /\ InRefused'
    BY <2>1 DEF InFrame, InBlock, InMatch, InCopy, InRefused
  <2>9. IsPlainSoFar'
    <3>1. position' + moved' = position
      BY <1>2, <1>3, <2>1
    <3> QED
      BY <1>11, <2>1, <3>1 DEF IsPlainSoFar
  <2> QED
    BY <2>3, <2>4, <2>5, <2>7, <2>8, <2>9 DEF IInv
<1> QED
  BY <1>12, <1>13, <1>14
-----------------------------------------------------------------------------
(***************************************************************************)
(* Literals are copied.                                                    *)
(***************************************************************************)

\* Wherever the literals of a block are, what is loaded is the literal.
LEMMA LoadsTheLiteral ==
  ASSUME IInv, valid, NEW j \in Nat, j < block.count
  PROVE  LoadLiteral(block, j) = IF block.source = "rle" THEN Literal(block.number, 0)
                                                         ELSE Literal(block.number, j)
<1>0. ExecutionTypeOK /\ LiteralsWait
  BY DEF IInv
<1>1. outputLength \in Nat /\ block.start \in Nat /\ block.count \in Nat
  BY <1>0, Fields DEF ExecutionTypeOK
<1>2. CASE block.source = "parked"
  <2>1. block.start + block.count <= outputLength /\ LiteralsAreIn(output, block)
    BY <1>0, <1>2 DEF LiteralsWait
  <2>2. j \in 0..block.count - 1 /\ block.start + j \in 0..outputLength - 1
    BY <1>1, <2>1
  <2>3. output[block.start + j] = Literal(block.number, j)
    BY <2>1, <2>2 DEF LiteralsAreIn
  <2>4. ByteAt(block.start + j) = output[block.start + j]
    BY <2>2 DEF ByteAt
  <2> QED
    BY <1>2, <2>3, <2>4 DEF LoadLiteral
<1>3. CASE block.source # "parked"
  BY <1>3 DEF LoadLiteral
<1> QED
  BY <1>2, <1>3

\* What the literals being copied look like, from their numbers on.
LiteralsLeft(literals, match, end) ==
  /\ literals = sequence.literals /\ match = sequence.match
  /\ end = position + literals + match
  /\ moved < literals
  /\ cursor + literals <= block.count
  /\ position + literals <= outputLength
  /\ sequence.exact => moved = 0
  /\ ~sequence.exact => block.path = "fast" /\ end + Slack <= outputLength
  /\ block.path = "fast" => end - blockStart <= MaxBlock /\ end <= outputLength
  /\ valid <=> /\ end - blockStart <= MaxBlock /\ end <= outputLength
               /\ match > 0 => sequence.offset \in 1..position + literals
  /\ valid => /\ Len(text) = end
              /\ LiteralsComeNext(text, position, literals, block, cursor)
              /\ match > 0 => MatchIsIn(text, position + literals, match, sequence.offset)

LEMMA LiteralsAreLeft ==
  ASSUME IInv, phase = "literals"
  PROVE  \E literals \in Nat, match \in Nat, end \in Nat : LiteralsLeft(literals, match, end)
<1>0. ExecutionTypeOK /\ InLiterals
  BY DEF IInv
<1>1. sequence.literals \in Nat /\ sequence.match \in Nat /\ position \in Nat
  BY <1>0, Fields DEF ExecutionTypeOK
<1>2. position + sequence.literals + sequence.match \in Nat
  BY <1>1
<1>3. LiteralsLeft(sequence.literals, sequence.match, position + sequence.literals + sequence.match)
  BY <1>0, Zenon DEF InLiterals, LiteralsLeft
<1> QED
  BY <1>1, <1>2, <1>3

\* One vector of literals, or all of them: what is right of it, and that the
\* rest disturbs nothing.
LEMMA LiteralsAreWritten ==
  ASSUME IInv, MoveLiterals,
         NEW literals \in Nat, NEW match \in Nat, NEW end \in Nat, LiteralsLeft(literals, match, end),
         NEW width \in Nat, width = IF sequence.exact THEN sequence.literals ELSE Vector,
         NEW right \in Nat, right <= width, moved + right <= literals
  PROVE  /\ valid => AgreeUpTo(output', text, position + moved + right)
         /\ OnlyWritten(position + moved, width)
         /\ valid => position + moved + width <= blockStart + MaxBlock + Slack
<1>0. ExecutionTypeOK /\ IsPlainSoFar
  BY DEF IInv
<1>1. /\ outputLength \in Nat /\ position \in Nat /\ blockStart \in Nat /\ cursor \in Nat
      /\ moved \in Nat /\ block.count \in Nat
  BY <1>0, Fields DEF ExecutionTypeOK
<1>2. PICK start \in Nat : start = position + moved
  BY <1>1
<1>3. \A k \in 0..outputLength - 1 :
        output'[k] = IF k \in start..start + width - 1
                     THEN LoadLiteral(block, cursor + moved + (k - start)) ELSE output[k]
  BY <1>2 DEF MoveLiterals, Stored
<1>4. OnlyWritten(start, width)
  BY <1>3 DEF OnlyWritten
<1>5. ASSUME valid, NEW i \in 0..right - 1 PROVE output'[start + i] = text[start + i + 1]
  <2>1. PICK k \in Nat : k = start + i /\ k \in 0..outputLength - 1 /\ k \in start..start + width - 1
    <3>1. position + literals <= outputLength
      BY DEF LiteralsLeft
    <3> QED
      BY <1>1, <1>2, <3>1
  <2>2. PICK j \in Nat : j = cursor + moved + i /\ j < block.count
    <3>1. cursor + literals <= block.count
      BY DEF LiteralsLeft
    <3> QED
      BY <1>1, <3>1
  <2>3. cursor + moved + (k - start) = j
    BY <1>1, <1>2, <2>1, <2>2
  <2>4. output'[k] = LoadLiteral(block, j)
    BY <1>3, <2>1, <2>3
  <2>5. PICK n \in 0..literals - 1 : n = moved + i
    BY <1>1
  <2>6. text[position + n + 1] = IF block.source = "rle" THEN Literal(block.number, 0)
                                                         ELSE Literal(block.number, cursor + n)
    BY <1>5 DEF LiteralsLeft, LiteralsComeNext
  <2>7. cursor + n = j /\ position + n + 1 = start + i + 1
    BY <1>1, <1>2, <2>2, <2>5
  <2> QED
    BY <1>5, <2>1, <2>2, <2>4, <2>6, <2>7, LoadsTheLiteral
<1>6. ASSUME valid PROVE AgreeUpTo(output', text, start + right)
  <2>1. AgreeUpTo(output, text, start)
    BY <1>0, <1>2, <1>6 DEF IsPlainSoFar
  <2>2. start + right <= outputLength
    <3>1. position + literals <= outputLength
      BY DEF LiteralsLeft
    <3> QED
      BY <1>1, <1>2, <3>1
  <2> QED
    BY <1>1, <1>4, <1>5, <1>6, <2>1, <2>2, AgreesFurther
<1>7. ASSUME valid PROVE start + width <= blockStart + MaxBlock + Slack
  <2>1. end - blockStart <= MaxBlock /\ moved < literals /\ end = position + literals + match
        /\ (sequence.exact => moved = 0) /\ literals = sequence.literals
    BY <1>7 DEF LiteralsLeft
  <2>2. CASE sequence.exact
    BY <1>1, <1>2, <2>1, <2>2, Sizes
  <2>3. CASE ~sequence.exact
    BY <1>1, <1>2, <2>1, <2>3, Sizes
  <2> QED
    BY <2>2, <2>3
<1> QED
  BY <1>2, <1>4, <1>6, <1>7

LEMMA MoveLiteralsKeepsIInv ==
  ASSUME IInv, MoveLiterals
  PROVE  IInv'
<1>0. ExecutionTypeOK /\ BlocksFit /\ LiteralsWait
  BY DEF IInv
<1>1. phase = "literals" /\ UNCHANGED <<outputLength, sequence, step, begun, text, valid>>
  BY DEF MoveLiterals
<1>2. PICK literals \in Nat, match \in Nat, end \in Nat : LiteralsLeft(literals, match, end)
  BY <1>1, LiteralsAreLeft
<1>3. /\ literals = sequence.literals /\ match = sequence.match
      /\ end = position + literals + match /\ moved < literals
      /\ cursor + literals <= block.count /\ position + literals <= outputLength
      /\ sequence.exact => moved = 0
  BY <1>2 DEF LiteralsLeft
<1>4. /\ outputLength \in Nat /\ position \in Nat /\ blockStart \in Nat /\ cursor \in Nat
      /\ moved \in Nat /\ block.count \in Nat /\ blockStart <= position
      /\ sequence.exact \in BOOLEAN /\ block.path \in {"slow", "fast"}
  BY <1>0, Fields DEF ExecutionTypeOK
<1>5. PICK width \in Nat : width = IF sequence.exact THEN sequence.literals ELSE Vector
  BY <1>3, Sizes
<1>6. ASSUME OnlyWritten(position + moved, width),
             valid => position + moved + width <= blockStart + MaxBlock + Slack
      PROVE  /\ (valid /\ parked # NoBlock) =>
                  /\ blockStart + PairedLiteralsDistance <= parked.start
                  /\ parked.start + parked.count <= outputLength
                  /\ LiteralsAreIn(output', parked)
             /\ (valid /\ block.source = "parked") =>
                  /\ blockStart + MaxBlock + Slack <= block.start
                  /\ block.start + block.count <= outputLength
                  /\ LiteralsAreIn(output', block)
  <2>1. position + moved \in Nat
    BY <1>4
  <2> QED
    BY <1>0, <1>6, <2>1, LiteralsStillWait
<1>7. CASE moved + width < literals
  <2>1. /\ moved' = moved + width
        /\ UNCHANGED <<position, blockStart, block, parked, cursor, phase>>
    BY <1>3, <1>5, <1>7 DEF MoveLiterals
  <2>2. ~sequence.exact
    BY <1>3, <1>4, <1>5, <1>7
  <2>3. /\ valid => AgreeUpTo(output', text, position + moved + width)
        /\ OnlyWritten(position + moved, width)
        /\ valid => position + moved + width <= blockStart + MaxBlock + Slack
    <3>1. width <= width /\ moved + width <= literals
      BY <1>4, <1>7
    <3> QED
      BY <1>2, <1>5, <3>1, LiteralsAreWritten
  <2>4. ExecutionTypeOK'
    BY <1>0, <1>1, <1>4, <2>1 DEF ExecutionTypeOK
  <2>5. BlocksFit'
    BY <1>0, <2>1 DEF BlocksFit, IsReadable
  <2>6. LiteralsWait'
    BY <1>1, <1>6, <2>1, <2>3 DEF LiteralsWait
  <2>7. InLiterals'
    <3>1. moved' < literals
      BY <1>7, <2>1
    <3>2. sequence' = sequence /\ position' = position /\ cursor' = cursor /\ block' = block
          /\ blockStart' = blockStart /\ outputLength' = outputLength /\ text' = text /\ valid' = valid
      BY <1>1, <2>1
    <3>3. sequence'.literals = literals /\ sequence'.match = match
      BY <1>3, <3>2
    <3>4. position' + literals + match = end /\ ~sequence'.exact
      BY <1>3, <2>2, <3>2
    <3>5. /\ cursor' + literals <= block'.count /\ position' + literals <= outputLength'
          /\ block'.path = "fast" /\ end + Slack <= outputLength'
          /\ block'.path = "fast" => end - blockStart' <= MaxBlock /\ end <= outputLength'
          /\ valid' <=> /\ end - blockStart' <= MaxBlock /\ end <= outputLength'
                        /\ match > 0 => sequence'.offset \in 1..position' + literals
          /\ valid' => /\ Len(text') = end
                       /\ LiteralsComeNext(text', position', literals, block', cursor')
                       /\ match > 0 => MatchIsIn(text', position' + literals, match, sequence'.offset)
      BY <1>2, <2>2, <3>2, Zenon DEF LiteralsLeft
    <3> QED
      BY <3>1, <3>3, <3>4, <3>5 DEF InLiterals
  <2>8. InFrame' /\ InBlock' /\ InMatch' /\ InCopy' /\ InRefused'
    BY <1>1, <2>1 DEF InFrame, InBlock, InMatch, InCopy, InRefused
  <2>9. IsPlainSoFar'
    <3>1. position' + moved' = position + moved + width
      BY <1>4, <2>1
    <3> QED
      BY <1>1, <2>3, <3>1 DEF IsPlainSoFar
  <2> QED
    BY <2>4, <2>5, <2>6, <2>7, <2>8, <2>9 DEF IInv
<1>8. CASE ~(moved + width < literals)
  <2>1. PICK middle \in Nat : middle = position + literals
    BY <1>4
  <2>2. /\ moved' = 0 /\ position' = middle
        /\ IF match > 0
           THEN /\ cursor' = cursor + literals /\ phase' = "match"
                /\ UNCHANGED <<blockStart, block, parked>>
           ELSE IF TooLarge(middle)
           THEN phase' = "refused" /\ UNCHANGED <<blockStart, block, parked, cursor>>
           ELSE EndBlock
    BY <1>3, <1>5, <1>8, <2>1 DEF MoveLiterals
  <2>3. /\ valid => AgreeUpTo(output', text, middle)
        /\ OnlyWritten(position + moved, width)
        /\ valid => position + moved + width <= blockStart + MaxBlock + Slack
    <3>1. PICK right \in Nat : right = literals - moved /\ right <= width /\ moved + right = literals
                               /\ position + moved + right = middle
      BY <1>3, <1>4, <1>8, <2>1
    <3> QED
      BY <1>2, <1>5, <3>1, LiteralsAreWritten
  <2>4. /\ (valid /\ parked # NoBlock) =>
             /\ blockStart + PairedLiteralsDistance <= parked.start
             /\ parked.start + parked.count <= outputLength
             /\ LiteralsAreIn(output', parked)
        /\ (valid /\ block.source = "parked") =>
             /\ blockStart + MaxBlock + Slack <= block.start
             /\ block.start + block.count <= outputLength
             /\ LiteralsAreIn(output', block)
    BY <1>6, <2>3
  <2>5. position' + moved' = middle /\ blockStart <= middle /\ middle <= outputLength
    BY <1>3, <1>4, <2>1, <2>2
  <2>6. CASE match > 0
    <3>1. /\ cursor' = cursor + literals /\ phase' = "match"
          /\ UNCHANGED <<blockStart, block, parked>>
      BY <2>2, <2>6
    <3>2. ExecutionTypeOK'
      BY <1>0, <1>1, <1>4, <2>2, <2>5, <3>1 DEF ExecutionTypeOK, Phases
    <3>3. BlocksFit'
      BY <1>0, <1>3, <3>1 DEF BlocksFit, IsReadable
    <3>4. LiteralsWait'
      BY <1>1, <2>4, <3>1 DEF LiteralsWait
    <3>5. InMatch'
      <4>1. position' + match = end /\ position' = middle /\ moved' = 0 /\ position + literals = middle
        BY <1>3, <2>1, <2>2
      <4>2. /\ block.path = "fast" => end - blockStart <= MaxBlock /\ end <= outputLength
            /\ valid <=> /\ end - blockStart <= MaxBlock /\ end <= outputLength
                         /\ match > 0 => sequence.offset \in 1..middle
            /\ valid => /\ Len(text) = end
                        /\ match > 0 => MatchIsIn(text, middle, match, sequence.offset)
        BY <1>2, <4>1 DEF LiteralsLeft
      <4>3. /\ sequence' = sequence /\ block' = block /\ blockStart' = blockStart
            /\ outputLength' = outputLength /\ text' = text /\ valid' = valid
        BY <1>1, <3>1
      <4>4. sequence'.match = match
        BY <1>3, <4>3
      <4>5. /\ block'.path = "fast" => end - blockStart' <= MaxBlock /\ end <= outputLength'
            /\ valid' <=> /\ end - blockStart' <= MaxBlock /\ end <= outputLength'
                          /\ sequence'.offset \in 1..position'
            /\ valid' => /\ Len(text') = end
                         /\ MatchIsIn(text', position', match, sequence'.offset)
        BY <2>6, <4>1, <4>2, <4>3, Zenon
      <4> QED
        BY <2>6, <4>1, <4>4, <4>5 DEF InMatch
    <3>6. InFrame' /\ InBlock' /\ InLiterals' /\ InCopy' /\ InRefused'
      BY <3>1 DEF InFrame, InBlock, InLiterals, InCopy, InRefused
    <3>7. IsPlainSoFar'
      BY <1>1, <2>3, <2>5 DEF IsPlainSoFar
    <3> QED
      BY <3>2, <3>3, <3>4, <3>5, <3>6, <3>7 DEF IInv
  <2>7. CASE ~(match > 0)
    <3>1. middle = end
      BY <1>3, <2>1, <2>7
    <3>2. CASE TooLarge(middle)
      <4>1. phase' = "refused" /\ UNCHANGED <<blockStart, block, parked, cursor>>
        BY <2>2, <2>7, <3>2
      <4>2. ~valid
        <5>1. end - blockStart > MaxBlock
          BY <3>1, <3>2 DEF TooLarge
        <5>2. ~(end - blockStart <= MaxBlock)
          BY <1>4, <5>1, Sizes
        <5> QED
          BY <1>2, <5>2, Zenon DEF LiteralsLeft
      <4>3. valid' = valid /\ ~valid'
        BY <1>1, <4>2
      <4>4. ExecutionTypeOK'
        BY <1>0, <1>1, <1>4, <2>2, <2>5, <4>1 DEF ExecutionTypeOK, Phases
      <4>5. BlocksFit'
        BY <1>0, <1>1, <4>1 DEF BlocksFit, IsReadable
      <4>6. LiteralsWait' /\ IsPlainSoFar'
        BY <4>3 DEF LiteralsWait, IsPlainSoFar
      <4>7. InFrame' /\ InBlock' /\ InLiterals' /\ InMatch' /\ InCopy' /\ InRefused'
        BY <4>1, <4>3 DEF InFrame, InBlock, InLiterals, InMatch, InCopy, InRefused
      <4> QED
        BY <4>4, <4>5, <4>6, <4>7 DEF IInv
    <3>3. CASE ~TooLarge(middle)
      <4>1. EndBlock
        BY <2>2, <2>7, <3>3
      <4>2. end - blockStart <= MaxBlock
        <5>1. CASE block.path = "fast"
          BY <1>2, <5>1 DEF LiteralsLeft
        <5>2. CASE block.path = "slow"
          <6>1. ~(end - blockStart > MaxBlock)
            BY <3>1, <3>3, <5>2 DEF TooLarge
          <6> QED
            BY <1>4, <6>1, Sizes
        <5> QED
          BY <1>4, <5>1, <5>2
      <4>3. valid /\ Len(text) = end
        <5>1. end <= outputLength
          BY <2>5, <3>1
        <5> QED
          BY <1>2, <2>7, <4>2, <5>1, Zenon DEF LiteralsLeft
      <4>4. /\ position' \in Nat /\ blockStart <= position' /\ position' <= outputLength
            /\ position' - blockStart <= MaxBlock /\ position' = Len(text') /\ moved' = 0
        BY <1>1, <2>2, <2>5, <3>1, <4>2, <4>3
      <4>5. /\ sequence' \in SequenceRecords /\ step' \in Nat /\ text' \in Seq(Bytes)
            /\ valid' /\ valid' \in BOOLEAN /\ UNCHANGED <<outputLength, begun>>
        BY <1>0, <1>1, <4>3 DEF ExecutionTypeOK
      <4>6. AgreeUpTo(output', text', position')
        BY <1>1, <2>2, <2>3, <4>3
      <4> QED
        BY <1>0, <2>4, <4>1, <4>3, <4>4, <4>5, <4>6, EndBlockKeepsIInv
    <3> QED
      BY <3>2, <3>3
  <2> QED
    BY <2>6, <2>7
<1> QED
  BY <1>7, <1>8
-----------------------------------------------------------------------------
(***************************************************************************)
(* Matches are copied.                                                     *)
(***************************************************************************)

\* A sequence is done, and the slow path finds out whether the block is too
\* large, which is when the plain execution has refused it.
LEMMA EndSequenceKeepsIInv ==
  ASSUME ExecutionTypeOK, BlocksFit, phase # "frame",
         NEW end \in Nat, EndSequence(end), position <= end, end <= outputLength,
         UNCHANGED <<outputLength, blockStart, block, parked, cursor, sequence, begun, text, valid>>,
         block.path = "fast" => end - blockStart <= MaxBlock,
         valid <=> end - blockStart <= MaxBlock,
         valid => Len(text) = end /\ AgreeUpTo(output', text, end),
         /\ (valid /\ parked # NoBlock) =>
              /\ blockStart + PairedLiteralsDistance <= parked.start
              /\ parked.start + parked.count <= outputLength
              /\ LiteralsAreIn(output', parked)
         /\ (valid /\ block.source = "parked") =>
              /\ blockStart + MaxBlock + Slack <= block.start
              /\ block.start + block.count <= outputLength
              /\ LiteralsAreIn(output', block)
  PROVE  IInv'
<1>1. /\ position' = end /\ moved' = 0 /\ step' = 0
      /\ phase' = IF TooLarge(end) THEN "refused" ELSE "block"
  BY DEF EndSequence
<1>2. blockStart \in Nat /\ position \in Nat /\ MaxBlock \in Nat /\ blockStart <= end
      /\ block.path \in {"slow", "fast"}
  BY Fields, Sizes DEF ExecutionTypeOK
<1>3. TooLarge(end) <=> ~valid
  <2>1. end - blockStart > MaxBlock <=> ~(end - blockStart <= MaxBlock)
    BY <1>2
  <2> QED
    BY <1>2, <2>1, Zenon DEF TooLarge
<1>4. ExecutionTypeOK'
  BY <1>1, <1>2 DEF ExecutionTypeOK, Phases
<1>5. BlocksFit'
  BY DEF BlocksFit, IsReadable
<1>6. LiteralsWait'
  BY DEF LiteralsWait
<1>7. InBlock'
  BY <1>1, <1>3 DEF InBlock
<1>8. InFrame' /\ InLiterals' /\ InMatch' /\ InCopy' /\ InRefused'
  BY <1>1, <1>3 DEF InFrame, InLiterals, InMatch, InCopy, InRefused
<1>9. IsPlainSoFar'
  <2>1. position' + moved' = end
    BY <1>1
  <2> QED
    BY <2>1 DEF IsPlainSoFar
<1> QED
  BY <1>4, <1>5, <1>6, <1>7, <1>8, <1>9 DEF IInv

LEMMA BeginMatchKeepsIInv ==
  ASSUME IInv, BeginMatch
  PROVE  IInv'
<1>0. ExecutionTypeOK /\ BlocksFit /\ LiteralsWait /\ InMatch /\ IsPlainSoFar
  BY DEF IInv
<1>1. phase = "match" /\ UNCHANGED <<outputLength, begun, text, valid>>
  BY DEF BeginMatch
<1>2. PICK match \in Nat, offset \in Nat : match = sequence.match /\ offset = sequence.offset
  BY <1>0, Fields
<1>3. /\ outputLength \in Nat /\ position \in Nat /\ blockStart \in Nat /\ blockStart <= position
      /\ text \in Seq(Bytes) /\ MaxBlock \in Nat /\ Slack \in Nat
  BY <1>0, Sizes DEF ExecutionTypeOK
<1>4. PICK end \in Nat : end = position + match
  BY <1>3
<1>5. /\ match > 0 /\ moved = 0
      /\ block.path = "fast" => end - blockStart <= MaxBlock /\ end <= outputLength
      /\ valid <=> /\ end - blockStart <= MaxBlock /\ end <= outputLength
                   /\ offset \in 1..position
      /\ valid => Len(text) = end /\ MatchIsIn(text, position, match, offset)
  BY <1>0, <1>1, <1>2, <1>4 DEF InMatch
<1>6. CASE offset \notin 1..position \/ end > outputLength
  <2>1. Refuse
    BY <1>2, <1>4, <1>6 DEF BeginMatch
  <2>2. end > outputLength <=> ~(end <= outputLength)
    BY <1>3
  <2>3. ~valid
    BY <1>5, <1>6, <2>2, Zenon
  <2>4. valid' = FALSE /\ text' \in Seq(Bytes)
    BY <1>0, <1>1, <1>3, <2>3 DEF ExecutionTypeOK
  <2> QED
    BY <1>1, <2>1, <2>4, RefuseKeepsIInv
<1>7. CASE offset \in 1..position /\ ~(end > outputLength) /\ outputLength - end >= Slack
  <2>1. /\ phase' = "copy" /\ moved' = 0 /\ step' = offset
        /\ UNCHANGED <<output, position, blockStart, block, parked, cursor, sequence>>
    BY <1>2, <1>4, <1>7 DEF BeginMatch
  <2>2. ExecutionTypeOK'
    BY <1>0, <1>1, <2>1 DEF ExecutionTypeOK, Phases
  <2>3. BlocksFit'
    BY <1>0, <1>1, <2>1 DEF BlocksFit, IsReadable
  <2>4. LiteralsWait'
    BY <1>0, <1>1, <2>1 DEF LiteralsWait
  <2>5. end <= outputLength /\ end + Slack <= outputLength
    BY <1>3, <1>7
  <2>6. InCopy'
    <3>1. moved' < match /\ end + Slack <= outputLength' /\ step' - offset <= moved'
          /\ offset <= step' /\ position' + match = end /\ offset \in 1..position'
      BY <1>1, <1>3, <1>4, <1>5, <1>7, <2>1, <2>5
    <3>2. /\ block'.path = "fast" => end - blockStart' <= MaxBlock
          /\ valid' <=> end - blockStart' <= MaxBlock
      BY <1>1, <1>5, <1>7, <2>1, <2>5, Zenon
    <3>3. valid' => Len(text') = end /\ Repeats(text', position', match, offset, step')
      <4>1. valid => Repeats(text, position, match, offset, offset)
        BY <1>3, <1>5, <1>7, MatchRepeats
      <4> QED
        BY <1>1, <1>5, <2>1, <4>1, Zenon
    <3>4. sequence'.match = match /\ sequence'.offset = offset
      BY <1>2, <2>1
    <3> QED
      BY <3>1, <3>2, <3>3, <3>4 DEF InCopy
  <2>7. InFrame' /\ InBlock' /\ InLiterals' /\ InMatch' /\ InRefused'
    BY <2>1 DEF InFrame, InBlock, InLiterals, InMatch, InRefused
  <2>8. IsPlainSoFar'
    <3>1. position' + moved' = position + moved
      BY <1>5, <2>1
    <3> QED
      BY <1>0, <1>1, <2>1, <3>1 DEF IsPlainSoFar
  <2> QED
    BY <2>2, <2>3, <2>4, <2>6, <2>7, <2>8 DEF IInv
<1>8. CASE offset \in 1..position /\ ~(end > outputLength) /\ ~(outputLength - end >= Slack)
  <2>1. /\ EndSequence(end)
        /\ UNCHANGED <<blockStart, block, parked, cursor, sequence>>
        /\ \A k \in 0..outputLength - 1 :
             output'[k] = IF k \in position..position + match - 1
                          THEN output[position - offset + ((k - position) % offset)] ELSE output[k]
    BY <1>2, <1>4, <1>8 DEF BeginMatch, Stored
  <2>2. OnlyWritten(position, match)
    BY <2>1 DEF OnlyWritten
  <2>3. end <= outputLength /\ position <= end
    BY <1>3, <1>4, <1>8
  <2>4. valid <=> end - blockStart <= MaxBlock
    BY <1>5, <1>8, <2>3, Zenon
  <2>5. AgreeUpTo(output, text, position) \/ ~valid
    <3>1. position + moved = position
      BY <1>3, <1>5
    <3> QED
      BY <1>0, <3>1 DEF IsPlainSoFar
  <2>6. ASSUME valid PROVE AgreeUpTo(output', text, end)
    <3>1. ASSUME NEW i \in 0..match - 1 PROVE output'[position + i] = text[position + i + 1]
      <4>1. PICK r \in Nat : r = i % offset /\ r < offset
        BY <1>8, Division
      <4>2. PICK k \in Nat : k = position + i /\ k \in 0..outputLength - 1
                             /\ k \in position..position + match - 1 /\ k - position = i
        BY <1>3, <1>4, <2>3
      <4>3. output'[k] = output[position - offset + r]
        BY <2>1, <4>1, <4>2
      <4>4. PICK n \in 0..position - 1 : n = position - offset + r
        BY <1>3, <1>8, <4>1
      <4>5. output[n] = text[n + 1]
        BY <2>5, <2>6 DEF AgreeUpTo
      <4>6. text[position + i + 1] = text[position - offset + r + 1]
        BY <1>5, <2>6, <4>1 DEF MatchIsIn
      <4>7. position - offset + r + 1 = n + 1
        BY <4>4
      <4> QED
        BY <4>2, <4>3, <4>4, <4>5, <4>6, <4>7
    <3>2. AgreeUpTo(output', text, position + match)
      <4>1. match <= match /\ position + match <= outputLength
        BY <1>4, <2>3
      <4> QED
        BY <1>3, <2>2, <2>5, <2>6, <3>1, <4>1, AgreesFurther
    <3> QED
      BY <1>4, <3>2
  <2>7. valid => position + match <= blockStart + MaxBlock + Slack
    <3>1. valid => end - blockStart <= MaxBlock
      BY <2>4
    <3> QED
      BY <1>3, <1>4, <3>1
  <2>8. /\ (valid /\ parked # NoBlock) =>
             /\ blockStart + PairedLiteralsDistance <= parked.start
             /\ parked.start + parked.count <= outputLength
             /\ LiteralsAreIn(output', parked)
        /\ (valid /\ block.source = "parked") =>
             /\ blockStart + MaxBlock + Slack <= block.start
             /\ block.start + block.count <= outputLength
             /\ LiteralsAreIn(output', block)
    BY <1>0, <1>3, <2>2, <2>7, LiteralsStillWait
  <2>9. block.path = "fast" => end - blockStart <= MaxBlock
    BY <1>5
  <2> QED
    BY <1>0, <1>1, <1>5, <2>1, <2>3, <2>4, <2>6, <2>8, <2>9, EndSequenceKeepsIInv
<1> QED
  BY <1>6, <1>7, <1>8

LEMMA MoveMatchKeepsIInv ==
  ASSUME IInv, MoveMatch
  PROVE  IInv'
<1>0. ExecutionTypeOK /\ BlocksFit /\ LiteralsWait /\ InCopy /\ IsPlainSoFar
  BY DEF IInv
<1>1. /\ phase = "copy"
      /\ UNCHANGED <<outputLength, blockStart, block, parked, cursor, sequence, begun, text, valid>>
  BY DEF MoveMatch
<1>2. PICK match \in Nat, offset \in Nat : match = sequence.match /\ offset = sequence.offset
  BY <1>0, Fields
<1>3. /\ outputLength \in Nat /\ position \in Nat /\ blockStart \in Nat /\ blockStart <= position
      /\ text \in Seq(Bytes) /\ moved \in Nat /\ step \in Nat
      /\ MaxBlock \in Nat /\ Slack \in Nat /\ Vector \in Nat /\ Vector > 0 /\ Slack >= Vector
  BY <1>0, Sizes DEF ExecutionTypeOK
<1>4. PICK end \in Nat : end = position + match
  BY <1>3
<1>5. /\ moved < match /\ end + Slack <= outputLength /\ offset \in 1..position
      /\ offset <= step /\ step - offset <= moved
      /\ block.path = "fast" => end - blockStart <= MaxBlock
      /\ valid <=> end - blockStart <= MaxBlock
      /\ valid => Len(text) = end /\ Repeats(text, position, match, offset, step)
  BY <1>0, <1>1, <1>2, <1>4 DEF InCopy
<1>6. PICK start \in Nat : start = position + moved
  BY <1>3
<1>7. PICK from \in Nat : from = start - step /\ from >= position - offset
  BY <1>3, <1>5, <1>6
<1>8. PICK width \in Nat : width = IF step < Vector THEN step ELSE Vector
  BY <1>3
<1>9. \A k \in 0..outputLength - 1 :
        output'[k] = IF k \in start..start + Vector - 1 THEN ByteAt(from + (k - start)) ELSE output[k]
  <2>1. output' = Stored(position + moved, Vector, LAMBDA i : ByteAt(position + moved - step + i))
    BY DEF MoveMatch
  <2>2. position + moved - step = from
    BY <1>3, <1>6, <1>7
  <2> QED
    BY <1>6, <2>1, <2>2 DEF Stored
<1>10. OnlyWritten(start, Vector)
  BY <1>9 DEF OnlyWritten
<1>11. valid => AgreeUpTo(output, text, start)
  BY <1>0, <1>6 DEF IsPlainSoFar
<1>12. ASSUME valid, NEW right \in Nat, right <= width, moved + right <= match
       PROVE  AgreeUpTo(output', text, start + right)
  <2>1. ASSUME NEW i \in 0..right - 1 PROVE output'[start + i] = text[start + i + 1]
    <3>1. PICK k \in Nat : k = start + i /\ k \in 0..outputLength - 1
                           /\ k \in start..start + Vector - 1 /\ k - start = i
      BY <1>3, <1>4, <1>5, <1>6, <1>8, <1>12
    <3>2. PICK n \in Nat : n = from + i /\ n \in 0..start - 1 /\ n \in 0..outputLength - 1
      BY <1>3, <1>4, <1>5, <1>6, <1>7, <1>8, <1>12
    <3>3. output'[k] = ByteAt(n) /\ ByteAt(n) = output[n]
      BY <1>9, <3>1, <3>2 DEF ByteAt
    <3>4. output[n] = text[n + 1]
      BY <1>11, <1>12, <3>2 DEF AgreeUpTo
    <3>5. k \in position..position + match - 1 /\ k - step >= position - offset
      BY <1>3, <1>5, <1>6, <1>7, <1>12, <3>1
    <3>6. text[k + 1] = text[k + 1 - step]
      BY <1>5, <1>12, <3>5 DEF Repeats
    <3>7. k + 1 - step = n + 1 /\ k + 1 = start + i + 1
      BY <1>3, <1>7, <3>1, <3>2
    <3> QED
      BY <3>1, <3>3, <3>4, <3>6, <3>7
  <2>2. right <= Vector /\ start + right <= outputLength
    BY <1>3, <1>4, <1>5, <1>6, <1>8, <1>12
  <2> QED
    BY <1>3, <1>10, <1>11, <1>12, <2>1, <2>2, AgreesFurther
<1>13. valid => start + Vector <= blockStart + MaxBlock + Slack
  <2>1. valid => end - blockStart <= MaxBlock
    BY <1>5
  <2> QED
    BY <1>3, <1>4, <1>5, <1>6, <2>1
<1>14. /\ (valid /\ parked # NoBlock) =>
            /\ blockStart + PairedLiteralsDistance <= parked.start
            /\ parked.start + parked.count <= outputLength
            /\ LiteralsAreIn(output', parked)
       /\ (valid /\ block.source = "parked") =>
            /\ blockStart + MaxBlock + Slack <= block.start
            /\ block.start + block.count <= outputLength
            /\ LiteralsAreIn(output', block)
  BY <1>0, <1>3, <1>10, <1>13, LiteralsStillWait
<1>15. CASE moved + width < match
  <2>1. moved' = moved + width /\ step' = NextStep(step) /\ UNCHANGED <<position, phase>>
    BY <1>2, <1>8, <1>15 DEF MoveMatch
  <2>2. NextStep(step) = IF step < Vector THEN 2 * step ELSE step
    BY DEF NextStep
  <2>3. step' \in Nat /\ offset <= step' /\ step' - offset <= moved'
    BY <1>3, <1>5, <1>8, <2>1, <2>2
  <2>4. ExecutionTypeOK'
    BY <1>0, <1>1, <1>3, <2>1, <2>3 DEF ExecutionTypeOK
  <2>5. BlocksFit'
    BY <1>0, <1>1, <2>1 DEF BlocksFit, IsReadable
  <2>6. LiteralsWait'
    BY <1>1, <1>14 DEF LiteralsWait
  <2>7. InCopy'
    <3>1. valid => Repeats(text, position, match, offset, step')
      <4>1. CASE step < Vector
        BY <1>3, <1>5, <2>1, <2>2, <4>1, RepeatsDouble
      <4>2. CASE ~(step < Vector)
        BY <1>5, <2>1, <2>2, <4>2
      <4> QED
        BY <4>1, <4>2
    <3>2. valid' => Len(text') = end /\ Repeats(text', position', match, offset, step')
      BY <1>1, <1>5, <2>1, <3>1, Zenon
    <3>3. /\ moved' < match /\ end + Slack <= outputLength' /\ position' + match = end
          /\ offset \in 1..position'
      BY <1>1, <1>4, <1>5, <1>15, <2>1
    <3>4. /\ block'.path = "fast" => end - blockStart' <= MaxBlock
          /\ valid' <=> end - blockStart' <= MaxBlock
      BY <1>1, <1>5, Zenon
    <3>5. sequence'.match = match /\ sequence'.offset = offset
      BY <1>1, <1>2
    <3> QED
      BY <2>3, <3>2, <3>3, <3>4, <3>5 DEF InCopy
  <2>8. InFrame' /\ InBlock' /\ InLiterals' /\ InMatch' /\ InRefused'
    BY <1>1, <2>1 DEF InFrame, InBlock, InLiterals, InMatch, InRefused
  <2>9. IsPlainSoFar'
    <3>1. width <= width /\ moved + width <= match
      BY <1>3, <1>15
    <3>2. position' + moved' = start + width
      BY <1>3, <1>6, <2>1
    <3>3. valid => AgreeUpTo(output', text, start + width)
      BY <1>12, <3>1
    <3> QED
      BY <1>1, <3>2, <3>3 DEF IsPlainSoFar
  <2> QED
    BY <2>4, <2>5, <2>6, <2>7, <2>8, <2>9 DEF IInv
<1>16. CASE ~(moved + width < match)
  <2>1. EndSequence(end)
    BY <1>2, <1>4, <1>8, <1>16 DEF MoveMatch
  <2>2. PICK right \in Nat : right = match - moved /\ right <= width /\ moved + right <= match
                             /\ start + right = end
    BY <1>3, <1>4, <1>5, <1>6, <1>16
  <2>3. valid => AgreeUpTo(output', text, end)
    BY <1>12, <2>2
  <2>4. position <= end /\ end <= outputLength
    BY <1>3, <1>4, <1>5
  <2> QED
    BY <1>0, <1>1, <1>5, <1>14, <2>1, <2>3, <2>4, EndSequenceKeepsIInv
<1> QED
  BY <1>15, <1>16
-----------------------------------------------------------------------------
(***************************************************************************)
(* The theorems.                                                           *)
(***************************************************************************)
LEMMA NextKeepsIInv == IInv /\ [ExecutionNext]_executionVars => IInv'
<1> SUFFICES ASSUME IInv, [ExecutionNext]_executionVars PROVE IInv'
  OBVIOUS
<1>1. ASSUME NEW source \in {"raw", "rle", "decoded"}, NEW count \in LiteralCounts,
             NEW rest \in PayloadRests, NEW due \in 0..MaxSequences,
             StartBlock(source, count, rest, due)
      PROVE  IInv'
  BY <1>1, StartBlockKeepsIInv
<1>2. ASSUME NEW count \in LiteralCounts, NEW parkedCount \in LiteralCounts,
             NEW due \in 0..MaxSequences, NEW parkedLeft \in 0..MaxSequences,
             StartPair(count, due, parkedCount, parkedLeft)
      PROVE  IInv'
  BY <1>2, StartPairKeepsIInv
<1>3. ASSUME NEW literals \in LiteralLengths, NEW match \in MatchLengths, NEW offset \in Offsets,
             NextSequence(literals, match, offset)
      PROVE  IInv'
  BY <1>3, NextSequenceKeepsIInv
<1>4. CASE LastLiterals
  BY <1>4, LastLiteralsKeepsIInv
<1>5. CASE MoveLiterals
  BY <1>5, MoveLiteralsKeepsIInv
<1>6. CASE BeginMatch
  BY <1>6, BeginMatchKeepsIInv
<1>7. CASE MoveMatch
  BY <1>7, MoveMatchKeepsIInv
<1>8. CASE UNCHANGED executionVars
  <2>1. UNCHANGED <<outputLength, output, position, blockStart, block, parked, cursor,
                    sequence, moved, step, phase, begun, text, valid>>
    BY <1>8 DEF executionVars
  <2>2. ExecutionTypeOK' /\ BlocksFit' /\ LiteralsWait'
    BY <2>1 DEF IInv, ExecutionTypeOK, BlocksFit, IsReadable, LiteralsWait
  <2>3. InFrame' /\ InBlock' /\ InRefused' /\ IsPlainSoFar'
    BY <2>1 DEF IInv, InFrame, InBlock, InRefused, IsPlainSoFar
  <2>4. InLiterals'
    BY <2>1 DEF IInv, InLiterals
  <2>5. InMatch' /\ InCopy'
    BY <2>1 DEF IInv, InMatch, InCopy
  <2> QED
    BY <2>2, <2>3, <2>4, <2>5 DEF IInv
<1>9. CASE ExecutionOver
  BY <1>8, <1>9 DEF ExecutionOver
<1> QED
  BY <1>1, <1>2, <1>3, <1>4, <1>5, <1>6, <1>7, <1>8, <1>9 DEF ExecutionNext

\* The inductive invariant holds of every reachable state.
THEOREM AlwaysIInv == ExecutionSpec => []IInv
<1>1. ExecutionInit => IInv
  BY InitIInv
<1>2. IInv /\ [ExecutionNext]_executionVars => IInv'
  BY NextKeepsIInv
<1> QED
  BY <1>1, <1>2, PTL DEF ExecutionSpec

\* What is done of the output is, byte for byte, what copying without vectors
\* would have written, on either path, for every source of literals and with
\* vectors and slack of any width; and a frame is refused exactly when one of
\* its sequences cannot be executed.
THEOREM AlwaysOutputIsPlain == ExecutionSpec => []OutputIsPlain
<1>1. IInv => OutputIsPlain
  <2> SUFFICES ASSUME IInv PROVE OutputIsPlain
    OBVIOUS
  <2>0. ExecutionTypeOK /\ InFrame /\ InBlock /\ InRefused /\ IsPlainSoFar
    BY DEF IInv
  <2>1. ASSUME valid, NEW i \in 0..position - 1 PROVE output[i] = text[i + 1]
    <3>1. PICK n \in Nat : n = position + moved /\ i \in 0..n - 1
      BY <2>0 DEF ExecutionTypeOK
    <3>2. AgreeUpTo(output, text, n)
      BY <2>0, <2>1, <3>1 DEF IsPlainSoFar
    <3> QED
      BY <3>1, <3>2 DEF AgreeUpTo
  <2>2. phase \in {"frame", "block"} => valid /\ position = Len(text)
    BY <2>0 DEF InFrame, InBlock
  <2>3. phase = "refused" => ~valid
    BY <2>0 DEF InRefused
  <2> QED
    BY <2>1, <2>2, <2>3 DEF OutputIsPlain
<1> QED
  BY <1>1, AlwaysIInv, PTL

\* No vector of the fast path, or of a match copied with room behind it, is
\* read or written past the end of the allocation it lies in, whatever the
\* lengths and offsets of the sequences are.
THEOREM VectorsAlwaysStayInside == ExecutionSpec => []VectorsStayInside
<1>1. IInv => VectorsStayInside
  <2> SUFFICES ASSUME IInv PROVE VectorsStayInside
    OBVIOUS
  <2>0. ExecutionTypeOK /\ BlocksFit /\ InCopy
    BY DEF IInv
  <2>1. /\ outputLength \in Nat /\ position \in Nat /\ cursor \in Nat /\ moved \in Nat /\ step \in Nat
        /\ block.count \in Nat /\ block.readable \in Nat /\ sequence.match \in Nat
        /\ Vector \in Nat /\ Vector > 0 /\ Slack \in Nat /\ Slack >= Vector
        /\ block.source # "rle" => block.count <= block.readable
        /\ block.path = "fast" => block.count + Vector <= block.readable
    BY <2>0, Fields, Sizes DEF ExecutionTypeOK, BlocksFit, IsReadable
  <2>2. ASSUME phase = "literals"
        PROVE  LET width == IF sequence.exact THEN sequence.literals ELSE Vector
               IN  /\ position + moved + width <= outputLength
                   /\ block.source # "rle" => cursor + moved + width <= block.readable
    <3>1. PICK literals \in Nat, match \in Nat, end \in Nat : LiteralsLeft(literals, match, end)
      BY <2>2, LiteralsAreLeft
    <3>2. /\ literals = sequence.literals /\ end = position + literals + match /\ moved < literals
          /\ cursor + literals <= block.count /\ position + literals <= outputLength
          /\ sequence.exact => moved = 0
          /\ ~sequence.exact => block.path = "fast" /\ end + Slack <= outputLength
      BY <3>1 DEF LiteralsLeft
    <3>3. CASE sequence.exact
      <4>1. moved = 0
        BY <3>2, <3>3
      <4> QED
        BY <2>1, <3>2, <3>3, <4>1
    <3>4. CASE ~sequence.exact
      <4>1. block.path = "fast" /\ end + Slack <= outputLength
        BY <3>2, <3>4
      <4>2. block.count + Vector <= block.readable
        BY <2>1, <4>1
      <4> QED
        BY <2>1, <3>2, <3>4, <4>1, <4>2
    <3> QED
      BY <3>3, <3>4
  <2>3. ASSUME phase = "copy"
        PROVE  position + moved + Vector <= outputLength /\ 0 <= position + moved - step
    <3>1. /\ moved < sequence.match /\ position + sequence.match + Slack <= outputLength
          /\ sequence.offset \in 1..position /\ step - sequence.offset <= moved
      BY <2>0, <2>3 DEF InCopy
    <3> QED
      BY <2>1, <3>1
  <2> QED
    BY <2>2, <2>3 DEF VectorsStayInside
<1> QED
  BY <1>1, AlwaysIInv, PTL

\* While the first block of a pair is executed, no copy reaches the literals of
\* the second one, which wait in the output at the distance the code gives them.
THEOREM ParkedLiteralsAlwaysSurvive == ExecutionSpec => []ParkedLiteralsSurvive
<1>1. IInv => ParkedLiteralsSurvive
  BY DEF IInv, LiteralsWait, LiteralsAreIn, ParkedLiteralsSurvive
<1> QED
  BY <1>1, AlwaysIInv, PTL
LEMMA LeastNatural ==
  ASSUME NEW D, D \subseteq Nat, D # {}
  PROVE  \E d \in D : \A e \in D : d <= e
<1> DEFINE R == OpToRel(<, Nat)
<1>1. R = {ss \in Nat \X Nat : ss[1] < ss[2]}
  BY DEF OpToRel
<1>2. IsWellFoundedOn(R, Nat)
  BY NatLessThanWellFounded
<1> HIDE DEF R
<1>3. PICK d \in D : \A e \in D : ~(<<e, d>> \in R)
  BY <1>2, WFMin
<1>4. \A e, c \in Nat : e < c => <<e, c>> \in R
  BY <1>1
<1>5. ASSUME NEW e \in D PROVE d <= e
  <2>1. d \in Nat /\ e \in Nat
    OBVIOUS
  <2>2. ~(e < d)
    BY <1>3, <1>4, <2>1, Zenon
  <2> QED
    BY <2>1, <2>2
<1> QED
  BY <1>5

-----------------------------------------------------------------------------
(***************************************************************************)
(* Streams decoded in rounds.                                              *)
(***************************************************************************)

ContainerReaders == [position : Nat, consumed : Nat]

CursorRecords ==
  [reader : ContainerReaders, window : Nat, consumed : Nat, remaining : Nat, moved : BOOLEAN]

CursorsTypeOK ==
  /\ cursors \in [Streams -> CursorRecords] /\ left \in [Streams -> Int]
  /\ group \in {FirstGroup, SecondGroup, Streams}
  /\ rounds \in Nat /\ turn \in Streams /\ symbol \in 0..RoundSymbols - 1
  /\ huffmanPhase \in {"closed", "count", "round", "finish", "accepted", "refused"}

\* The bits in front of those that a word has given out.
BitsAhead(before, used) == ByteBits * before + WordBits - used

\* Bits that so many rounds, or the symbols left of one, use up at most.
RoundBits(n) == ByteBits * RoundBytes * n
SymbolBits(k) == (RoundSymbols - k) * MaxCodeBits

\* Where a reader of single symbols is.
ReaderIsAt(r, bits) ==
  IF Overflows(r) THEN bits = Overdrawn ELSE bits = BitsAhead(r.position, r.consumed)

\* Where a cursor is between two rounds.
CursorIsAt(c, bits) ==
  /\ c.moved => c.consumed < ByteBits
  /\ ~c.moved => ~Overflows(c.reader) /\ ReaderIsAt(c.reader, bits)
  /\ c.window > 0 => c.consumed <= ByteBits /\ bits = BitsAhead(c.window, c.consumed)
  /\ \/ bits = BitsAhead(c.window, c.consumed)
     \/ bits = 0 /\ ~c.moved

\* A cursor has room and symbols for so many rounds.
HasRounds(c, n) ==
  n > 0 => /\ c.consumed + RoundBits(n) < ByteBits * c.window + ByteBits
           /\ RoundSymbols * n <= c.remaining

\* Of n rounds that it has a cursor has decoded k symbols.
IsInRound(c, bits, k, n) ==
  /\ c.window > 0 /\ bits = BitsAhead(c.window, c.consumed)
  /\ c.consumed + SymbolBits(k) < WordBits
  /\ c.consumed + SymbolBits(k) + RoundBits(n - 1) < ByteBits * c.window + ByteBits
  /\ RoundSymbols * n <= c.remaining

\* Between the rounds, and of the cursors whose turn it is not.
OthersAreAt ==
  huffmanPhase \in {"count", "round"} =>
    \A s \in Streams :
      (huffmanPhase = "round" => s # turn) => CursorIsAt(cursors[s], left[s])

RoundsAreSafe ==
  huffmanPhase = "round" =>
    /\ rounds > 0 /\ turn \in group
    /\ IsInRound(cursors[turn], left[turn], symbol, rounds)
    /\ \A s \in group : /\ s > turn => HasRounds(cursors[s], rounds)
                        /\ s < turn => HasRounds(cursors[s], rounds - 1)

FinishersAreAt ==
  huffmanPhase = "finish" => \A s \in Streams : ReaderIsAt(HandOver(cursors[s]), left[s])

StreamsAreJudged ==
  /\ huffmanPhase = "accepted" => \A s \in Streams : left[s] = 0
  /\ huffmanPhase = "refused" => \E s \in Streams : left[s] # 0

CursorsInv ==
  /\ CursorsTypeOK /\ OthersAreAt /\ RoundsAreSafe /\ FinishersAreAt /\ StreamsAreJudged
  /\ huffmanPhase # "round" => symbol = 0

LEMMA CursorSizes ==
  /\ ByteBits \in Nat /\ ByteBits > 0 /\ WordBytes \in Nat /\ WordBytes > 0
  /\ WordBits \in Nat /\ WordBits = ByteBits * WordBytes
  /\ RoundSymbols \in Nat /\ RoundSymbols > 0 /\ RoundBytes \in Nat /\ RoundBytes > 0
  /\ MaxCodeBits \in Nat /\ MaxCodeBits > 0
  /\ \A bits \in CodeLengths : bits \in Nat /\ bits > 0 /\ bits <= MaxCodeBits
  /\ RoundSymbols * MaxCodeBits \in Nat /\ ByteBits * RoundBytes \in Nat
  /\ RoundSymbols * MaxCodeBits >= MaxCodeBits
  /\ ByteBits * RoundBytes >= ByteBits
  /\ RoundSymbols * MaxCodeBits <= ByteBits * RoundBytes
  /\ ByteBits + RoundSymbols * MaxCodeBits < WordBits
<1>1. /\ ByteBits \in Nat /\ ByteBits > 0 /\ WordBytes \in Nat /\ WordBytes > 0
      /\ WordBits \in Nat /\ WordBits = ByteBits * WordBytes
  BY ContainerAssumption DEF WordBits
<1>2. /\ RoundSymbols \in Nat /\ RoundSymbols > 0 /\ RoundBytes \in Nat /\ RoundBytes > 0
      /\ MaxCodeBits \in Nat /\ MaxCodeBits > 0
  BY CursorAssumption
<1>3. \A bits \in CodeLengths : bits \in Nat /\ bits > 0 /\ bits <= MaxCodeBits
  BY <1>2, CursorAssumption
<1>4. ASSUME NEW m \in Nat, NEW n \in Nat, m > 0, n > 0 PROVE m * n \in Nat /\ m * n >= n
  <2>1. PICK k \in Nat : m = k + 1
    <3>1. m - 1 \in Nat /\ m = (m - 1) + 1
      BY <1>4
    <3> QED
      BY <3>1
  <2>2. m * n = k * n + n /\ k * n \in Nat
    BY <2>1
  <2> QED
    BY <2>2
<1>5. ByteBits * RoundBytes = RoundBytes * ByteBits
  BY <1>1, <1>2
<1>6. /\ RoundSymbols * MaxCodeBits \in Nat /\ ByteBits * RoundBytes \in Nat
      /\ RoundSymbols * MaxCodeBits >= MaxCodeBits
      /\ ByteBits * RoundBytes >= ByteBits
  BY <1>1, <1>2, <1>4, <1>5
<1> QED
  BY <1>1, <1>2, <1>3, <1>6, CursorAssumption

LEMMA Divided ==
  ASSUME NEW n \in Nat, NEW d \in Nat, d > 0
  PROVE  \E q, r \in Nat : q = n \div d /\ r = n % d /\ r < d /\ n = d * q + r
<1>1. /\ n \div d \in Nat /\ n % d \in Nat /\ n % d < d
      /\ n = d * (n \div d) + (n % d)
  BY Division
<1> WITNESS n \div d \in Nat, n % d \in Nat
<1> QED
  BY <1>1

\* Products grow with their factors.
LEMMA Monotone ==
  ASSUME NEW n \in Nat, NEW a \in Nat, NEW b \in Nat, a <= b
  PROVE  n * a \in Nat /\ n * b \in Nat /\ n * a <= n * b /\ n * (b - a) = n * b - n * a
<1>1. PICK d \in Nat : b = a + d
  <2>1. b - a \in Nat /\ b = a + (b - a)
    OBVIOUS
  <2> QED
    BY <2>1
<1>2. n * b = n * a + n * d /\ n * a \in Nat /\ n * d \in Nat
  BY <1>1
<1>3. b - a = d
  BY <1>1
<1>4. n * (b - a) = n * d
  BY <1>3
<1> QED
  BY <1>2, <1>4

LEMMA LeastOfIs ==
  ASSUME NEW S, S \subseteq Nat, S # {}
  PROVE  LeastOf(S) \in S /\ \A y \in S : LeastOf(S) <= y
BY LeastNatural DEF LeastOf

\* A cursor at the beginning of its stream.
LEMMA NewCursorIsAt ==
  ASSUME NEW length \in Nat, length > 0, NEW marker \in 1..ByteBits, NEW count \in Nat
  PROVE  /\ NewCursor(length, marker, count) \in CursorRecords
         /\ CursorIsAt(NewCursor(length, marker, count), StreamBits(length, marker))
<1> DEFINE c == NewCursor(length, marker, count)
           bits == StreamBits(length, marker)
<1>1. /\ ByteBits \in Nat /\ ByteBits > 0 /\ WordBytes \in Nat /\ WordBytes > 0
      /\ WordBits \in Nat /\ WordBits = ByteBits * WordBytes /\ ByteBits < WordBits
      /\ marker \in Nat /\ marker > 0 /\ marker <= ByteBits
  BY CursorSizes
<1>2. /\ c.reader = OpenFast(length, marker) /\ c.window = c.reader.position
      /\ c.consumed = Least(c.reader.consumed, WordBits - 1)
      /\ c.remaining = count /\ c.moved = FALSE
  BY DEF NewCursor
<1>6. c = [reader |-> c.reader, window |-> c.window, consumed |-> c.consumed,
          remaining |-> c.remaining, moved |-> c.moved]
  BY DEF NewCursor
<1>3. bits = ByteBits * length - marker
  BY DEF StreamBits
<1> HIDE DEF c, bits
<1>4. CASE length >= WordBytes
  <2>1. c.reader = [position |-> length - WordBytes, consumed |-> marker]
    BY <1>2, <1>4 DEF OpenFast
  <2>2. c.window = length - WordBytes /\ c.window \in Nat /\ c.consumed = marker
    BY <1>1, <1>2, <1>4, <2>1 DEF Least
  <2>3. ByteBits * (length - WordBytes) = ByteBits * length - WordBits
    BY <1>1, <1>4, Monotone
  <2>4. bits = BitsAhead(c.window, c.consumed)
    BY <1>1, <1>3, <2>2, <2>3 DEF BitsAhead
  <2>5. c.reader \in ContainerReaders /\ ~Overflows(c.reader)
    BY <1>1, <2>1, <2>2 DEF ContainerReaders, Overflows
  <2>6. ReaderIsAt(c.reader, bits)
    BY <2>1, <2>2, <2>4, <2>5 DEF ReaderIsAt
  <2>7. c \in CursorRecords
    BY <1>1, <1>2, <1>6, <2>2, <2>5 DEF CursorRecords
  <2>8. CursorIsAt(c, bits)
    BY <1>1, <1>2, <2>2, <2>4, <2>5, <2>6 DEF CursorIsAt
  <2> QED
    BY <2>7, <2>8 DEF c, bits
<1>5. CASE ~(length >= WordBytes)
  <2>1. c.reader = [position |-> 0, consumed |-> marker + ByteBits * (WordBytes - length)]
    BY <1>2, <1>5 DEF OpenFast
  <2>2. ByteBits * (WordBytes - length) = WordBits - ByteBits * length
    BY <1>1, <1>5, Monotone
  <2>3. bits \in Nat /\ bits <= WordBits
    <3>1. ByteBits * 1 <= ByteBits * length /\ ByteBits * length \in Nat
      BY <1>1, Monotone
    <3>2. ByteBits * length <= ByteBits * WordBytes
      BY <1>1, <1>5, Monotone
    <3> QED
      BY <1>1, <1>3, <3>1, <3>2
  <2>4. c.reader.position = 0 /\ c.reader.consumed = WordBits - bits
    BY <1>1, <1>3, <2>1, <2>2
  <2>5. c.window = 0
    BY <1>2, <2>4
  <2>6. c.consumed \in Nat /\ c.consumed = IF bits = 0 THEN WordBits - 1 ELSE WordBits - bits
    BY <1>1, <1>2, <2>3, <2>4 DEF Least
  <2>7. c.reader \in ContainerReaders
    <3>1. marker + ByteBits * (WordBytes - length) = WordBits - bits
      BY <2>1, <2>4
    <3> QED
      BY <1>1, <2>1, <2>3, <3>1 DEF ContainerReaders
  <2>8. ~Overflows(c.reader)
    BY <1>1, <2>3, <2>4 DEF Overflows
  <2>9. ReaderIsAt(c.reader, bits)
    BY <1>1, <2>3, <2>4, <2>8 DEF ReaderIsAt, BitsAhead
  <2>10. bits = BitsAhead(c.window, c.consumed) \/ bits = 0
    BY <1>1, <2>3, <2>5, <2>6 DEF BitsAhead
  <2>11. c \in CursorRecords
    <3>1. c.window \in Nat /\ c.remaining \in Nat
      BY <1>2, <2>5
    <3>2. c.consumed \in Nat
      BY <2>6, Zenon
    <3>3. c.moved \in BOOLEAN
      BY <1>2
    <3> QED
      BY <1>6, <2>7, <3>1, <3>2, <3>3 DEF CursorRecords
  <2>12. CursorIsAt(c, bits)
    BY <1>2, <2>5, <2>8, <2>9, <2>10 DEF CursorIsAt
  <2> QED
    BY <2>11, <2>12 DEF c, bits
<1> QED
  BY <1>4, <1>5

LEMMA CursorsInitially == CursorsInit => CursorsInv
<1> SUFFICES ASSUME CursorsInit PROVE CursorsInv
  OBVIOUS
<1>1. Streams \subseteq Nat /\ Streams # {} /\ LeastOf(Streams) \in Streams
  <2>1. Streams \subseteq Nat /\ Streams # {}
    BY CursorAssumption DEF Streams
  <2> QED
    BY <2>1, LeastOfIs
<1>2. NewCursor(WordBytes, 1, 0) \in CursorRecords
  BY CursorSizes, NewCursorIsAt
<1>3. CursorsTypeOK
  BY <1>1, <1>2, CursorSizes DEF CursorsInit, CursorsTypeOK
<1> QED
  BY <1>3 DEF CursorsInit, CursorsInv, OthersAreAt, RoundsAreSafe, FinishersAreAt, StreamsAreJudged

LEMMA OpenStreamsKeeps ==
  ASSUME CursorsInv, NEW lengths \in [Streams -> HuffmanStreams],
         NEW markers \in [Streams -> {1, ByteBits}], NEW counts \in [Streams -> SymbolCounts],
         OpenStreams(lengths, markers, counts)
  PROVE  CursorsInv'
<1>1. ASSUME NEW s \in Streams
      PROVE  /\ NewCursor(lengths[s], markers[s], counts[s]) \in CursorRecords
             /\ CursorIsAt(NewCursor(lengths[s], markers[s], counts[s]),
                           StreamBits(lengths[s], markers[s]))
             /\ StreamBits(lengths[s], markers[s]) \in Int
  <2>1. lengths[s] \in Nat /\ lengths[s] > 0 /\ counts[s] \in Nat
    <3>1. lengths[s] \in HuffmanStreams /\ counts[s] \in SymbolCounts
      OBVIOUS
    <3>2. HuffmanStreams \subseteq Nat \ {0} /\ SymbolCounts \subseteq Nat
      BY CursorAssumption, Zenon
    <3>3. lengths[s] \in Nat \ {0} /\ counts[s] \in Nat
      BY <3>1, <3>2, Zenon
    <3> QED
      BY <3>3
  <2>2. markers[s] \in 1..ByteBits
    BY CursorSizes
  <2>3. StreamBits(lengths[s], markers[s]) \in Int
    BY <2>1, <2>2, CursorSizes DEF StreamBits
  <2> QED
    BY <2>1, <2>2, <2>3, NewCursorIsAt
<1>2. /\ cursors' = [s \in Streams |-> NewCursor(lengths[s], markers[s], counts[s])]
      /\ left' = [s \in Streams |-> StreamBits(lengths[s], markers[s])]
      /\ huffmanPhase' = "count" /\ symbol' = symbol
      /\ group' = group /\ rounds' = rounds /\ turn' = turn /\ huffmanPhase = "closed"
  BY DEF OpenStreams
<1>3. CursorsTypeOK'
  BY <1>1, <1>2 DEF CursorsInv, CursorsTypeOK
<1>4. \A s \in Streams : CursorIsAt(cursors'[s], left'[s])
  BY <1>1, <1>2
<1>5. OthersAreAt'
  BY <1>4 DEF OthersAreAt
<1> QED
  BY <1>2, <1>3, <1>5 DEF CursorsInv, RoundsAreSafe, FinishersAreAt, StreamsAreJudged

\* The bits of rounds and of symbols that are left.
LEMMA BitsAreUsedUp ==
  /\ RoundBits(0) = 0
  /\ \A n \in Nat : n > 0 => /\ RoundBits(n) = RoundBits(n - 1) + ByteBits * RoundBytes
                             /\ RoundBits(n - 1) \in Nat /\ n - 1 \in Nat
                             /\ RoundSymbols * n = RoundSymbols * (n - 1) + RoundSymbols
                             /\ RoundSymbols * (n - 1) \in Nat
  /\ SymbolBits(0) = RoundSymbols * MaxCodeBits
  /\ \A k \in 0..RoundSymbols - 1 : /\ SymbolBits(k) = SymbolBits(k + 1) + MaxCodeBits
                                    /\ SymbolBits(k + 1) \in Nat
  /\ SymbolBits(RoundSymbols) = 0
<1>1. /\ RoundSymbols \in Nat /\ MaxCodeBits \in Nat /\ ByteBits * RoundBytes \in Nat
  BY CursorSizes
<1>2. RoundBits(0) = 0
  BY <1>1 DEF RoundBits
<1>3. ASSUME NEW n \in Nat, n > 0
      PROVE  /\ RoundBits(n) = RoundBits(n - 1) + ByteBits * RoundBytes
             /\ RoundBits(n - 1) \in Nat /\ n - 1 \in Nat
             /\ RoundSymbols * n = RoundSymbols * (n - 1) + RoundSymbols
             /\ RoundSymbols * (n - 1) \in Nat
  <2>1. PICK m \in Nat : n = m + 1 /\ m = n - 1
    BY <1>3
  <2>2. PICK k \in Nat : k = ByteBits * RoundBytes
    BY <1>1
  <2>3. k * n = k * m + k /\ k * m \in Nat
    BY <2>1
  <2>4. RoundSymbols * n = RoundSymbols * m + RoundSymbols /\ RoundSymbols * m \in Nat
    BY <1>1, <2>1
  <2> QED
    BY <2>1, <2>2, <2>3, <2>4 DEF RoundBits
<1>4. SymbolBits(0) = RoundSymbols * MaxCodeBits /\ SymbolBits(RoundSymbols) = 0
  BY <1>1 DEF SymbolBits
<1>5. ASSUME NEW k \in 0..RoundSymbols - 1
      PROVE  /\ SymbolBits(k) = SymbolBits(k + 1) + MaxCodeBits
             /\ SymbolBits(k + 1) \in Nat
  <2>1. PICK m \in Nat : m = RoundSymbols - (k + 1) /\ RoundSymbols - k = m + 1
    BY <1>1
  <2>2. (m + 1) * MaxCodeBits = m * MaxCodeBits + MaxCodeBits /\ m * MaxCodeBits \in Nat
    BY <1>1
  <2> QED
    BY <2>1, <2>2 DEF SymbolBits
<1> QED
  BY <1>2, <1>3, <1>4, <1>5

\* Rounds counted for a cursor are rounds that it has.
LEMMA SafeRoundsAreHad ==
  ASSUME NEW c \in CursorRecords, NEW n \in Nat, n <= SafeRounds(c)
  PROVE  HasRounds(c, n)
<1> SUFFICES ASSUME n > 0 PROVE HasRounds(c, n)
  BY DEF HasRounds
<1>1. /\ ByteBits \in Nat /\ ByteBits > 0 /\ RoundBytes \in Nat /\ RoundBytes > 0
      /\ RoundSymbols \in Nat /\ RoundSymbols > 0
      /\ c.window \in Nat /\ c.consumed \in Nat /\ c.remaining \in Nat
  BY CursorSizes DEF CursorRecords
<1>0. \A m, d \in Nat : d > 0 => \E q, r \in Nat : q = m \div d /\ r < d /\ m = d * q + r
  BY Divided
<1>17. c.consumed \in Nat /\ ByteBits \in Nat /\ ByteBits > 0
  BY <1>1
<1>18. c.remaining \in Nat /\ RoundSymbols \in Nat /\ RoundSymbols > 0
  BY <1>1
<1>19. RoundBytes \in Nat /\ RoundBytes > 0
  BY <1>1
<1>2. PICK used \in Nat, r \in Nat : /\ used = c.consumed \div ByteBits /\ r < ByteBits
                                     /\ c.consumed = ByteBits * used + r
  BY <1>0, <1>17, ZenonT(60)
<1>3. PICK room \in Nat : room = IF used <= c.window THEN c.window - used ELSE 0
  BY <1>1
<1>4. PICK fit \in Nat, q \in Nat : /\ fit = room \div RoundBytes /\ q < RoundBytes
                                    /\ room = RoundBytes * fit + q
  BY <1>0, <1>19, ZenonT(60)
<1>5. PICK many \in Nat, p \in Nat : /\ many = c.remaining \div RoundSymbols /\ p < RoundSymbols
                                     /\ c.remaining = RoundSymbols * many + p
  BY <1>0, <1>18, ZenonT(60)
<1>6. SafeRounds(c) = Least(fit, many)
  BY <1>2, <1>3, <1>4, <1>5 DEF SafeRounds
<1>7. n <= fit /\ n <= many
  BY <1>6 DEF Least
<1>8. RoundSymbols * n <= c.remaining
  <2>1. RoundSymbols * n <= RoundSymbols * many /\ RoundSymbols * many \in Nat /\ RoundSymbols * n \in Nat
    BY <1>1, <1>7, Monotone
  <2> QED
    BY <1>1, <1>5, <2>1
<1>9. RoundBytes * n <= room /\ RoundBytes * n \in Nat
  <2>1. RoundBytes * n <= RoundBytes * fit /\ RoundBytes * fit \in Nat /\ RoundBytes * n \in Nat
    BY <1>1, <1>7, Monotone
  <2> QED
    BY <1>4, <2>1
<1>10. room > 0
  <2>1. RoundBytes * 1 <= RoundBytes * n
    BY <1>1, Monotone
  <2> QED
    BY <1>1, <1>9, <2>1
<1>11. used + RoundBytes * n <= c.window
  BY <1>1, <1>3, <1>9, <1>10
<1>12. PICK m \in Nat : m = RoundBytes * n
  BY <1>9
<1>13. ByteBits * (used + m) <= ByteBits * c.window
  BY <1>1, <1>11, <1>12, Monotone
<1>14. ByteBits * (used + m) = ByteBits * used + ByteBits * m
  BY <1>1
<1>15. ByteBits * m = RoundBits(n)
  BY <1>1, <1>12 DEF RoundBits
<1>16. c.consumed + RoundBits(n) < ByteBits * c.window + ByteBits
  <2>1. ByteBits * used \in Nat /\ ByteBits * m \in Nat /\ ByteBits * c.window \in Nat
    BY <1>1
  <2> QED
    BY <1>1, <1>2, <1>13, <1>14, <1>15, <2>1
<1> QED
  BY <1>8, <1>16 DEF HasRounds

LEMMA SafeRoundsType == ASSUME NEW c \in CursorRecords PROVE SafeRounds(c) \in Nat
<1>1. /\ ByteBits \in Nat /\ ByteBits > 0 /\ RoundBytes \in Nat /\ RoundBytes > 0
      /\ RoundSymbols \in Nat /\ RoundSymbols > 0
      /\ c.window \in Nat /\ c.consumed \in Nat /\ c.remaining \in Nat
  BY CursorSizes DEF CursorRecords
<1>2. \A n, d \in Nat : d > 0 => n \div d \in Nat
  BY Division
<1>3. PICK used \in Nat : used = c.consumed \div ByteBits
  BY <1>1, <1>2, Zenon
<1>4. PICK room \in Nat : room = IF used <= c.window THEN c.window - used ELSE 0
  BY <1>1
<1>5. PICK fit \in Nat : fit = room \div RoundBytes
  BY <1>1, <1>2, Zenon
<1>6. PICK many \in Nat : many = c.remaining \div RoundSymbols
  BY <1>1, <1>2, Zenon
<1>7. SafeRounds(c) = Least(fit, many)
  BY <1>3, <1>4, <1>5, <1>6 DEF SafeRounds
<1> QED
  BY <1>7 DEF Least

\* A cursor that has a round may begin it.
LEMMA RoundBegins ==
  ASSUME NEW c \in CursorRecords, NEW bits, NEW n \in Nat, n > 0,
         CursorIsAt(c, bits), HasRounds(c, n)
  PROVE  IsInRound(c, bits, 0, n)
<1>1. /\ ByteBits \in Nat /\ ByteBits > 0 /\ WordBits \in Nat
      /\ ByteBits + RoundSymbols * MaxCodeBits < WordBits
      /\ RoundSymbols * MaxCodeBits \in Nat /\ ByteBits * RoundBytes \in Nat
      /\ RoundSymbols * MaxCodeBits <= ByteBits * RoundBytes
      /\ ByteBits * RoundBytes >= ByteBits
      /\ c.window \in Nat /\ c.consumed \in Nat
  BY CursorSizes DEF CursorRecords
<1>2. RoundBits(n) = RoundBits(n - 1) + ByteBits * RoundBytes /\ RoundBits(n - 1) \in Nat
  BY BitsAreUsedUp
<1>3. /\ c.consumed + RoundBits(n) < ByteBits * c.window + ByteBits
      /\ RoundSymbols * n <= c.remaining
  BY DEF HasRounds
<1>4. c.window > 0
  <2> SUFFICES ASSUME c.window = 0 PROVE FALSE
    BY <1>1
  <2>1. ByteBits * c.window = 0
    BY <1>1
  <2> QED
    BY <1>1, <1>2, <1>3, <2>1
<1>5. c.consumed <= ByteBits /\ bits = BitsAhead(c.window, c.consumed)
  BY <1>4 DEF CursorIsAt
<1>6. SymbolBits(0) = RoundSymbols * MaxCodeBits
  BY BitsAreUsedUp
<1>7. c.consumed + SymbolBits(0) < WordBits
  BY <1>1, <1>5, <1>6
<1>8. c.consumed + SymbolBits(0) + RoundBits(n - 1) < ByteBits * c.window + ByteBits
  <2>1. ByteBits * c.window \in Nat
    BY <1>1
  <2> QED
    BY <1>1, <1>2, <1>3, <1>6, <2>1
<1> QED
  BY <1>3, <1>4, <1>5, <1>7, <1>8 DEF IsInRound

\* A symbol more of it.
LEMMA SymbolIsTaken ==
  ASSUME NEW c \in CursorRecords, NEW left1 \in Int, NEW k \in 0..RoundSymbols - 1,
         NEW n \in Nat, n > 0, IsInRound(c, left1, k, n), NEW bits \in CodeLengths
  PROVE  LET d == [c EXCEPT !.consumed = @ + bits]
         IN  /\ d \in CursorRecords /\ Take(left1, bits) \in Int
             /\ IsInRound(d, Take(left1, bits), k + 1, n)
<1> DEFINE d == [c EXCEPT !.consumed = @ + bits]
<1>1. /\ ByteBits \in Nat /\ ByteBits > 0 /\ WordBits \in Nat /\ MaxCodeBits \in Nat
      /\ bits \in Nat /\ bits > 0 /\ bits <= MaxCodeBits
  BY CursorSizes
<1>2. c.window \in Nat /\ c.consumed \in Nat /\ c.remaining \in Nat
  BY DEF CursorRecords
<1>3. d \in CursorRecords
  BY <1>1, <1>2 DEF CursorRecords
<1>4. d.window = c.window /\ d.remaining = c.remaining /\ d.consumed = c.consumed + bits
  BY DEF CursorRecords
<1>5. SymbolBits(k) = SymbolBits(k + 1) + MaxCodeBits /\ SymbolBits(k + 1) \in Nat
  BY BitsAreUsedUp
<1>6. PICK ahead \in Nat : ahead = ByteBits * c.window
  BY <1>1, <1>2
<1>7. RoundBits(n - 1) \in Nat
  BY BitsAreUsedUp
<1>8. /\ left1 = ahead + WordBits - c.consumed
      /\ c.consumed + SymbolBits(k) < WordBits
      /\ c.consumed + SymbolBits(k) + RoundBits(n - 1) < ahead + ByteBits
  BY <1>6 DEF IsInRound, BitsAhead
<1>9. Take(left1, bits) = left1 - bits
  <2>1. bits <= left1
    BY <1>1, <1>2, <1>5, <1>8
  <2> QED
    BY <2>1 DEF Take
<1>10. left1 - bits = BitsAhead(d.window, d.consumed)
  BY <1>1, <1>2, <1>4, <1>6, <1>8 DEF BitsAhead
<1>11. d.consumed + SymbolBits(k + 1) < WordBits
  BY <1>1, <1>2, <1>4, <1>5, <1>8
<1>12. d.consumed + SymbolBits(k + 1) + RoundBits(n - 1) < ByteBits * d.window + ByteBits
  BY <1>1, <1>2, <1>4, <1>5, <1>6, <1>7, <1>8
<1>13. d.window > 0 /\ RoundSymbols * n <= d.remaining
  BY <1>4 DEF IsInRound
<1>14. IsInRound(d, Take(left1, bits), k + 1, n)
  BY <1>9, <1>10, <1>11, <1>12, <1>13 DEF IsInRound
<1> QED
  BY <1>1, <1>3, <1>9, <1>14

\* The end of a round: the word moves, and a round less is left.
LEMMA RoundEnds ==
  ASSUME NEW c \in CursorRecords, NEW bits \in Int, NEW n \in Nat, n > 0,
         IsInRound(c, bits, RoundSymbols, n)
  PROVE  /\ MoveWindow(c) \in CursorRecords
         /\ CursorIsAt(MoveWindow(c), bits) /\ HasRounds(MoveWindow(c), n - 1)
<1> DEFINE d == MoveWindow(c)
<1>1. /\ ByteBits \in Nat /\ ByteBits > 0 /\ WordBits \in Nat
      /\ RoundSymbols \in Nat /\ RoundSymbols > 0
      /\ c.window \in Nat /\ c.consumed \in Nat /\ c.remaining \in Nat
      /\ c.reader \in ContainerReaders
  BY CursorSizes DEF CursorRecords
<1>0. PICK x \in Nat : x = c.consumed
  BY <1>1
<1>2. PICK q \in Nat, r \in Nat : /\ q = x \div ByteBits /\ r = x % ByteBits
                                  /\ r < ByteBits /\ x = ByteBits * q + r
  BY <1>1, Divided
<1>12. r < ByteBits /\ c.consumed = ByteBits * q + r
  BY <1>0, <1>2
<1>3. d = [reader |-> c.reader, window |-> c.window - q, consumed |-> r,
           remaining |-> c.remaining - RoundSymbols, moved |-> TRUE]
  <2>1. c.consumed \div ByteBits = q /\ c.consumed % ByteBits = r
    BY <1>0, <1>2, Zenon
  <2>2. d = [c EXCEPT !.window = c.window - q, !.consumed = r,
                      !.remaining = c.remaining - RoundSymbols, !.moved = TRUE]
    BY <2>1, Zenon DEF MoveWindow
  <2> HIDE DEF d
  <2> QED
    BY <2>2 DEF CursorRecords
<1>4. /\ RoundBits(n - 1) \in Nat /\ RoundSymbols * n = RoundSymbols * (n - 1) + RoundSymbols
      /\ RoundSymbols * (n - 1) \in Nat /\ SymbolBits(RoundSymbols) = 0
  BY BitsAreUsedUp
<1>5. /\ bits = BitsAhead(c.window, c.consumed)
      /\ c.consumed + RoundBits(n - 1) < ByteBits * c.window + ByteBits
      /\ RoundSymbols * n <= c.remaining
  BY <1>1, <1>4 DEF IsInRound
<1>6. q <= c.window
  <2> SUFFICES ASSUME ~(q <= c.window) PROVE FALSE
    OBVIOUS
  <2>3. c.window + 1 <= q
    BY <1>1
  <2>1. ByteBits * (c.window + 1) <= ByteBits * q /\ ByteBits * q \in Nat
    BY <1>1, <2>3, Monotone
  <2>2. ByteBits * (c.window + 1) = ByteBits * c.window + ByteBits /\ ByteBits * c.window \in Nat
    BY <1>1
  <2> QED
    BY <1>1, <1>12, <1>4, <1>5, <2>1, <2>2
<1> HIDE DEF d
<1>7. /\ ByteBits * (c.window - q) = ByteBits * c.window - ByteBits * q
      /\ ByteBits * c.window \in Nat /\ ByteBits * q \in Nat
  BY <1>1, <1>12, <1>6, Monotone
<1>8. d \in CursorRecords
  <2>1. c.window - q \in Nat /\ c.remaining - RoundSymbols \in Nat
    BY <1>1, <1>4, <1>5, <1>6
  <2> QED
    BY <1>1, <1>12, <1>3, <2>1 DEF CursorRecords
<1>9. bits = BitsAhead(c.window - q, r)
  BY <1>1, <1>12, <1>5, <1>7 DEF BitsAhead
<1>10. CursorIsAt(d, bits)
  BY <1>1, <1>12, <1>3, <1>9 DEF CursorIsAt
<1>11. HasRounds(d, n - 1)
  <2>1. r + RoundBits(n - 1) < ByteBits * (c.window - q) + ByteBits
    BY <1>1, <1>12, <1>4, <1>5, <1>7
  <2>2. RoundSymbols * (n - 1) <= c.remaining - RoundSymbols
    BY <1>1, <1>4, <1>5
  <2> QED
    BY <1>3, <2>1, <2>2 DEF HasRounds
<1> QED
  BY <1>8, <1>10, <1>11 DEF d

LEMMA StreamNumbers ==
  /\ Streams \subseteq Nat
  /\ \A g \in {FirstGroup, SecondGroup, Streams} : g \subseteq Streams /\ g # {} /\ g \subseteq Nat
BY CursorAssumption DEF Streams

LEMMA CountRoundsKeeps == ASSUME CursorsInv, CountRounds PROVE CursorsInv'
<1> DEFINE count == LeastOf({SafeRounds(cursors[s]) : s \in group})
<1>1. /\ cursors \in [Streams -> CursorRecords] /\ left \in [Streams -> Int]
      /\ group \in {FirstGroup, SecondGroup, Streams} /\ group \subseteq Streams /\ group # {}
      /\ group \subseteq Nat /\ symbol = 0 /\ symbol \in 0..RoundSymbols - 1 /\ turn \in Streams
  BY StreamNumbers DEF CountRounds, CursorsInv, CursorsTypeOK
<1>2. /\ huffmanPhase = "count" /\ cursors' = cursors /\ symbol' = symbol /\ left' = left
      /\ rounds' = count
  BY DEF CountRounds
<1>3. \A s \in Streams : cursors[s] \in CursorRecords /\ CursorIsAt(cursors[s], left[s])
  BY <1>1, <1>2 DEF CursorsInv, OthersAreAt
<1>4. count \in Nat /\ \A s \in group : count <= SafeRounds(cursors[s])
  <2>1. \A s \in group : SafeRounds(cursors[s]) \in Nat
    BY <1>1, <1>3, SafeRoundsType
  <2>2. /\ {SafeRounds(cursors[s]) : s \in group} \subseteq Nat
        /\ {SafeRounds(cursors[s]) : s \in group} # {}
    BY <1>1, <2>1
  <2>3. /\ count \in {SafeRounds(cursors[s]) : s \in group}
        /\ \A y \in {SafeRounds(cursors[s]) : s \in group} : count <= y
    BY <2>2, LeastOfIs, Zenon
  <2> QED
    BY <2>1, <2>3
<1> HIDE DEF count
<1>5. CASE count > 0
  <2>1. huffmanPhase' = "round" /\ turn' = LeastOf(group) /\ group' = group
    BY <1>5 DEF CountRounds, count
  <2>2. LeastOf(group) \in group /\ \A y \in group : LeastOf(group) <= y
    BY <1>1, LeastOfIs
  <2>3. CursorsTypeOK'
    BY <1>1, <1>2, <1>4, <2>1, <2>2 DEF CursorsTypeOK
  <2>4. \A s \in group : HasRounds(cursors[s], count)
    BY <1>1, <1>3, <1>4, SafeRoundsAreHad
  <2>5. IsInRound(cursors[turn'], left[turn'], 0, count)
    BY <1>1, <1>3, <1>4, <1>5, <2>1, <2>2, <2>4, RoundBegins
  <2>6. RoundsAreSafe'
    <3>1. ASSUME NEW s \in group PROVE ~(s < turn')
      <4>1. s \in Nat /\ turn' \in Nat /\ turn' <= s
        BY <1>1, <2>1, <2>2
      <4> QED
        BY <4>1
    <3> QED
      BY <1>1, <1>2, <1>5, <2>1, <2>2, <2>4, <2>5, <3>1 DEF RoundsAreSafe
  <2>7. OthersAreAt'
    BY <1>2, <1>3 DEF OthersAreAt
  <2> QED
    BY <2>1, <2>3, <2>6, <2>7 DEF CursorsInv, FinishersAreAt, StreamsAreJudged
<1>6. CASE ~(count > 0)
  <2>1. /\ group' = NextGroup(group) /\ turn' = turn
        /\ huffmanPhase' = IF group = SecondGroup THEN "finish" ELSE "count"
    BY <1>6 DEF CountRounds, count
  <2>2. CursorsTypeOK'
    BY <1>1, <1>2, <1>4, <2>1 DEF CursorsTypeOK, NextGroup
  <2>3. ASSUME NEW s \in Streams PROVE ReaderIsAt(HandOver(cursors[s]), left[s])
    <3>1. /\ ByteBits \in Nat /\ WordBits \in Nat /\ ByteBits < WordBits
          /\ RoundSymbols * MaxCodeBits \in Nat
      BY CursorSizes
    <3>2. cursors[s].consumed \in Nat
      BY <1>3 DEF CursorRecords
    <3>3. CASE cursors[s].moved
      <4>1. /\ HandOver(cursors[s])
                 = [position |-> cursors[s].window, consumed |-> cursors[s].consumed]
            /\ cursors[s].consumed < ByteBits
            /\ left[s] = BitsAhead(cursors[s].window, cursors[s].consumed)
        BY <1>3, <3>3 DEF CursorIsAt, HandOver
      <4> QED
        BY <3>1, <3>2, <4>1 DEF ReaderIsAt, Overflows
    <3>4. CASE ~cursors[s].moved
      BY <1>3, <3>4 DEF CursorIsAt, HandOver
    <3> QED
      BY <3>3, <3>4
  <2>4. FinishersAreAt' /\ OthersAreAt'
    BY <1>2, <1>3, <2>3 DEF FinishersAreAt, OthersAreAt, HandOver
  <2>5. RoundsAreSafe' /\ StreamsAreJudged'
    BY <2>1 DEF RoundsAreSafe, StreamsAreJudged
  <2> QED
    BY <1>1, <1>2, <2>2, <2>4, <2>5 DEF CursorsInv
<1> QED
  BY <1>5, <1>6

LEMMA DecodeSymbolKeeps ==
  ASSUME CursorsInv, NEW bits \in CodeLengths, DecodeSymbol(bits)
  PROVE  CursorsInv'
<1> DEFINE shifted == [cursors[turn] EXCEPT !.consumed = @ + bits]
           rest == Take(left[turn], bits)
<1>1. /\ cursors \in [Streams -> CursorRecords] /\ left \in [Streams -> Int]
      /\ group \in {FirstGroup, SecondGroup, Streams} /\ group \subseteq Streams /\ group # {}
      /\ group \subseteq Nat /\ symbol \in 0..RoundSymbols - 1 /\ turn \in Streams /\ turn \in Nat
      /\ rounds \in Nat /\ RoundSymbols \in Nat /\ RoundSymbols > 0 /\ Streams \subseteq Nat
  BY StreamNumbers, CursorSizes DEF CursorsInv, CursorsTypeOK
<1>2. /\ huffmanPhase = "round" /\ rounds > 0 /\ turn \in group
      /\ IsInRound(cursors[turn], left[turn], symbol, rounds)
  BY DEF DecodeSymbol, CursorsInv, RoundsAreSafe
<1>3. \A s \in Streams : s # turn => CursorIsAt(cursors[s], left[s])
  BY <1>2 DEF CursorsInv, OthersAreAt
<1>4. \A s \in group : /\ s > turn => HasRounds(cursors[s], rounds)
                       /\ s < turn => HasRounds(cursors[s], rounds - 1)
  BY <1>2 DEF CursorsInv, RoundsAreSafe
<1>5. /\ shifted \in CursorRecords /\ rest \in Int
      /\ IsInRound(shifted, rest, symbol + 1, rounds)
  <2>1. cursors[turn] \in CursorRecords /\ left[turn] \in Int
    BY <1>1
  <2> QED
    BY <1>1, <1>2, <2>1, SymbolIsTaken
<1>6. left' = [left EXCEPT ![turn] = rest] /\ group' = group
  BY DEF DecodeSymbol
<1>7. CASE symbol + 1 < RoundSymbols
  <2>1. /\ symbol' = symbol + 1 /\ cursors' = [cursors EXCEPT ![turn] = shifted]
        /\ rounds' = rounds /\ turn' = turn /\ huffmanPhase' = huffmanPhase
    BY <1>7 DEF DecodeSymbol
  <2> HIDE DEF shifted, rest
  <2>2. CursorsTypeOK'
    BY <1>1, <1>2, <1>5, <1>6, <1>7, <2>1 DEF CursorsTypeOK
  <2>3. OthersAreAt'
    BY <1>1, <1>2, <1>3, <1>6, <2>1 DEF OthersAreAt
  <2>4. cursors'[turn] = shifted /\ left'[turn] = rest
    BY <1>1, <1>6, <2>1
  <2>5. \A s \in group : s # turn => cursors'[s] = cursors[s]
    BY <1>1, <2>1
  <2>6. RoundsAreSafe'
    <3>1. ASSUME NEW s \in group
          PROVE  /\ s > turn => HasRounds(cursors'[s], rounds)
                 /\ s < turn => HasRounds(cursors'[s], rounds - 1)
      <4>1. s \in Nat
        BY <1>1
      <4>2. (s > turn => s # turn) /\ (s < turn => s # turn)
        BY <1>1, <4>1
      <4> QED
        BY <1>4, <2>5, <4>2
    <3> QED
      BY <1>2, <1>5, <1>6, <2>1, <2>4, <3>1 DEF RoundsAreSafe
  <2> QED
    BY <1>2, <2>1, <2>2, <2>3, <2>6 DEF CursorsInv, FinishersAreAt, StreamsAreJudged
<1>8. CASE ~(symbol + 1 < RoundSymbols)
  <2> DEFINE next == MoveWindow(shifted)
  <2>1. symbol' = 0 /\ cursors' = [cursors EXCEPT ![turn] = next] /\ NextTurn
    BY <1>8 DEF DecodeSymbol
  <2>2. symbol + 1 = RoundSymbols
    BY <1>1, <1>8
  <2> HIDE DEF shifted, rest
  <2>3. next \in CursorRecords /\ CursorIsAt(next, rest) /\ HasRounds(next, rounds - 1)
    BY <1>1, <1>2, <1>5, <2>2, RoundEnds
  <2> HIDE DEF next
  <2>4. \A s \in Streams : cursors'[s] \in CursorRecords /\ CursorIsAt(cursors'[s], left'[s])
    BY <1>1, <1>3, <1>6, <2>1, <2>3
  <2>5. cursors' \in [Streams -> CursorRecords] /\ left' \in [Streams -> Int]
    BY <1>1, <1>5, <1>6, <2>1, <2>3
  <2>6. ASSUME NEW s \in group
        PROVE  /\ s > turn => HasRounds(cursors'[s], rounds)
               /\ ~(s > turn) => HasRounds(cursors'[s], rounds - 1)
    <3>1. s \in Nat /\ (s > turn \/ s < turn \/ s = turn)
      BY <1>1
    <3>2. CASE s > turn
      <4>1. cursors'[s] = cursors[s]
        BY <1>1, <2>1, <3>2
      <4> QED
        BY <1>4, <3>2, <4>1
    <3>3. CASE s < turn
      <4>1. cursors'[s] = cursors[s] /\ ~(s > turn)
        BY <1>1, <2>1, <3>3
      <4> QED
        BY <1>4, <3>3, <4>1
    <3>4. CASE s = turn
      <4>1. cursors'[s] = next /\ ~(s > turn)
        BY <1>1, <2>1, <3>4
      <4> QED
        BY <2>3, <4>1
    <3> QED
      BY <3>1, <3>2, <3>3, <3>4
  <2> DEFINE behind == {s \in group : s > turn}
  <2>7. CASE behind # {}
    <3>1. turn' = LeastOf(behind) /\ rounds' = rounds /\ huffmanPhase' = huffmanPhase
      BY <2>1, <2>7 DEF NextTurn
    <3>2. LeastOf(behind) \in behind /\ \A y \in behind : LeastOf(behind) <= y
      BY <1>1, <2>7, LeastOfIs
    <3>3. turn' \in group /\ turn' > turn /\ turn' \in Streams /\ turn' \in Nat
      BY <1>1, <3>1, <3>2
    <3>4. IsInRound(cursors'[turn'], left'[turn'], 0, rounds)
      <4>1. cursors'[turn'] \in CursorRecords /\ CursorIsAt(cursors'[turn'], left'[turn'])
        BY <2>4, <3>3
      <4>2. HasRounds(cursors'[turn'], rounds)
        BY <2>6, <3>3
      <4> QED
        BY <1>1, <1>2, <4>1, <4>2, RoundBegins
    <3>5. ASSUME NEW s \in group
          PROVE  /\ s > turn' => HasRounds(cursors'[s], rounds)
                 /\ s < turn' => HasRounds(cursors'[s], rounds - 1)
      <4>1. s \in Nat
        BY <1>1
      <4>2. s > turn' => s > turn
        BY <1>1, <3>3, <4>1
      <4>3. s < turn' => ~(s > turn)
        <5>1. s > turn => turn' <= s
          BY <3>1, <3>2
        <5> QED
          BY <1>1, <3>3, <4>1, <5>1
      <4> QED
        BY <2>6, <4>2, <4>3
    <3>6. CursorsTypeOK'
      BY <1>1, <1>2, <1>6, <2>1, <2>5, <3>1, <3>3 DEF CursorsTypeOK
    <3>7. OthersAreAt'
      BY <2>4 DEF OthersAreAt
    <3>8. RoundsAreSafe'
      BY <1>2, <1>6, <2>1, <3>1, <3>3, <3>4, <3>5 DEF RoundsAreSafe
    <3> QED
      BY <1>2, <3>1, <3>6, <3>7, <3>8 DEF CursorsInv, FinishersAreAt, StreamsAreJudged
  <2>8. CASE behind = {}
    <3>1. /\ turn' = LeastOf(group) /\ rounds' = rounds - 1
          /\ huffmanPhase' = IF rounds = 1 THEN "count" ELSE "round"
      BY <2>1, <2>8 DEF NextTurn
    <3>2. LeastOf(group) \in group /\ \A y \in group : LeastOf(group) <= y
      BY <1>1, LeastOfIs
    <3>3. turn' \in group /\ turn' \in Streams /\ turn' \in Nat /\ rounds' \in Nat
      <4>1. rounds' \in Nat
        BY <1>1, <1>2, <3>1
      <4> QED
        BY <1>1, <3>1, <3>2, <4>1
    <3>4. \A s \in group : HasRounds(cursors'[s], rounds')
      BY <2>6, <2>8, <3>1
    <3>5. rounds' > 0 => IsInRound(cursors'[turn'], left'[turn'], 0, rounds')
      BY <2>4, <3>3, <3>4, RoundBegins
    <3>6. huffmanPhase' = "round" => rounds' > 0
      BY <1>1, <1>2, <3>1
    <3>7. CursorsTypeOK'
      BY <1>1, <1>2, <1>6, <2>1, <2>5, <3>1, <3>3 DEF CursorsTypeOK
    <3>8. OthersAreAt'
      BY <2>4 DEF OthersAreAt
    <3>9. ASSUME NEW s \in group PROVE ~(s < turn')
      BY <1>1, <3>1, <3>2, <3>3
    <3>10. RoundsAreSafe'
      BY <1>6, <2>1, <3>3, <3>4, <3>5, <3>6, <3>9 DEF RoundsAreSafe
    <3> QED
      BY <2>1, <3>1, <3>7, <3>8, <3>10 DEF CursorsInv, FinishersAreAt, StreamsAreJudged
  <2> QED
    BY <2>7, <2>8
<1> QED
  BY <1>7, <1>8

\* A refill moves the word and loses nothing; it stops short of a whole byte
\* used up only at the front of the stream.
LEMMA RefillIs ==
  ASSUME NEW r \in ContainerReaders, ~Overflows(r)
  PROVE  /\ Refill(r) \in ContainerReaders /\ ~Overflows(Refill(r))
         /\ BitsAhead(Refill(r).position, Refill(r).consumed) = BitsAhead(r.position, r.consumed)
         /\ Refill(r).position > 0 => Refill(r).consumed < ByteBits
<1>1. /\ ByteBits \in Nat /\ ByteBits > 0 /\ WordBytes \in Nat /\ WordBytes > 0
      /\ WordBits \in Nat /\ WordBits = ByteBits * WordBytes
      /\ r.position \in Nat /\ r.consumed \in Nat /\ r.consumed <= WordBits
  BY CursorSizes DEF ContainerReaders, Overflows
<1>2. PICK x \in Nat : x = r.consumed
  BY <1>1
<1>3. PICK q \in Nat, rest \in Nat : /\ q = x \div ByteBits
                                     /\ rest < ByteBits /\ x = ByteBits * q + rest
  BY <1>1, Divided
<1>4. q = r.consumed \div ByteBits
  BY <1>2, <1>3, Zenon
<1>5. rest < ByteBits /\ r.consumed = ByteBits * q + rest
  BY <1>2, <1>3
<1>6. q <= WordBytes
  <2> SUFFICES ASSUME ~(q <= WordBytes) PROVE FALSE
    OBVIOUS
  <2>1. WordBytes + 1 <= q
    BY <1>1
  <2>2. ByteBits * (WordBytes + 1) <= ByteBits * q /\ ByteBits * q \in Nat
    BY <1>1, <2>1, Monotone
  <2>3. ByteBits * (WordBytes + 1) = WordBits + ByteBits
    BY <1>1
  <2> QED
    BY <1>1, <1>5, <2>2, <2>3
<1>7. PICK n \in Nat : n = IF r.position >= WordBytes THEN q ELSE Least(q, r.position)
  BY <1>1 DEF Least
<1>8. Refill(r) = [position |-> r.position - n, consumed |-> r.consumed - ByteBits * n]
  BY <1>4, <1>7, Zenon DEF Refill
<1>9. n <= q /\ n <= r.position /\ (n < q => n = r.position)
  BY <1>1, <1>6, <1>7 DEF Least
<1>10. /\ ByteBits * n \in Nat /\ ByteBits * n <= ByteBits * q
       /\ ByteBits * (r.position - n) = ByteBits * r.position - ByteBits * n
       /\ ByteBits * q \in Nat /\ ByteBits * r.position \in Nat
  BY <1>1, <1>9, Monotone
<1>11. PICK p \in Nat : p = r.position - n
  BY <1>1, <1>9
<1>12. PICK c \in Nat : c = r.consumed - ByteBits * n
  BY <1>1, <1>5, <1>10
<1>13. Refill(r) = [position |-> p, consumed |-> c]
  BY <1>8, <1>11, <1>12
<1>14. c <= WordBits
  BY <1>1, <1>10, <1>12
<1>15. BitsAhead(p, c) = BitsAhead(r.position, r.consumed)
  BY <1>1, <1>10, <1>11, <1>12 DEF BitsAhead
<1>16. p > 0 => c < ByteBits
  <2> SUFFICES ASSUME p > 0 PROVE c < ByteBits
    OBVIOUS
  <2>1. n = q
    BY <1>1, <1>9, <1>11
  <2> QED
    BY <1>1, <1>5, <1>10, <1>12, <2>1
<1> QED
  BY <1>1, <1>13, <1>14, <1>15, <1>16 DEF ContainerReaders, Overflows

\* A symbol of the rest, behind a refill: bits that are not there are found out.
LEMMA SymbolIsFinished ==
  ASSUME NEW r \in ContainerReaders, NEW left1 \in Int, ReaderIsAt(r, left1),
         NEW bits \in CodeLengths
  PROVE  /\ SkipFast(Refill(r), bits) \in ContainerReaders /\ Take(left1, bits) \in Int
         /\ ReaderIsAt(SkipFast(Refill(r), bits), Take(left1, bits))
<1>1. /\ ByteBits \in Nat /\ ByteBits > 0 /\ WordBits \in Nat /\ MaxCodeBits \in Nat
      /\ bits \in Nat /\ bits > 0 /\ bits <= MaxCodeBits
      /\ RoundSymbols * MaxCodeBits \in Nat /\ RoundSymbols * MaxCodeBits >= MaxCodeBits
      /\ ByteBits + RoundSymbols * MaxCodeBits < WordBits
  BY CursorSizes
<1>2. Take(left1, bits) \in Int
  BY <1>1 DEF Take, Overdrawn
<1>3. CASE Overflows(r)
  <2>1. r.position \in Nat /\ r.consumed \in Nat /\ r.consumed > WordBits /\ left1 = Overdrawn
    BY <1>3 DEF ContainerReaders, Overflows, ReaderIsAt
  <2>2. Take(left1, bits) = Overdrawn
    BY <1>1, <2>1 DEF Take, Overdrawn
  <2>3. Refill(r) = r
    BY <1>3 DEF Refill
  <2>4. SkipFast(r, bits) = [position |-> r.position, consumed |-> r.consumed + bits]
    BY DEF SkipFast, ContainerReaders
  <2> QED
    BY <1>1, <1>2, <2>1, <2>2, <2>3, <2>4 DEF ContainerReaders, Overflows, ReaderIsAt
<1>4. CASE ~Overflows(r)
  <2>1. PICK p \in Nat, c \in Nat : Refill(r) = [position |-> p, consumed |-> c]
    BY <1>4, RefillIs DEF ContainerReaders
  <2>2. /\ c <= WordBits /\ (p > 0 => c < ByteBits)
        /\ left1 = BitsAhead(p, c)
    BY <1>1, <1>4, <2>1, RefillIs DEF ReaderIsAt, Overflows
  <2>3. SkipFast(Refill(r), bits) = [position |-> p, consumed |-> c + bits]
    BY <2>1 DEF SkipFast
  <2>4. PICK ahead \in Nat : ahead = ByteBits * p /\ (p = 0 => ahead = 0)
    BY <1>1
  <2>5. left1 = ahead + WordBits - c
    BY <2>2, <2>4 DEF BitsAhead
  <2>6. CASE c + bits <= WordBits
    <3>1. Take(left1, bits) = left1 - bits
      <4>1. bits <= left1
        BY <1>1, <2>4, <2>5, <2>6
      <4> QED
        BY <4>1, Zenon DEF Take
    <3>2. left1 - bits = BitsAhead(p, c + bits)
      BY <1>1, <2>4, <2>5 DEF BitsAhead
    <3>3. ~Overflows(SkipFast(Refill(r), bits))
      BY <1>1, <2>3, <2>6 DEF Overflows
    <3> QED
      BY <1>1, <1>2, <2>3, <3>1, <3>2, <3>3 DEF ContainerReaders, ReaderIsAt
  <2>7. CASE ~(c + bits <= WordBits)
    <3>1. p = 0
      BY <1>1, <2>2, <2>7
    <3>2. Take(left1, bits) = Overdrawn
      BY <1>1, <2>2, <2>4, <2>5, <2>7, <3>1 DEF Take
    <3>3. Overflows(SkipFast(Refill(r), bits))
      BY <1>1, <2>3, <2>7 DEF Overflows
    <3> QED
      BY <1>1, <1>2, <2>3, <3>2, <3>3 DEF ContainerReaders, ReaderIsAt
  <2> QED
    BY <2>6, <2>7
<1> QED
  BY <1>3, <1>4

LEMMA FinishSymbolKeeps ==
  ASSUME CursorsInv, NEW bits \in CodeLengths, FinishSymbol(bits)
  PROVE  CursorsInv'
<1>1. /\ cursors \in [Streams -> CursorRecords] /\ left \in [Streams -> Int]
      /\ huffmanPhase = "finish" /\ Unfinished # {} /\ symbol = 0 /\ Streams \subseteq Nat
      /\ \A s \in Streams : ReaderIsAt(HandOver(cursors[s]), left[s])
  BY StreamNumbers DEF FinishSymbol, CursorsInv, CursorsTypeOK, FinishersAreAt
<1>2. PICK s \in Streams : s = LeastOf(Unfinished) /\ cursors[s].remaining > 0
  <2>1. Unfinished \subseteq Nat
    BY <1>1 DEF Unfinished
  <2>2. LeastOf(Unfinished) \in Unfinished
    BY <1>1, <2>1, LeastOfIs
  <2> QED
    BY <2>2 DEF Unfinished
<1> DEFINE c == cursors[s]
           reader == SkipFast(Refill(HandOver(c)), bits)
           d == [c EXCEPT !.reader = reader, !.moved = FALSE, !.remaining = @ - 1]
<1>3. /\ cursors' = [cursors EXCEPT ![s] = d]
      /\ left' = [left EXCEPT ![s] = Take(left[s], bits)]
      /\ group' = group /\ rounds' = rounds /\ turn' = turn /\ symbol' = symbol
      /\ huffmanPhase' = huffmanPhase
  BY <1>2 DEF FinishSymbol
<1>4. c \in CursorRecords /\ c.remaining \in Nat /\ c.remaining > 0
  BY <1>1, <1>2 DEF CursorRecords
<1>5. HandOver(c) \in ContainerReaders
  BY <1>4 DEF HandOver, CursorRecords, ContainerReaders
<1>6. /\ reader \in ContainerReaders /\ Take(left[s], bits) \in Int
      /\ ReaderIsAt(reader, Take(left[s], bits))
  BY <1>1, <1>5, SymbolIsFinished
<1> HIDE DEF reader
<1>7. d \in CursorRecords /\ d.moved = FALSE /\ d.reader = reader
  <2>1. c.remaining - 1 \in Nat
    BY <1>4
  <2>2. PICK n \in Nat : n = c.remaining - 1
    BY <2>1
  <2>3. d = [c EXCEPT !.reader = reader, !.moved = FALSE, !.remaining = n]
    BY <2>2
  <2> HIDE DEF c, d
  <2> QED
    BY <1>4, <1>6, <2>3 DEF CursorRecords
<1>8. HandOver(d) = reader
  BY <1>7 DEF HandOver
<1> HIDE DEF d
<1>9. FinishersAreAt'
  <2>1. ASSUME NEW t \in Streams PROVE ReaderIsAt(HandOver(cursors'[t]), left'[t])
    <3>1. CASE t = s
      BY <1>1, <1>3, <1>6, <1>8, <3>1
    <3>2. CASE t # s
      BY <1>1, <1>3, <3>2
    <3> QED
      BY <3>1, <3>2
  <2> QED
    BY <2>1 DEF FinishersAreAt, HandOver
<1>10. CursorsTypeOK'
  BY <1>1, <1>3, <1>6, <1>7 DEF CursorsInv, CursorsTypeOK
<1> QED
  BY <1>1, <1>3, <1>9, <1>10 DEF CursorsInv, OthersAreAt, RoundsAreSafe, StreamsAreJudged

\* At its end a stream is used up or its cursor knows that it is not.
LEMMA FinishedIsUsedUp ==
  ASSUME NEW r \in ContainerReaders, NEW bits \in Int, ReaderIsAt(r, bits)
  PROVE  FastIsFinished(r) <=> bits = 0
<1>1. /\ ByteBits \in Nat /\ ByteBits > 0 /\ WordBits \in Nat
      /\ r.position \in Nat /\ r.consumed \in Nat
  BY CursorSizes DEF ContainerReaders
<1>2. PICK ahead \in Nat : ahead = ByteBits * r.position /\ (ahead = 0 <=> r.position = 0)
  BY <1>1
<1>3. CASE Overflows(r)
  BY <1>1, <1>3 DEF Overflows, ReaderIsAt, Overdrawn, FastIsFinished
<1>4. CASE ~Overflows(r)
  <2>1. bits = ahead + WordBits - r.consumed /\ r.consumed <= WordBits
    BY <1>1, <1>2, <1>4 DEF Overflows, ReaderIsAt, BitsAhead
  <2>2. bits = 0 <=> (ahead = 0 /\ r.consumed = WordBits)
    BY <1>1, <2>1
  <2> QED
    BY <1>2, <2>2, Zenon DEF FastIsFinished
<1> QED
  BY <1>3, <1>4

LEMMA FinishStreamsKeeps == ASSUME CursorsInv, FinishStreams PROVE CursorsInv'
<1>1. /\ cursors' = cursors /\ left' = left /\ symbol' = symbol /\ huffmanPhase = "finish"
      /\ group' = group /\ rounds' = rounds /\ turn' = turn /\ symbol = 0
      /\ huffmanPhase' = IF \A s \in Streams : FastIsFinished(HandOver(cursors[s]))
                         THEN "accepted" ELSE "refused"
  BY DEF FinishStreams, CursorsInv
<1>2. ASSUME NEW s \in Streams PROVE FastIsFinished(HandOver(cursors[s])) <=> left[s] = 0
  <2>1. cursors[s] \in CursorRecords /\ left[s] \in Int
    BY DEF CursorsInv, CursorsTypeOK
  <2>2. HandOver(cursors[s]) \in ContainerReaders
    BY <2>1 DEF HandOver, CursorRecords, ContainerReaders
  <2> QED
    BY <1>1, <2>1, <2>2, FinishedIsUsedUp DEF CursorsInv, FinishersAreAt
<1>3. StreamsAreJudged'
  BY <1>1, <1>2 DEF StreamsAreJudged
<1>4. CursorsTypeOK'
  BY <1>1 DEF CursorsInv, CursorsTypeOK
<1> QED
  BY <1>1, <1>3, <1>4 DEF CursorsInv, OthersAreAt, RoundsAreSafe, FinishersAreAt

LEMMA CursorsStep == CursorsInv /\ [CursorsNext]_cursorVars => CursorsInv'
<1> SUFFICES ASSUME CursorsInv, [CursorsNext]_cursorVars PROVE CursorsInv'
  OBVIOUS
<1>1. CASE UNCHANGED cursorVars
  BY <1>1 DEF CursorsInv, CursorsTypeOK, OthersAreAt, RoundsAreSafe, FinishersAreAt,
    StreamsAreJudged, cursorVars, HandOver
<1>2. ASSUME NEW lengths \in [Streams -> HuffmanStreams],
             NEW markers \in [Streams -> {1, ByteBits}], NEW counts \in [Streams -> SymbolCounts],
             OpenStreams(lengths, markers, counts)
      PROVE  CursorsInv'
  BY <1>2, OpenStreamsKeeps
<1>3. CASE CountRounds
  BY <1>3, CountRoundsKeeps
<1>4. ASSUME NEW bits \in CodeLengths, DecodeSymbol(bits) PROVE CursorsInv'
  BY <1>4, DecodeSymbolKeeps
<1>5. ASSUME NEW bits \in CodeLengths, FinishSymbol(bits) PROVE CursorsInv'
  BY <1>5, FinishSymbolKeeps
<1>6. CASE FinishStreams
  BY <1>6, FinishStreamsKeeps
<1> QED
  BY <1>1, <1>2, <1>3, <1>4, <1>5, <1>6 DEF CursorsNext, CursorsOver

\* For every number of streams, width of a word, size of a round and lengths of
\* codes that leave a round room in a word: each cursor of a group has the bits
\* and the symbols of the rounds still to come.
THEOREM AlwaysCursorsInv == CursorsSpec => []CursorsInv
<1>1. CursorsInit => CursorsInv
  BY CursorsInitially
<1> QED
  BY <1>1, CursorsStep, PTL DEF CursorsSpec

\* So no word starts in front of its stream, no code is taken from below the
\* sentinel, no bit is decoded twice or passed over, and streams are accepted
\* exactly when their symbols take all of their bits.
THEOREM CursorsAlwaysStayInside == CursorsSpec => []CursorsStayInside
<1>1. CursorsInv => CursorsStayInside
  <2> SUFFICES ASSUME CursorsInv PROVE CursorsStayInside
    OBVIOUS
  <2>1. ASSUME NEW s \in Streams
        PROVE  cursors[s].window \in Nat /\ cursors[s].consumed \in Nat
    BY DEF CursorsInv, CursorsTypeOK, CursorRecords
  <2>2. ASSUME huffmanPhase = "round"
        PROVE  cursors[turn].consumed + MaxCodeBits < WordBits
    <3>1. /\ turn \in Streams /\ symbol \in 0..RoundSymbols - 1
          /\ cursors[turn].consumed + SymbolBits(symbol) < WordBits
      BY <2>2 DEF CursorsInv, CursorsTypeOK, RoundsAreSafe, IsInRound
    <3>2. SymbolBits(symbol) = SymbolBits(symbol + 1) + MaxCodeBits /\ SymbolBits(symbol + 1) \in Nat
      BY <3>1, BitsAreUsedUp
    <3> QED
      BY <2>1, <3>1, <3>2, CursorSizes
  <2>3. ASSUME huffmanPhase \in {"count", "round"}, NEW s \in Streams
        PROVE  \/ left[s] = BitsAhead(cursors[s].window, cursors[s].consumed)
               \/ left[s] = 0 /\ ~cursors[s].moved
    <3>1. CASE huffmanPhase = "round" /\ s = turn
      BY <3>1 DEF CursorsInv, RoundsAreSafe, IsInRound
    <3>2. CASE ~(huffmanPhase = "round" /\ s = turn)
      BY <2>3, <3>2 DEF CursorsInv, OthersAreAt, CursorIsAt
    <3> QED
      BY <3>1, <3>2
  <2>4. \A s \in Streams : cursors[s].window >= 0
    BY <2>1
  <2> QED
    BY <2>2, <2>3, <2>4 DEF CursorsStayInside, BitsAhead, CursorsInv, StreamsAreJudged
<1> QED
  BY <1>1, AlwaysCursorsInv, PTL
-----------------------------------------------------------------------------
(***************************************************************************)
(* Two readers of one stream.                                              *)
(***************************************************************************)

\* The readers before each of n reads and behind them.
AreFastReads(f, r, counts, n) ==
  f = [i \in 0..n |-> IF i = 0 THEN r ELSE SkipFast(f[i - 1], counts[i])]

LEMMA FastReadsExist ==
  ASSUME NEW r, NEW counts, NEW n \in Nat
  PROVE  \E f : AreFastReads(f, r, counts, n)
<1> SUFFICES ASSUME ~\E f : AreFastReads(f, r, counts, n) PROVE FALSE
  OBVIOUS
<1> DEFINE D == {m \in Nat : ~\E f : AreFastReads(f, r, counts, m)}
<1>1. D \subseteq Nat /\ D # {}
  OBVIOUS
<1>2. PICK d \in D : \A e \in D : d <= e
  BY <1>1, LeastNatural
<1>3. d \in Nat /\ ~\E f : AreFastReads(f, r, counts, d)
  OBVIOUS
<1>4. CASE d = 0
  <2>1. PICK f : f = [i \in 0..0 |-> r]
    OBVIOUS
  <2>2. [i \in 0..0 |-> IF i = 0 THEN r ELSE SkipFast(f[i - 1], counts[i])] = [i \in 0..0 |-> r]
    OBVIOUS
  <2>3. AreFastReads(f, r, counts, 0)
    BY <2>1, <2>2 DEF AreFastReads
  <2> QED
    BY <1>3, <1>4, <2>3
<1>5. CASE d # 0
  <2>1. d - 1 \in Nat /\ d - 1 \notin D
    BY <1>2, <1>3, <1>5
  <2>2. PICK f : AreFastReads(f, r, counts, d - 1)
    BY <2>1
  <2>3. PICK h : h = [i \in 0..d |-> IF i = d THEN SkipFast(f[d - 1], counts[d]) ELSE f[i]]
    OBVIOUS
  <2>4. ASSUME NEW i \in 0..d
        PROVE  h[i] = IF i = 0 THEN r ELSE SkipFast(h[i - 1], counts[i])
    <3>1. CASE i = d
      <4>1. d - 1 \in 0..d /\ d - 1 # d
        BY <1>3, <1>5
      <4>2. h[d - 1] = f[d - 1]
        BY <2>3, <4>1
      <4>3. h[i] = SkipFast(f[d - 1], counts[d])
        BY <2>3, <3>1
      <4> QED
        BY <1>5, <3>1, <4>2, <4>3
    <3>2. CASE i # d
      <4>1. i \in 0..d - 1
        BY <1>3, <3>2
      <4>2. f[i] = IF i = 0 THEN r ELSE SkipFast(f[i - 1], counts[i])
        BY <2>2, <4>1 DEF AreFastReads
      <4>3. h[i] = f[i]
        BY <2>3, <3>2
      <4>4. i # 0 => i - 1 \in 0..d /\ i - 1 # d
        BY <1>3, <4>1
      <4>5. i # 0 => h[i - 1] = f[i - 1]
        BY <2>3, <4>4
      <4> QED
        BY <4>2, <4>3, <4>5
    <3> QED
      BY <3>1, <3>2
  <2>5. h = [i \in 0..d |-> h[i]]
    BY <2>3
  <2>6. h = [i \in 0..d |-> IF i = 0 THEN r ELSE SkipFast(h[i - 1], counts[i])]
    BY <2>4, <2>5
  <2>7. AreFastReads(h, r, counts, d)
    BY <2>6 DEF AreFastReads
  <2> QED
    BY <1>3, <2>7
<1> QED
  BY <1>4, <1>5

LEMMA FastReadsAre ==
  ASSUME NEW r, NEW counts, Len(counts) \in Nat
  PROVE  \E f : AreFastReads(f, r, counts, Len(counts)) /\ FastReads(r, counts) = f[Len(counts)]
<1>1. PICK f : f = CHOOSE g : AreFastReads(g, r, counts, Len(counts))
  OBVIOUS
<1>2. AreFastReads(f, r, counts, Len(counts))
  BY <1>1, FastReadsExist
<1>3. FastReads(r, counts) = f[Len(counts)]
  BY <1>1 DEF FastReads, AreFastReads
<1> QED
  BY <1>2, <1>3

\* Reads of a list are those of what is before its last, and that one.
LEMMA FastReadsInTurn ==
  ASSUME NEW r, NEW counts \in Seq(Nat), NEW count \in Nat
  PROVE  /\ FastReads(r, <<>>) = r
         /\ FastReads(r, Append(counts, count)) = SkipFast(FastReads(r, counts), count)
<1> DEFINE n == Len(counts)
           more == Append(counts, count)
<1>1. n \in Nat /\ Len(more) = n + 1 /\ more[n + 1] = count /\ \A i \in 1..n : more[i] = counts[i]
  OBVIOUS
<1>2. PICK f : AreFastReads(f, r, counts, n) /\ FastReads(r, counts) = f[n]
  BY <1>1, FastReadsAre
<1>3. PICK g : AreFastReads(g, r, more, n + 1) /\ FastReads(r, more) = g[n + 1]
  <2> HIDE DEF n, more
  <2>1. Len(more) \in Nat
    BY <1>1
  <2> QED
    BY <1>1, <2>1, FastReadsAre
<1>4. PICK e : AreFastReads(e, r, <<>>, 0) /\ FastReads(r, <<>>) = e[0]
  BY FastReadsAre
<1>5. e[0] = r
  BY <1>4 DEF AreFastReads
<1> HIDE DEF n, more
<1>6. g[n] = f[n]
  <2> SUFFICES ASSUME g[n] # f[n] PROVE FALSE
    OBVIOUS
  <2> DEFINE D == {j \in Nat : j <= n /\ g[j] # f[j]}
  <2>1. D \subseteq Nat /\ D # {}
    BY <1>1
  <2>2. PICK d \in D : \A i \in D : d <= i
    BY <2>1, LeastNatural
  <2>3. d \in Nat /\ d <= n /\ g[d] # f[d] /\ d \in 0..n /\ d \in 0..n + 1
    BY <1>1
  <2>4. /\ f[d] = IF d = 0 THEN r ELSE SkipFast(f[d - 1], counts[d])
        /\ g[d] = IF d = 0 THEN r ELSE SkipFast(g[d - 1], more[d])
    BY <1>2, <1>3, <2>3 DEF AreFastReads
  <2>5. d # 0 => d - 1 \in Nat /\ d - 1 \notin D /\ d - 1 <= n /\ d \in 1..n
    BY <1>1, <2>2, <2>3
  <2>6. d # 0 => g[d - 1] = f[d - 1] /\ more[d] = counts[d]
    BY <1>1, <2>5
  <2> QED
    BY <2>3, <2>4, <2>6
<1>7. g[n + 1] = SkipFast(g[n], count)
  <2>1. n + 1 \in 0..n + 1 /\ n + 1 # 0 /\ (n + 1) - 1 = n
    BY <1>1
  <2>2. g[n + 1] = SkipFast(g[(n + 1) - 1], more[n + 1])
    BY <1>3, <2>1 DEF AreFastReads
  <2> QED
    BY <1>1, <2>1, <2>2
<1> QED
  BY <1>2, <1>3, <1>4, <1>5, <1>6, <1>7 DEF more

\* The readers before each of n reads and behind them.
AreBackwardReads(f, r, counts, n) ==
  f = [i \in 0..n |-> IF i = 0 THEN r ELSE SkipBackward(f[i - 1], counts[i])]

LEMMA BackwardReadsExist ==
  ASSUME NEW r, NEW counts, NEW n \in Nat
  PROVE  \E f : AreBackwardReads(f, r, counts, n)
<1> SUFFICES ASSUME ~\E f : AreBackwardReads(f, r, counts, n) PROVE FALSE
  OBVIOUS
<1> DEFINE D == {m \in Nat : ~\E f : AreBackwardReads(f, r, counts, m)}
<1>1. D \subseteq Nat /\ D # {}
  OBVIOUS
<1>2. PICK d \in D : \A e \in D : d <= e
  BY <1>1, LeastNatural
<1>3. d \in Nat /\ ~\E f : AreBackwardReads(f, r, counts, d)
  OBVIOUS
<1>4. CASE d = 0
  <2>1. PICK f : f = [i \in 0..0 |-> r]
    OBVIOUS
  <2>2. [i \in 0..0 |-> IF i = 0 THEN r ELSE SkipBackward(f[i - 1], counts[i])] = [i \in 0..0 |-> r]
    OBVIOUS
  <2>3. AreBackwardReads(f, r, counts, 0)
    BY <2>1, <2>2 DEF AreBackwardReads
  <2> QED
    BY <1>3, <1>4, <2>3
<1>5. CASE d # 0
  <2>1. d - 1 \in Nat /\ d - 1 \notin D
    BY <1>2, <1>3, <1>5
  <2>2. PICK f : AreBackwardReads(f, r, counts, d - 1)
    BY <2>1
  <2>3. PICK h : h = [i \in 0..d |-> IF i = d THEN SkipBackward(f[d - 1], counts[d]) ELSE f[i]]
    OBVIOUS
  <2>4. ASSUME NEW i \in 0..d
        PROVE  h[i] = IF i = 0 THEN r ELSE SkipBackward(h[i - 1], counts[i])
    <3>1. CASE i = d
      <4>1. d - 1 \in 0..d /\ d - 1 # d
        BY <1>3, <1>5
      <4>2. h[d - 1] = f[d - 1]
        BY <2>3, <4>1
      <4>3. h[i] = SkipBackward(f[d - 1], counts[d])
        BY <2>3, <3>1
      <4> QED
        BY <1>5, <3>1, <4>2, <4>3
    <3>2. CASE i # d
      <4>1. i \in 0..d - 1
        BY <1>3, <3>2
      <4>2. f[i] = IF i = 0 THEN r ELSE SkipBackward(f[i - 1], counts[i])
        BY <2>2, <4>1 DEF AreBackwardReads
      <4>3. h[i] = f[i]
        BY <2>3, <3>2
      <4>4. i # 0 => i - 1 \in 0..d /\ i - 1 # d
        BY <1>3, <4>1
      <4>5. i # 0 => h[i - 1] = f[i - 1]
        BY <2>3, <4>4
      <4> QED
        BY <4>2, <4>3, <4>5
    <3> QED
      BY <3>1, <3>2
  <2>5. h = [i \in 0..d |-> h[i]]
    BY <2>3
  <2>6. h = [i \in 0..d |-> IF i = 0 THEN r ELSE SkipBackward(h[i - 1], counts[i])]
    BY <2>4, <2>5
  <2>7. AreBackwardReads(h, r, counts, d)
    BY <2>6 DEF AreBackwardReads
  <2> QED
    BY <1>3, <2>7
<1> QED
  BY <1>4, <1>5

LEMMA BackwardReadsAre ==
  ASSUME NEW r, NEW counts, Len(counts) \in Nat
  PROVE  \E f : AreBackwardReads(f, r, counts, Len(counts)) /\ BackwardReads(r, counts) = f[Len(counts)]
<1>1. PICK f : f = CHOOSE g : AreBackwardReads(g, r, counts, Len(counts))
  OBVIOUS
<1>2. AreBackwardReads(f, r, counts, Len(counts))
  BY <1>1, BackwardReadsExist
<1>3. BackwardReads(r, counts) = f[Len(counts)]
  BY <1>1 DEF BackwardReads, AreBackwardReads
<1> QED
  BY <1>2, <1>3

\* Reads of a list are those of what is before its last, and that one.
LEMMA BackwardReadsInTurn ==
  ASSUME NEW r, NEW counts \in Seq(Nat), NEW count \in Nat
  PROVE  /\ BackwardReads(r, <<>>) = r
         /\ BackwardReads(r, Append(counts, count)) = SkipBackward(BackwardReads(r, counts), count)
<1> DEFINE n == Len(counts)
           more == Append(counts, count)
<1>1. n \in Nat /\ Len(more) = n + 1 /\ more[n + 1] = count /\ \A i \in 1..n : more[i] = counts[i]
  OBVIOUS
<1>2. PICK f : AreBackwardReads(f, r, counts, n) /\ BackwardReads(r, counts) = f[n]
  BY <1>1, BackwardReadsAre
<1>3. PICK g : AreBackwardReads(g, r, more, n + 1) /\ BackwardReads(r, more) = g[n + 1]
  <2> HIDE DEF n, more
  <2>1. Len(more) \in Nat
    BY <1>1
  <2> QED
    BY <1>1, <2>1, BackwardReadsAre
<1>4. PICK e : AreBackwardReads(e, r, <<>>, 0) /\ BackwardReads(r, <<>>) = e[0]
  BY BackwardReadsAre
<1>5. e[0] = r
  BY <1>4 DEF AreBackwardReads
<1> HIDE DEF n, more
<1>6. g[n] = f[n]
  <2> SUFFICES ASSUME g[n] # f[n] PROVE FALSE
    OBVIOUS
  <2> DEFINE D == {j \in Nat : j <= n /\ g[j] # f[j]}
  <2>1. D \subseteq Nat /\ D # {}
    BY <1>1
  <2>2. PICK d \in D : \A i \in D : d <= i
    BY <2>1, LeastNatural
  <2>3. d \in Nat /\ d <= n /\ g[d] # f[d] /\ d \in 0..n /\ d \in 0..n + 1
    BY <1>1
  <2>4. /\ f[d] = IF d = 0 THEN r ELSE SkipBackward(f[d - 1], counts[d])
        /\ g[d] = IF d = 0 THEN r ELSE SkipBackward(g[d - 1], more[d])
    BY <1>2, <1>3, <2>3 DEF AreBackwardReads
  <2>5. d # 0 => d - 1 \in Nat /\ d - 1 \notin D /\ d - 1 <= n /\ d \in 1..n
    BY <1>1, <2>2, <2>3
  <2>6. d # 0 => g[d - 1] = f[d - 1] /\ more[d] = counts[d]
    BY <1>1, <2>5
  <2> QED
    BY <2>3, <2>4, <2>6
<1>7. g[n + 1] = SkipBackward(g[n], count)
  <2>1. n + 1 \in 0..n + 1 /\ n + 1 # 0 /\ (n + 1) - 1 = n
    BY <1>1
  <2>2. g[n + 1] = SkipBackward(g[(n + 1) - 1], more[n + 1])
    BY <1>3, <2>1 DEF AreBackwardReads
  <2> QED
    BY <1>1, <2>1, <2>2
<1> QED
  BY <1>2, <1>3, <1>4, <1>5, <1>6, <1>7 DEF more

BackwardReaders == [byte : Nat, held : Nat, overflowed : BOOLEAN]

\* Two readers have taken as many bits, and know alike whether there were as many.
ReadersAgree(r, b) ==
  /\ r \in ContainerReaders /\ b \in BackwardReaders /\ b.held <= WordBits
  /\ Overflows(r) <=> b.overflowed
  /\ Overflows(r) => r.position = 0
  /\ ~Overflows(r) => BitsAhead(r.position, r.consumed) = b.held + ByteBits * b.byte

LEMMA OpenedAgree ==
  ASSUME NEW length \in Nat, length >= WordBytes, NEW marker \in Markers
  PROVE  /\ ReadersAgree(OpenFast(length, marker), OpenBackward(length, marker))
         /\ OpenFast(length, marker).consumed <= ByteBits
         /\ ~OpenBackward(length, marker).overflowed
<1>1. /\ ByteBits \in Nat /\ ByteBits > 0 /\ WordBytes \in Nat /\ WordBytes > 0
      /\ WordBits \in Nat /\ WordBits = ByteBits * WordBytes /\ ByteBits < WordBits
      /\ marker \in Nat /\ marker > 0 /\ marker <= ByteBits
  BY CursorSizes DEF Markers
<1>2. PICK byte \in Nat : byte = length - WordBytes
  BY <1>1
<1>3. OpenFast(length, marker) = [position |-> byte, consumed |-> marker]
  BY <1>2 DEF OpenFast
<1>4. Least(length, WordBytes) = WordBytes
  BY <1>1 DEF Least
<1>5. ByteBits * byte = ByteBits * length - WordBits /\ ByteBits * byte \in Nat
  BY <1>1, <1>2, Monotone
<1>6. StreamBits(length, marker) - ByteBits * byte = WordBits - marker
  <2>1. ByteBits * length \in Nat
    BY <1>1
  <2> QED
    BY <1>1, <1>5, <2>1 DEF StreamBits
<1>7. OpenBackward(length, marker)
        = [byte |-> byte, held |-> WordBits - marker, overflowed |-> FALSE]
  BY <1>2, <1>4, <1>6, Zenon DEF OpenBackward
<1>8. PICK held \in Nat : held = WordBits - marker
  BY <1>1
<1>9. OpenBackward(length, marker) = [byte |-> byte, held |-> held, overflowed |-> FALSE]
  BY <1>7, <1>8
<1>10. ~(marker > WordBits) /\ held <= WordBits
  BY <1>1, <1>8
<1>11. BitsAhead(byte, marker) = held + ByteBits * byte
  BY <1>1, <1>5, <1>8 DEF BitsAhead
<1> QED
  BY <1>1, <1>3, <1>9, <1>10, <1>11 DEF ReadersAgree, ContainerReaders, BackwardReaders, Overflows

\* Loading moves bytes into the word, until it is full or the stream is at an end.
LEMMA LoadIs ==
  ASSUME NEW b \in BackwardReaders, b.held <= WordBits
  PROVE  LET p == LoadMoreBytes(b)
         IN  /\ p \in BackwardReaders /\ p.held <= WordBits /\ p.overflowed = b.overflowed
             /\ p.held + ByteBits * p.byte = b.held + ByteBits * b.byte
             /\ p.held > WordBits - ByteBits \/ p.byte = 0
<1>1. /\ ByteBits \in Nat /\ ByteBits > 0 /\ WordBits \in Nat
      /\ b.held \in Nat /\ b.byte \in Nat /\ b.overflowed \in BOOLEAN
  BY CursorSizes DEF BackwardReaders
<1>2. CASE b.held > WordBits - ByteBits
  <2>1. LoadMoreBytes(b) = b
    BY <1>2 DEF LoadMoreBytes
  <2> QED
    BY <1>2, <2>1
<1>3. CASE ~(b.held > WordBits - ByteBits)
  <2>1. PICK x \in Nat : x = WordBits - b.held
    BY <1>1
  <2>2. PICK q \in Nat, rest \in Nat : /\ q = x \div ByteBits
                                       /\ rest < ByteBits /\ x = ByteBits * q + rest
    BY <1>1, Divided
  <2>3. q = (WordBits - b.held) \div ByteBits
    BY <2>1, <2>2, Zenon
  <2>4. rest < ByteBits /\ WordBits - b.held = ByteBits * q + rest
    BY <2>1, <2>2
  <2>5. PICK n \in Nat : n = Least(b.byte, q)
    BY <1>1 DEF Least
  <2>6. LoadMoreBytes(b) = [b EXCEPT !.byte = @ - n, !.held = @ + ByteBits * n]
    BY <1>3, <2>3, <2>5, Zenon DEF LoadMoreBytes
  <2>7. n <= b.byte /\ n <= q /\ (n < q => n = b.byte)
    BY <1>1, <2>5 DEF Least
  <2>8. /\ ByteBits * n \in Nat /\ ByteBits * n <= ByteBits * q /\ ByteBits * q \in Nat
        /\ ByteBits * (b.byte - n) = ByteBits * b.byte - ByteBits * n
        /\ ByteBits * b.byte \in Nat
    BY <1>1, <2>7, Monotone
  <2>9. PICK byte \in Nat : byte = b.byte - n
    BY <1>1, <2>7
  <2>10. PICK held \in Nat : held = b.held + ByteBits * n
    BY <1>1, <2>8
  <2>11. LoadMoreBytes(b) = [byte |-> byte, held |-> held, overflowed |-> b.overflowed]
    BY <2>6, <2>9, <2>10 DEF BackwardReaders
  <2>12. held <= WordBits
    BY <1>1, <2>4, <2>8, <2>10
  <2>13. held + ByteBits * byte = b.held + ByteBits * b.byte
    BY <1>1, <2>8, <2>9, <2>10
  <2>14. held > WordBits - ByteBits \/ byte = 0
    <3>1. CASE n < q
      BY <1>1, <2>7, <2>9, <3>1
    <3>2. CASE n = q
      BY <1>1, <2>4, <2>8, <2>10, <3>2
    <3> QED
      BY <2>7, <3>1, <3>2
  <2> QED
    BY <1>1, <2>11, <2>12, <2>13, <2>14 DEF BackwardReaders
<1> QED
  BY <1>2, <1>3

\* One read by both, of bits that the word of the one holds or the stream lacks.
LEMMA ReadAgrees ==
  ASSUME NEW r, NEW b, ReadersAgree(r, b), NEW count \in Nat,
         count + ByteBits <= WordBits + 1, FastSees(r, count)
  PROVE  ReadersAgree(SkipFast(r, count), SkipBackward(b, count))
<1>1. /\ ByteBits \in Nat /\ ByteBits > 0 /\ WordBits \in Nat
  BY CursorSizes
<1>2. PICK p \in Nat, c \in Nat : r = [position |-> p, consumed |-> c]
  BY DEF ReadersAgree, ContainerReaders
<1>3. SkipFast(r, count) = [position |-> p, consumed |-> c + count]
  BY <1>2 DEF SkipFast
<1>4. PICK total \in Nat : total = b.held + ByteBits * b.byte
  BY <1>1 DEF ReadersAgree, BackwardReaders
<1>5. PICK d \in BackwardReaders :
        /\ d = Prepared(b, count) /\ d.held <= WordBits /\ d.overflowed = b.overflowed
        /\ d.held + ByteBits * d.byte = total
        /\ count <= d.held \/ d.held > WordBits - ByteBits \/ d.byte = 0
  <2>1. b \in BackwardReaders /\ b.held <= WordBits /\ b.held \in Nat
    BY DEF ReadersAgree, BackwardReaders
  <2>2. CASE count > b.held
    <3>1. Prepared(b, count) = LoadMoreBytes(b)
      BY <2>2 DEF Prepared
    <3> QED
      BY <1>4, <2>1, <3>1, LoadIs
  <2>3. CASE ~(count > b.held)
    <3>1. Prepared(b, count) = b /\ count <= b.held
      BY <2>1, <2>3 DEF Prepared
    <3> QED
      BY <1>4, <2>1, <3>1
  <2> QED
    BY <2>2, <2>3
<1>6. SkipBackward(b, count) = IF count <= d.held THEN [d EXCEPT !.held = @ - count]
                                                  ELSE [d EXCEPT !.held = 0, !.overflowed = TRUE]
  BY <1>5, Zenon DEF SkipBackward
<1>7. d.held \in Nat /\ d.byte \in Nat /\ d.overflowed \in BOOLEAN
  BY DEF BackwardReaders
<1>8. PICK more \in Nat : more = ByteBits * d.byte /\ (d.byte = 0 => more = 0)
  BY <1>1, <1>7
<1>9. PICK ahead \in Nat : ahead = ByteBits * p /\ (p = 0 => ahead = 0)
  BY <1>1
<1>10. CASE b.overflowed
  <2>1. p = 0 /\ c > WordBits
    BY <1>2, <1>10 DEF ReadersAgree, Overflows
  <2>2. /\ SkipBackward(b, count) \in BackwardReaders /\ SkipBackward(b, count).overflowed
        /\ SkipBackward(b, count).held <= WordBits
    <3>1. d.overflowed = TRUE
      BY <1>5, <1>7, <1>10
    <3>2. CASE count <= d.held
      <4>1. PICK n \in Nat : n = d.held - count /\ n <= WordBits
        BY <1>1, <1>5, <1>7, <3>2
      <4>2. SkipBackward(b, count) = [byte |-> d.byte, held |-> n, overflowed |-> TRUE]
        BY <1>6, <3>1, <3>2, <4>1 DEF BackwardReaders
      <4> QED
        BY <1>7, <4>1, <4>2 DEF BackwardReaders
    <3>3. CASE ~(count <= d.held)
      <4>1. SkipBackward(b, count) = [byte |-> d.byte, held |-> 0, overflowed |-> TRUE]
        BY <1>6, <3>3 DEF BackwardReaders
      <4> QED
        BY <1>1, <1>7, <4>1 DEF BackwardReaders
    <3> QED
      BY <3>2, <3>3
  <2>3. c + count > WordBits /\ c + count \in Nat
    BY <1>1, <2>1
  <2> QED
    BY <1>3, <2>1, <2>2, <2>3 DEF ReadersAgree, ContainerReaders, Overflows
<1>11. CASE ~b.overflowed
  <2>1. c <= WordBits /\ total = ahead + WordBits - c
    BY <1>1, <1>2, <1>4, <1>9, <1>11 DEF ReadersAgree, Overflows, BitsAhead
  <2>2. total = d.held + more
    BY <1>5, <1>8
  <2>3. c + count <= WordBits \/ p = 0
    BY <1>2 DEF FastSees
  <2>4. d.overflowed = FALSE
    BY <1>5, <1>7, <1>11
  <2>5. CASE count <= total
    <3>1. count <= d.held
      BY <1>1, <1>5, <1>7, <1>8, <2>2, <2>5
    <3>2. c + count <= WordBits
      BY <1>1, <1>9, <2>1, <2>3, <2>5
    <3>3. PICK n \in Nat : n = d.held - count /\ n <= WordBits
      BY <1>1, <1>5, <1>7, <3>1
    <3>4. SkipBackward(b, count) = [byte |-> d.byte, held |-> n, overflowed |-> FALSE]
      BY <1>6, <2>4, <3>1, <3>3 DEF BackwardReaders
    <3>5. ahead + WordBits - (c + count) = n + more
      BY <1>1, <1>7, <2>1, <2>2, <3>3
    <3>6. BitsAhead(p, c + count) = n + ByteBits * d.byte
      BY <1>8, <1>9, <3>5 DEF BitsAhead
    <3>7. ~(c + count > WordBits)
      BY <1>1, <3>2
    <3> QED
      BY <1>3, <1>7, <3>3, <3>4, <3>6, <3>7
        DEF ReadersAgree, ContainerReaders, BackwardReaders, Overflows
  <2>6. CASE ~(count <= total)
    <3>1. ~(count <= d.held)
      BY <1>1, <1>7, <2>2, <2>6
    <3>2. SkipBackward(b, count) = [byte |-> d.byte, held |-> 0, overflowed |-> TRUE]
      BY <1>6, <3>1 DEF BackwardReaders
    <3>3. p = 0 /\ c + count > WordBits
      BY <1>1, <1>9, <2>1, <2>3, <2>6
    <3> QED
      BY <1>1, <1>3, <1>7, <3>2, <3>3
        DEF ReadersAgree, ContainerReaders, BackwardReaders, Overflows
  <2> QED
    BY <2>5, <2>6
<1> QED
  BY <1>10, <1>11

\* A refill changes nothing but where the word lies, and makes room in it.
LEMMA RefillAgrees ==
  ASSUME NEW r, NEW b, ReadersAgree(r, b), ~Overflows(r),
         NEW n \in Nat, n + ByteBits <= WordBits + 1
  PROVE  ReadersAgree(Refill(r), b) /\ FastSees(Refill(r), n)
<1>1. r \in ContainerReaders /\ ByteBits \in Nat /\ WordBits \in Nat
  BY CursorSizes DEF ReadersAgree
<1>2. PICK f : f = Refill(r)
  OBVIOUS
<1>3. /\ f \in ContainerReaders /\ ~Overflows(f)
      /\ BitsAhead(f.position, f.consumed) = BitsAhead(r.position, r.consumed)
      /\ f.position > 0 => f.consumed < ByteBits
  BY <1>1, <1>2, RefillIs
<1>4. ReadersAgree(f, b)
  BY <1>3, Zenon DEF ReadersAgree
<1>5. f.position \in Nat /\ f.consumed \in Nat
  BY <1>3 DEF ContainerReaders
<1>6. FastSees(f, n)
  BY <1>1, <1>3, <1>5 DEF FastSees
<1> QED
  BY <1>2, <1>4, <1>6

\* Where a word holds n bits, it holds the first of them, and then the others.
LEMMA SeenInTurn ==
  ASSUME NEW r \in ContainerReaders, NEW count \in Nat, NEW n \in Nat, FastSees(r, count + n)
  PROVE  FastSees(r, count) /\ FastSees(SkipFast(r, count), n)
<1>1. PICK p \in Nat, c \in Nat : r = [position |-> p, consumed |-> c]
  BY DEF ContainerReaders
<1>2. SkipFast(r, count) = [position |-> p, consumed |-> c + count]
  BY <1>1 DEF SkipFast
<1>3. c + (count + n) <= WordBits \/ p = 0
  BY <1>1 DEF FastSees
<1>4. WordBits \in Nat
  BY CursorSizes
<1>5. (c + count <= WordBits /\ (c + count) + n <= WordBits) \/ p = 0
  BY <1>3, <1>4
<1> QED
  BY <1>1, <1>2, <1>5 DEF FastSees

\* Both readers have taken these bits, none of them blindly, and the word of the
\* fast one has n more.
Together(r, b, counts, n) ==
  /\ ReadersAgree(FastReads(r, counts), BackwardReads(b, counts))
  /\ ~ReadsBlindly(r, counts)
  /\ FastSees(FastReads(r, counts), n)

LEMMA TogetherAtFirst ==
  ASSUME NEW r, NEW b, ReadersAgree(r, b), NEW n \in Nat, FastSees(r, n)
  PROVE  Together(r, b, <<>>, n)
<1>1. <<>> \in Seq(Nat) /\ Len(<<>>) = 0 /\ 0 \in Nat
  OBVIOUS
<1>2. FastReads(r, <<>>) = r /\ BackwardReads(b, <<>>) = b
  BY <1>1, FastReadsInTurn, BackwardReadsInTurn
<1>3. ~ReadsBlindly(r, <<>>)
  BY <1>1 DEF ReadsBlindly
<1> QED
  BY <1>2, <1>3 DEF Together

LEMMA TogetherOn ==
  ASSUME NEW r, NEW b, NEW counts \in Seq(Nat), NEW count \in Nat, NEW n \in Nat,
         Together(r, b, counts, count + n), count + ByteBits <= WordBits + 1
  PROVE  Together(r, b, Append(counts, count), n)
<1>1. PICK f : f = FastReads(r, counts)
  OBVIOUS
<1>2. PICK e : e = BackwardReads(b, counts)
  OBVIOUS
<1>3. PICK more : more = Append(counts, count)
  OBVIOUS
<1>4. FastReads(r, more) = SkipFast(f, count) /\ BackwardReads(b, more) = SkipBackward(e, count)
  BY <1>1, <1>2, <1>3, FastReadsInTurn, BackwardReadsInTurn
<1>5. ReadersAgree(f, e) /\ ~ReadsBlindly(r, counts) /\ FastSees(f, count + n)
  BY <1>1, <1>2 DEF Together
<1>6. FastSees(f, count) /\ FastSees(SkipFast(f, count), n)
  BY <1>5, SeenInTurn DEF ReadersAgree
<1>7. ReadersAgree(SkipFast(f, count), SkipBackward(e, count))
  BY <1>5, <1>6, ReadAgrees
<1>8. ~ReadsBlindly(r, more)
  <2>1. /\ Len(counts) \in Nat /\ Len(more) = Len(counts) + 1 /\ more[Len(counts) + 1] = count
        /\ \A i \in 1..Len(counts) : more[i] = counts[i]
    BY <1>3
  <2>2. ASSUME NEW i \in 1..Len(counts) + 1
        PROVE  SubSeq(more, 1, i - 1) = SubSeq(counts, 1, i - 1)
    BY <1>3, <2>1
  <2>3. SubSeq(counts, 1, Len(counts)) = counts
    OBVIOUS
  <2>4. ASSUME NEW i \in 1..Len(counts) + 1
        PROVE  FastSees(FastReads(r, SubSeq(more, 1, i - 1)), more[i])
    <3>1. CASE i = Len(counts) + 1
      <4>1. i - 1 = Len(counts)
        BY <2>1, <3>1
      <4>2. SubSeq(more, 1, i - 1) = counts
        BY <2>2, <2>3, <4>1
      <4> QED
        BY <1>1, <1>6, <2>1, <3>1, <4>2
    <3>2. CASE i # Len(counts) + 1
      <4>1. i \in 1..Len(counts)
        BY <2>1, <3>2
      <4>2. FastSees(FastReads(r, SubSeq(counts, 1, i - 1)), counts[i])
        BY <1>5, <4>1 DEF ReadsBlindly
      <4> QED
        BY <2>1, <2>2, <4>1, <4>2
    <3> QED
      BY <3>1, <3>2
  <2> QED
    BY <2>1, <2>4 DEF ReadsBlindly
<1> QED
  BY <1>3, <1>4, <1>6, <1>7, <1>8 DEF Together

\* A list that has another one appended element by element.
LEMMA AppendedInTurn ==
  ASSUME NEW s \in Seq(Nat), NEW t \in Seq(Nat), NEW e \in Nat
  PROVE  s \o <<>> = s /\ s \o Append(t, e) = Append(s \o t, e)
<1>1. s \o t \in Seq(Nat) /\ <<e>> \in Seq(Nat) /\ s \o <<>> = s
  BY ConcatProperties, ConcatEmptySeq
<1>2. Append(t, e) = t \o <<e>> /\ Append(s \o t, e) = (s \o t) \o <<e>>
  BY <1>1, AppendIsConcat
<1>3. (s \o t) \o <<e>> = s \o (t \o <<e>>)
  BY <1>1, ConcatAssociative
<1> QED
  BY <1>1, <1>2, <1>3

\* Short lists, one read after the other.
LEMMA OneInTurn ==
  ASSUME NEW a \in Nat
  PROVE  <<a>> = Append(<<>>, a) /\ <<a>> \in Seq(Nat)
<1>1. <<a>> = Append(<<>>, a)
  OBVIOUS
<1>2. <<a>> \in Seq(Nat)
  OBVIOUS
<1> QED
  BY <1>1, <1>2

LEMMA TwoInTurn ==
  ASSUME NEW a \in Nat, NEW b \in Nat
  PROVE  <<a, b>> = Append(<<a>>, b) /\ <<a, b>> \in Seq(Nat)
<1>1. <<a, b>> = Append(<<a>>, b)
  OBVIOUS
<1>2. <<a, b>> \in Seq(Nat)
  OBVIOUS
<1> QED
  BY <1>1, <1>2

LEMMA ThreeInTurn ==
  ASSUME NEW a \in Nat, NEW b \in Nat, NEW c \in Nat
  PROVE  <<a, b, c>> = Append(<<a, b>>, c) /\ <<a, b, c>> \in Seq(Nat)
<1>1. <<a, b, c>> = Append(<<a, b>>, c)
  OBVIOUS
<1>2. <<a, b, c>> \in Seq(Nat)
  OBVIOUS
<1> QED
  BY <1>1, <1>2

LEMMA FourInTurn ==
  ASSUME NEW a \in Nat, NEW b \in Nat, NEW c \in Nat, NEW d \in Nat
  PROVE  <<a, b, c, d>> = Append(<<a, b, c>>, d) /\ <<a, b, c, d>> \in Seq(Nat)
<1>1. <<a, b, c, d>> = Append(<<a, b, c>>, d)
  OBVIOUS
<1>2. <<a, b, c, d>> \in Seq(Nat)
  OBVIOUS
<1> QED
  BY <1>1, <1>2

LEMMA FiveInTurn ==
  ASSUME NEW a \in Nat, NEW b \in Nat, NEW c \in Nat, NEW d \in Nat, NEW e \in Nat
  PROVE  <<a, b, c, d, e>> = Append(<<a, b, c, d>>, e) /\ <<a, b, c, d, e>> \in Seq(Nat)
<1>1. <<a, b, c, d, e>> = Append(<<a, b, c, d>>, e)
  OBVIOUS
<1>2. <<a, b, c, d, e>> \in Seq(Nat)
  OBVIOUS
<1> QED
  BY <1>1, <1>2

LEMMA SixInTurn ==
  ASSUME NEW a \in Nat, NEW b \in Nat, NEW c \in Nat, NEW d \in Nat, NEW e \in Nat, NEW f \in Nat
  PROVE  <<a, b, c, d, e, f>> = Append(<<a, b, c, d, e>>, f) /\ <<a, b, c, d, e, f>> \in Seq(Nat)
<1>1. <<a, b, c, d, e, f>> = Append(<<a, b, c, d, e>>, f)
  OBVIOUS
<1>2. <<a, b, c, d, e, f>> \in Seq(Nat)
  OBVIOUS
<1> QED
  BY <1>1, <1>2

LEMMA EmptyInTurn ==
  /\ <<>> \in Seq(Nat)
  /\ \A s \in Seq(Nat) : s \o <<>> = s
<1>1. <<>> \in Seq(Nat)
  OBVIOUS
<1> QED
  BY <1>1, AppendedInTurn

\* Three reads behind a list.
LEMMA ThreeMore ==
  ASSUME NEW s \in Seq(Nat), NEW b \in Nat, NEW c \in Nat, NEW d \in Nat
  PROVE  s \o <<b, c, d>> = Append(Append(Append(s, b), c), d)
<1>1. PICK t \in Seq(Nat) : t = <<b>> /\ t = Append(<<>>, b)
  BY OneInTurn, Zenon
<1>2. PICK u \in Seq(Nat) : u = <<b, c>> /\ u = Append(t, c)
  BY <1>1, TwoInTurn, Zenon
<1>3. <<b, c, d>> = Append(u, d)
  <2>1. <<b, c, d>> = Append(<<b, c>>, d)
    BY ThreeInTurn, Zenon
  <2> QED
    BY <1>2, <2>1, Zenon
<1>4. s \o Append(<<>>, b) = Append(s \o <<>>, b) /\ s \o <<>> = s
  BY EmptyInTurn, AppendedInTurn, Zenon
<1>5. s \o Append(t, c) = Append(s \o t, c) /\ s \o Append(u, d) = Append(s \o u, d)
  BY AppendedInTurn, Zenon
<1> QED
  BY <1>1, <1>2, <1>3, <1>4, <1>5, Zenon

LEMMA FastReadsOn ==
  ASSUME NEW r, NEW s \in Seq(Nat), NEW bits \in Nat
  PROVE  FastReads(r, s \o <<bits, bits, bits>>)
           = SkipFast(SkipFast(SkipFast(FastReads(r, s), bits), bits), bits)
<1>1. PICK t \in Seq(Nat) : t = Append(s, bits)
  <2>1. Append(s, bits) \in Seq(Nat)
    OBVIOUS
  <2> QED
    BY <2>1
<1>2. PICK u \in Seq(Nat) : u = Append(t, bits)
  <2>1. Append(t, bits) \in Seq(Nat)
    OBVIOUS
  <2> QED
    BY <2>1
<1>3. s \o <<bits, bits, bits>> = Append(u, bits)
  BY <1>1, <1>2, ThreeMore, Zenon
<1>4. FastReads(r, Append(s, bits)) = SkipFast(FastReads(r, s), bits)
  BY FastReadsInTurn, Zenon
<1>5. FastReads(r, Append(t, bits)) = SkipFast(FastReads(r, t), bits)
  BY FastReadsInTurn, Zenon
<1>6. FastReads(r, Append(u, bits)) = SkipFast(FastReads(r, u), bits)
  BY FastReadsInTurn, Zenon
<1> QED
  BY <1>1, <1>2, <1>3, <1>4, <1>5, <1>6, Zenon

LEMMA BackwardReadsOn ==
  ASSUME NEW r, NEW s \in Seq(Nat), NEW bits \in Nat
  PROVE  BackwardReads(r, s \o <<bits, bits, bits>>)
           = SkipBackward(SkipBackward(SkipBackward(BackwardReads(r, s), bits), bits), bits)
<1>1. PICK t \in Seq(Nat) : t = Append(s, bits)
  <2>1. Append(s, bits) \in Seq(Nat)
    OBVIOUS
  <2> QED
    BY <2>1
<1>2. PICK u \in Seq(Nat) : u = Append(t, bits)
  <2>1. Append(t, bits) \in Seq(Nat)
    OBVIOUS
  <2> QED
    BY <2>1
<1>3. s \o <<bits, bits, bits>> = Append(u, bits)
  BY <1>1, <1>2, ThreeMore, Zenon
<1>4. BackwardReads(r, Append(s, bits)) = SkipBackward(BackwardReads(r, s), bits)
  BY BackwardReadsInTurn, Zenon
<1>5. BackwardReads(r, Append(t, bits)) = SkipBackward(BackwardReads(r, t), bits)
  BY BackwardReadsInTurn, Zenon
<1>6. BackwardReads(r, Append(u, bits)) = SkipBackward(BackwardReads(r, u), bits)
  BY BackwardReadsInTurn, Zenon
<1> QED
  BY <1>1, <1>2, <1>3, <1>4, <1>5, <1>6, Zenon

\* Up to four reads that the word of the fast reader holds.
LEMMA ReadsTogether ==
  ASSUME NEW r, NEW b, ReadersAgree(r, b), NEW n \in Nat,
         NEW a \in Nat, NEW c \in Nat, NEW d \in Nat, NEW e \in Nat,
         a + ByteBits <= WordBits + 1, c + ByteBits <= WordBits + 1,
         d + ByteBits <= WordBits + 1, e + ByteBits <= WordBits + 1
  PROVE  /\ FastSees(r, a + n) => Together(r, b, <<a>>, n)
         /\ FastSees(r, a + (c + n)) => Together(r, b, <<a, c>>, n)
         /\ FastSees(r, a + (c + (d + n))) => Together(r, b, <<a, c, d>>, n)
         /\ FastSees(r, a + (c + (d + (e + n)))) => Together(r, b, <<a, c, d, e>>, n)
<1>1. \A k \in Nat : FastSees(r, k) => Together(r, b, <<>>, k)
  BY TogetherAtFirst
<1>2. ASSUME NEW k \in Nat, FastSees(r, a + k) PROVE Together(r, b, <<a>>, k)
  <2>1. a + k \in Nat /\ <<>> \in Seq(Nat) /\ <<a>> = Append(<<>>, a)
    BY OneInTurn
  <2> QED
    BY <1>1, <1>2, <2>1, TogetherOn
<1>3. ASSUME NEW k \in Nat, FastSees(r, a + (c + k)) PROVE Together(r, b, <<a, c>>, k)
  <2>1. PICK s \in Seq(Nat) : s = <<a>>
    BY OneInTurn, Zenon
  <2>2. c + k \in Nat /\ <<a, c>> = Append(s, c)
    BY <2>1, TwoInTurn
  <2>3. Together(r, b, s, c + k)
    BY <1>2, <1>3, <2>1, <2>2
  <2> QED
    BY <2>2, <2>3, TogetherOn
<1>4. ASSUME NEW k \in Nat, FastSees(r, a + (c + (d + k))) PROVE Together(r, b, <<a, c, d>>, k)
  <2>1. PICK s \in Seq(Nat) : s = <<a, c>>
    BY TwoInTurn, Zenon
  <2>2. d + k \in Nat /\ <<a, c, d>> = Append(s, d)
    BY <2>1, ThreeInTurn
  <2>3. Together(r, b, s, d + k)
    BY <1>3, <1>4, <2>1, <2>2
  <2> QED
    BY <2>2, <2>3, TogetherOn
<1>5. ASSUME NEW k \in Nat, FastSees(r, a + (c + (d + (e + k))))
      PROVE  Together(r, b, <<a, c, d, e>>, k)
  <2>1. PICK s \in Seq(Nat) : s = <<a, c, d>>
    BY ThreeInTurn, Zenon
  <2>2. e + k \in Nat /\ <<a, c, d, e>> = Append(s, e)
    BY <2>1, FourInTurn
  <2>3. Together(r, b, s, e + k)
    BY <1>4, <1>5, <2>1, <2>2
  <2> QED
    BY <2>2, <2>3, TogetherOn
<1> QED
  BY <1>2, <1>3, <1>4, <1>5

\* The slow path reads a sequence in one list; behind the first two bits of it
\* comes what the fast path reads from its second word.
LEMMA ListIsRead ==
  ASSUME NEW b, NEW o \in Nat, NEW m \in Nat, NEW l \in Nat, NEW bits \in Nat,
         NEW states, states = <<>> \/ states = <<bits, bits, bits>>
  PROVE  BackwardReads(b, <<o, m, l>> \o states)
           = BackwardReads(BackwardReads(b, <<o, m>>), <<l>> \o states)
<1>1. PICK f : f = BackwardReads(b, <<o, m>>)
  OBVIOUS
<1>2. PICK s \in Seq(Nat) : s = <<o, m>>
  BY TwoInTurn, Zenon
<1>3. PICK t \in Seq(Nat) : t = <<o, m, l>> /\ t = Append(s, l)
  BY <1>2, ThreeInTurn, Zenon
<1>4. PICK u \in Seq(Nat) : u = <<l>> /\ u = Append(<<>>, l)
  BY OneInTurn, Zenon
<1>5. BackwardReads(b, Append(s, l)) = SkipBackward(BackwardReads(b, s), l)
  BY BackwardReadsInTurn, Zenon
<1>6. BackwardReads(f, Append(<<>>, l)) = SkipBackward(f, l)
  <2>1. BackwardReads(f, <<>>) = f
    BY EmptyInTurn, BackwardReadsInTurn, Zenon
  <2>2. BackwardReads(f, Append(<<>>, l)) = SkipBackward(BackwardReads(f, <<>>), l)
    BY EmptyInTurn, BackwardReadsInTurn, Zenon
  <2> QED
    BY <2>1, <2>2, Zenon
<1>7. BackwardReads(b, t) = BackwardReads(f, u)
  BY <1>1, <1>2, <1>3, <1>4, <1>5, <1>6, Zenon
<1>8. CASE states = <<>>
  <2>1. t \o states = t /\ u \o states = u
    BY <1>8, EmptyInTurn, Zenon
  <2> QED
    BY <1>1, <1>3, <1>4, <1>7, <2>1, Zenon
<1>9. CASE states = <<bits, bits, bits>>
  <2>1. BackwardReads(b, t \o states)
          = SkipBackward(SkipBackward(SkipBackward(BackwardReads(b, t), bits), bits), bits)
    <3>1. BackwardReads(b, t \o <<bits, bits, bits>>)
            = SkipBackward(SkipBackward(SkipBackward(BackwardReads(b, t), bits), bits), bits)
      BY BackwardReadsOn, Zenon
    <3> QED
      BY <1>9, <3>1, Zenon
  <2>2. BackwardReads(f, u \o states)
          = SkipBackward(SkipBackward(SkipBackward(BackwardReads(f, u), bits), bits), bits)
    <3>1. BackwardReads(f, u \o <<bits, bits, bits>>)
            = SkipBackward(SkipBackward(SkipBackward(BackwardReads(f, u), bits), bits), bits)
      BY BackwardReadsOn, Zenon
    <3> QED
      BY <1>9, <3>1, Zenon
  <2> QED
    BY <1>1, <1>3, <1>4, <1>7, <2>1, <2>2, Zenon
<1> QED
  BY <1>8, <1>9

\* The length of the literals, and the bits of the states or none.
LEMMA RestTogether ==
  ASSUME NEW r, NEW b, ReadersAgree(r, b), NEW l \in Nat, NEW bits \in Nat,
         l + ByteBits <= WordBits + 1, bits + ByteBits <= WordBits + 1,
         FastSees(r, l + (bits + (bits + bits))),
         NEW states \in {<<>>, <<bits, bits, bits>>}
  PROVE  Together(r, b, <<l>> \o states, 0)
<1>1. CASE states = <<>>
  <2>1. <<l>> \o states = <<l>>
    BY <1>1, OneInTurn, EmptyInTurn, Zenon
  <2>2. FastSees(r, l)
    <3>1. r \in ContainerReaders /\ bits + (bits + bits) \in Nat
      BY DEF ReadersAgree
    <3> QED
      BY <3>1, SeenInTurn
  <2>3. l + 0 = l /\ 0 \in Nat
    OBVIOUS
  <2>4. Together(r, b, <<l>>, 0)
    BY <2>2, <2>3, ReadsTogether
  <2> QED
    BY <2>1, <2>4, Zenon
<1>2. CASE states = <<bits, bits, bits>>
  <2>1. <<l>> \o <<bits, bits, bits>> = Append(Append(Append(<<l>>, bits), bits), bits)
    BY OneInTurn, ThreeMore, Zenon
  <2>2. <<l, bits, bits, bits>> = Append(Append(Append(<<l>>, bits), bits), bits)
    <3>1. <<l, bits>> = Append(<<l>>, bits)
      BY TwoInTurn, Zenon
    <3>2. <<l, bits, bits>> = Append(<<l, bits>>, bits)
      BY ThreeInTurn, Zenon
    <3>3. <<l, bits, bits, bits>> = Append(<<l, bits, bits>>, bits)
      BY FourInTurn, Zenon
    <3> QED
      BY <3>1, <3>2, <3>3, Zenon
  <2>3. l + (bits + (bits + (bits + 0))) = l + (bits + (bits + bits)) /\ 0 \in Nat
    OBVIOUS
  <2>4. Together(r, b, <<l, bits, bits, bits>>, 0)
    BY <2>3, ReadsTogether
  <2> QED
    BY <1>2, <2>1, <2>2, <2>4, Zenon
<1> QED
  BY <1>1, <1>2

\* Behind an overflow there is one.
LEMMA OverflowStays ==
  ASSUME NEW r, NEW b, ReadersAgree(r, b), Overflows(r), NEW l \in Nat, NEW bits \in Nat,
         l + ByteBits <= WordBits + 1, bits + ByteBits <= WordBits + 1,
         NEW states \in {<<>>, <<bits, bits, bits>>}
  PROVE  /\ ReadersAgree(FastReads(r, <<l>> \o states), BackwardReads(b, <<l>> \o states))
         /\ BackwardReads(b, <<l>> \o states).overflowed
<1>1. FastSees(r, l + (bits + (bits + bits)))
  BY DEF ReadersAgree, FastSees
<1>2. ReadersAgree(FastReads(r, <<l>> \o states), BackwardReads(b, <<l>> \o states))
  BY <1>1, RestTogether DEF Together
<1>3. ASSUME NEW f \in ContainerReaders, NEW n \in Nat, Overflows(f)
      PROVE  SkipFast(f, n) \in ContainerReaders /\ Overflows(SkipFast(f, n))
  <2>1. PICK p \in Nat, c \in Nat : f = [position |-> p, consumed |-> c]
    BY DEF ContainerReaders
  <2>2. SkipFast(f, n) = [position |-> p, consumed |-> c + n]
    BY <2>1 DEF SkipFast
  <2>3. c + n \in Nat /\ c + n > WordBits
    BY <1>3, <2>1, CursorSizes DEF Overflows
  <2> QED
    BY <2>2, <2>3 DEF ContainerReaders, Overflows
<1>4. PICK t \in Seq(Nat) : t = <<l>> /\ t = Append(<<>>, l)
  BY OneInTurn, Zenon
<1>5. FastReads(r, Append(<<>>, l)) = SkipFast(r, l)
  <2>1. FastReads(r, <<>>) = r
    BY EmptyInTurn, FastReadsInTurn, Zenon
  <2>2. FastReads(r, Append(<<>>, l)) = SkipFast(FastReads(r, <<>>), l)
    BY EmptyInTurn, FastReadsInTurn, Zenon
  <2> QED
    BY <2>1, <2>2, Zenon
<1>6. FastReads(r, t) \in ContainerReaders /\ Overflows(FastReads(r, t))
  <2>1. SkipFast(r, l) \in ContainerReaders /\ Overflows(SkipFast(r, l))
    BY <1>3 DEF ReadersAgree
  <2> QED
    BY <1>4, <1>5, <2>1, Zenon
<1>7. CASE states = <<>>
  <2>1. t \o states = t
    BY <1>7, EmptyInTurn, Zenon
  <2>2. Overflows(FastReads(r, <<l>> \o states))
    BY <1>4, <1>6, <2>1, Zenon
  <2> QED
    BY <1>2, <2>2 DEF ReadersAgree
<1>8. CASE states = <<bits, bits, bits>>
  <2>1. FastReads(r, t \o states) = SkipFast(SkipFast(SkipFast(FastReads(r, t), bits), bits), bits)
    <3>1. FastReads(r, t \o <<bits, bits, bits>>)
            = SkipFast(SkipFast(SkipFast(FastReads(r, t), bits), bits), bits)
      BY FastReadsOn, Zenon
    <3> QED
      BY <1>8, <3>1, Zenon
  <2>2. PICK f : f = FastReads(r, t)
    OBVIOUS
  <2>3. PICK g : g = SkipFast(f, bits)
    OBVIOUS
  <2>4. PICK h : h = SkipFast(g, bits)
    OBVIOUS
  <2>5. f \in ContainerReaders /\ Overflows(f)
    BY <1>6, <2>2
  <2>6. g \in ContainerReaders /\ Overflows(g)
    BY <1>3, <2>3, <2>5
  <2>7. h \in ContainerReaders /\ Overflows(h)
    BY <1>3, <2>4, <2>6
  <2>8. Overflows(SkipFast(h, bits))
    BY <1>3, <2>7
  <2>9. Overflows(FastReads(r, <<l>> \o states))
    BY <1>4, <2>1, <2>2, <2>3, <2>4, <2>8, Zenon
  <2> QED
    BY <1>2, <2>9 DEF ReadersAgree
<1> QED
  BY <1>7, <1>8

-----------------------------------------------------------------------------
(***************************************************************************)
(* Both paths through a stream of sequences.                               *)
(***************************************************************************)

ReaderTypeOK ==
  /\ fastReader \in ContainerReaders /\ slowReader \in BackwardReaders
  /\ fastVerdict \in {"closed", "reading", "accepted", "refused"}
  /\ slowVerdict \in {"closed", "reading", "accepted", "refused"}
  /\ sequencesLeft \in Nat

\* The slow path knows of an overflow as soon as there is one; the fast one has
\* then read on, and finds out at the next refill or at the end of the stream.
ReaderInv ==
  /\ ReaderTypeOK /\ blind = FALSE
  /\ fastVerdict # "refused" => ReadersAgree(fastReader, slowReader)
  /\ fastVerdict = "closed" =>
       slowVerdict = "closed" /\ sequencesLeft = 0 /\ ~slowReader.overflowed
  /\ fastVerdict = "reading" =>
       slowVerdict = IF slowReader.overflowed THEN "refused" ELSE "reading"
  /\ fastVerdict \in {"accepted", "refused"} => slowVerdict = fastVerdict

LEMMA ReaderSizes ==
  /\ \A o \in OffsetBits : o \in Nat /\ o <= 31
  /\ \A l \in LengthBits : l \in Nat /\ l <= 16
  /\ \A s \in StateBits : s \in Nat /\ s <= 9
  /\ \A t \in TableLogs : t \in Nat /\ t <= 9
  /\ \A s \in SequenceStreams : s \in Nat /\ s >= WordBytes
  /\ ByteBits \in Nat /\ ByteBits > 0 /\ WordBits \in Nat /\ WordBytes \in Nat
  /\ RefillAbove \in Nat
  /\ (ByteBits - 1) + 31 + 16 <= WordBits
  /\ (ByteBits - 1) + RefillAbove + 9 + 9 + 9 <= WordBits
<1>1. /\ OffsetBits \subseteq 0..31 /\ LengthBits \subseteq 0..16
      /\ TableLogs \subseteq 0..9 /\ StateBits \subseteq 0..9
      /\ \A s \in SequenceStreams : s \in Nat /\ s >= WordBytes
      /\ RefillAbove \in Nat
      /\ (ByteBits - 1) + 31 + 16 <= WordBits
      /\ (ByteBits - 1) + RefillAbove + 9 + 9 + 9 <= WordBits
  BY SequenceReaderAssumption
<1>2. \A o \in OffsetBits : o \in Nat /\ o <= 31
  BY <1>1
<1>3. \A l \in LengthBits : l \in Nat /\ l <= 16
  BY <1>1
<1>4. \A s \in StateBits : s \in Nat /\ s <= 9
  BY <1>1
<1>5. \A t \in TableLogs : t \in Nat /\ t <= 9
  BY <1>1
<1> QED
  BY <1>1, <1>2, <1>3, <1>4, <1>5, CursorSizes

LEMMA ReadersInitially == ReaderInit => ReaderInv
<1> SUFFICES ASSUME ReaderInit PROVE ReaderInv
  OBVIOUS
<1>1. WordBytes \in Nat /\ WordBytes >= WordBytes /\ 1 \in Markers
  BY CursorSizes DEF Markers
<1>2. ReadersAgree(fastReader, slowReader) /\ ~slowReader.overflowed
  BY <1>1, OpenedAgree DEF ReaderInit
<1> QED
  BY <1>2 DEF ReaderInit, ReaderInv, ReaderTypeOK, ReadersAgree

LEMMA OpenStreamKeeps ==
  ASSUME ReaderInv, NEW length \in SequenceStreams, NEW marker \in Markers,
         NEW count \in 1..MaxSequencesRead,
         NEW literalLog \in TableLogs, NEW offsetLog \in TableLogs, NEW matchLog \in TableLogs,
         OpenStream(length, marker, count, literalLog, offsetLog, matchLog)
  PROVE  ReaderInv'
<1>1. /\ length \in Nat /\ length >= WordBytes
      /\ literalLog \in Nat /\ literalLog <= 9 /\ offsetLog \in Nat /\ offsetLog <= 9
      /\ matchLog \in Nat /\ matchLog <= 9
      /\ ByteBits \in Nat /\ ByteBits > 0 /\ WordBits \in Nat /\ (ByteBits - 1) + 31 + 16 <= WordBits
  BY ReaderSizes
<1>2. PICK r : r = OpenFast(length, marker)
  OBVIOUS
<1>3. PICK b : b = OpenBackward(length, marker)
  OBVIOUS
<1>4. ReadersAgree(r, b) /\ r.consumed <= ByteBits /\ ~b.overflowed
  BY <1>1, <1>2, <1>3, OpenedAgree
<1>5. PICK p \in Nat, c \in Nat : r = [position |-> p, consumed |-> c]
  BY <1>4 DEF ReadersAgree, ContainerReaders
<1>6. PICK logs : logs = <<literalLog, offsetLog, matchLog>>
  OBVIOUS
<1>7. Together(r, b, logs, 0)
  <2>1. FastSees(r, literalLog + (offsetLog + (matchLog + 0)))
    BY <1>1, <1>4, <1>5 DEF FastSees
  <2>2. /\ 0 \in Nat /\ literalLog + ByteBits <= WordBits + 1 /\ offsetLog + ByteBits <= WordBits + 1
        /\ matchLog + ByteBits <= WordBits + 1
    BY <1>1
  <2>3. Together(r, b, <<literalLog, offsetLog, matchLog>>, 0)
    BY <1>1, <1>4, <2>1, <2>2, ReadsTogether
  <2> QED
    BY <1>6, <2>3, Zenon
<1>8. ~Overflows(FastReads(r, logs))
  <2>1. PICK s \in Seq(Nat) : s = <<literalLog>> /\ s = Append(<<>>, literalLog)
    BY <1>1, OneInTurn, Zenon
  <2>2. PICK t \in Seq(Nat) : t = <<literalLog, offsetLog>> /\ t = Append(s, offsetLog)
    <3>1. /\ <<literalLog, offsetLog>> = Append(<<literalLog>>, offsetLog)
          /\ <<literalLog, offsetLog>> \in Seq(Nat)
      BY <1>1, TwoInTurn, Zenon
    <3> QED
      BY <2>1, <3>1, Zenon
  <2>3. logs = Append(t, matchLog)
    <3>1. <<literalLog, offsetLog, matchLog>> = Append(<<literalLog, offsetLog>>, matchLog)
      BY <1>1, ThreeInTurn, Zenon
    <3> QED
      BY <1>6, <2>2, <3>1, Zenon
  <2>4. FastReads(r, <<>>) = r
    BY <1>1, EmptyInTurn, FastReadsInTurn, Zenon
  <2>5. FastReads(r, Append(<<>>, literalLog)) = SkipFast(FastReads(r, <<>>), literalLog)
    BY <1>1, EmptyInTurn, FastReadsInTurn, Zenon
  <2>6. FastReads(r, Append(s, offsetLog)) = SkipFast(FastReads(r, s), offsetLog)
    BY <1>1, FastReadsInTurn, Zenon
  <2>7. FastReads(r, Append(t, matchLog)) = SkipFast(FastReads(r, t), matchLog)
    BY <1>1, FastReadsInTurn, Zenon
  <2>8. FastReads(r, logs) = SkipFast(SkipFast(SkipFast(r, literalLog), offsetLog), matchLog)
    BY <2>1, <2>2, <2>3, <2>4, <2>5, <2>6, <2>7, Zenon
  <2>9. SkipFast(SkipFast(SkipFast(r, literalLog), offsetLog), matchLog)
          = [position |-> p, consumed |-> ((c + literalLog) + offsetLog) + matchLog]
    <3>1. PICK f : f = [position |-> p, consumed |-> c + literalLog]
      OBVIOUS
    <3>2. PICK g : g = [position |-> p, consumed |-> (c + literalLog) + offsetLog]
      OBVIOUS
    <3>3. SkipFast(r, literalLog) = f
      BY <1>5, <3>1 DEF SkipFast
    <3>4. SkipFast(f, offsetLog) = g
      BY <3>1, <3>2 DEF SkipFast
    <3>5. SkipFast(g, matchLog)
            = [position |-> p, consumed |-> ((c + literalLog) + offsetLog) + matchLog]
      BY <3>2 DEF SkipFast
    <3> QED
      BY <3>3, <3>4, <3>5, Zenon
  <2>10. ~(((c + literalLog) + offsetLog) + matchLog > WordBits)
    BY <1>1, <1>4, <1>5
  <2> QED
    BY <2>8, <2>9, <2>10 DEF Overflows
<1>9. fastReader' = FastReads(r, logs) /\ slowReader' = BackwardReads(b, logs)
  BY <1>2, <1>3, <1>6, Zenon DEF OpenStream
<1>10. blind' = ReadsBlindly(r, logs)
  BY <1>2, <1>6, Zenon DEF OpenStream
<1>11. blind' = FALSE
  BY <1>7, <1>10 DEF Together, ReadsBlindly
<1>12. ReadersAgree(fastReader', slowReader') /\ ~Overflows(fastReader')
  BY <1>7, <1>8, <1>9, Zenon DEF Together
<1>13. ~slowReader'.overflowed /\ fastReader' \in ContainerReaders /\ slowReader' \in BackwardReaders
  BY <1>12 DEF ReadersAgree
<1>14. sequencesLeft' \in Nat /\ fastVerdict' = "reading" /\ slowVerdict' = "reading"
  <2>1. count \in Nat
    OBVIOUS
  <2> QED
    BY <2>1 DEF OpenStream
<1>15. ReadersAgree(fastReader, slowReader)'
  BY <1>12, Zenon DEF ReadersAgree, Overflows, BitsAhead
<1> QED
  BY <1>11, <1>13, <1>14, <1>15 DEF ReaderInv, ReaderTypeOK

\* What a reading reads behind the lengths, in the words of ReadSequence.
LEMMA StatesReadIs ==
  ASSUME NEW bits
  PROVE  StatesRead(<<bits, bits, bits>>) \in {<<>>, <<bits, bits, bits>>}
BY Zenon DEF StatesRead

\* Where both paths go on, they read the same bits: with one refill when the
\* extra bits are few, with a second one in front of the literals' when they are many.
LEMMA BothReadOn ==
  ASSUME ReaderInv, fastVerdict = "reading", ~Overflows(fastReader),
         NEW offset \in OffsetBits, NEW match \in LengthBits, NEW literals \in LengthBits,
         NEW bits \in StateBits,
         ReadFast(offset, match, literals, <<bits, bits, bits>>),
         ReadSlow(offset, match, literals, <<bits, bits, bits>>)
  PROVE  /\ fastReader' \in ContainerReaders /\ slowReader' \in BackwardReaders /\ blind' = FALSE
         /\ \/ /\ fastVerdict' = "refused" /\ slowVerdict' = "refused"
            \/ /\ fastVerdict' = "reading" /\ ReadersAgree(fastReader', slowReader')
               /\ slowVerdict' = IF slowReader'.overflowed THEN "refused" ELSE "reading"
<1> DEFINE many == offset + match + literals > RefillAbove
<1>1. /\ offset \in Nat /\ offset <= 31 /\ match \in Nat /\ match <= 16
      /\ literals \in Nat /\ literals <= 16 /\ bits \in Nat /\ bits <= 9
      /\ ByteBits \in Nat /\ ByteBits > 0 /\ WordBits \in Nat /\ RefillAbove \in Nat
      /\ (ByteBits - 1) + 31 + 16 <= WordBits
      /\ (ByteBits - 1) + RefillAbove + 9 + 9 + 9 <= WordBits
  BY ReaderSizes
<1>2. /\ offset + ByteBits <= WordBits + 1 /\ match + ByteBits <= WordBits + 1
      /\ literals + ByteBits <= WordBits + 1 /\ bits + ByteBits <= WordBits + 1
      /\ 0 \in Nat
  BY <1>1
<1>3. PICK states \in {<<>>, <<bits, bits, bits>>} : states = StatesRead(<<bits, bits, bits>>)
  BY StatesReadIs
<1>4. PICK rest : rest = <<literals>> \o states
  OBVIOUS
<1>5. PICK extra : extra = <<offset, match>>
  OBVIOUS
<1>6. PICK first : first = Refill(fastReader)
  OBVIOUS
<1>7. PICK middle : middle = FastReads(first, extra)
  OBVIOUS
<1>8. PICK slow : slow = BackwardReads(slowReader, extra)
  OBVIOUS
<1>9. PICK after : after = BackwardReads(slow, rest)
  OBVIOUS
<1>10. BackwardReads(slowReader, <<offset, match, literals>> \o StatesRead(<<bits, bits, bits>>)) = after
  <2>1. BackwardReads(slowReader, <<offset, match, literals>> \o states)
          = BackwardReads(BackwardReads(slowReader, <<offset, match>>), <<literals>> \o states)
    <3>1. offset \in Nat /\ match \in Nat /\ literals \in Nat /\ bits \in Nat
      BY <1>1
    <3>3. states = <<>> \/ states = <<bits, bits, bits>>
      OBVIOUS
    <3>2. ASSUME NEW b
          PROVE  BackwardReads(b, <<offset, match, literals>> \o states)
                   = BackwardReads(BackwardReads(b, <<offset, match>>), <<literals>> \o states)
      BY <3>1, <3>3, ListIsRead, SMTT(60)
    <3> QED
      BY <3>2, Zenon
  <2> QED
    BY <1>3, <1>4, <1>5, <1>8, <1>9, <2>1, Zenon
<1>11. ReadersAgree(fastReader, slowReader) /\ ~slowReader.overflowed /\ blind = FALSE
       /\ fastReader \in ContainerReaders
  BY DEF ReaderInv, ReaderTypeOK, ReadersAgree
<1>12. slowReader' = after /\ slowVerdict' = IF after.overflowed THEN "refused" ELSE "reading"
  <2>1. slowVerdict = "reading"
    BY <1>11 DEF ReaderInv
  <2>2. /\ slowReader' = BackwardReads(slowReader, <<offset, match, literals>> \o StatesRead(<<bits, bits, bits>>))
        /\ slowVerdict' = IF BackwardReads(slowReader, <<offset, match, literals>> \o StatesRead(<<bits, bits, bits>>)).overflowed
                          THEN "refused" ELSE slowVerdict
    BY Zenon DEF ReadSlow
  <2> QED
    BY <1>10, <2>1, <2>2, Zenon
<1>13. IF many /\ Overflows(middle)
       THEN fastVerdict' = "refused" /\ fastReader' = fastReader /\ blind' = blind
       ELSE /\ fastReader' = FastReads(IF many THEN Refill(middle) ELSE middle, rest)
            /\ blind' = (\/ blind \/ ReadsBlindly(first, extra)
                         \/ ReadsBlindly(IF many THEN Refill(middle) ELSE middle, rest))
            /\ fastVerdict' = fastVerdict
  BY <1>3, <1>4, <1>5, <1>6, <1>7, Zenon DEF ReadFast
<1> HIDE DEF many
<1>14. CASE many
  <2>1. ReadersAgree(first, slowReader) /\ FastSees(first, offset + (match + 0))
    <3>1. offset + (match + 0) \in Nat /\ (offset + (match + 0)) + ByteBits <= WordBits + 1
      BY <1>1
    <3> QED
      BY <1>6, <1>11, <3>1, RefillAgrees
  <2>2. Together(first, slowReader, extra, 0)
    <3>1. Together(first, slowReader, <<offset, match>>, 0)
      BY <1>1, <1>2, <2>1, ReadsTogether
    <3> QED
      BY <1>5, <3>1, Zenon
  <2>3. ReadersAgree(middle, slow) /\ ~ReadsBlindly(first, extra)
    BY <1>7, <1>8, <2>2, Zenon DEF Together
  <2>4. CASE Overflows(middle)
    <3>1. ReadersAgree(FastReads(middle, rest), after) /\ after.overflowed
      BY <1>1, <1>2, <1>4, <1>9, <2>3, <2>4, OverflowStays
    <3>2. after \in BackwardReaders
      BY <3>1 DEF ReadersAgree
    <3>3. fastVerdict' = "refused" /\ fastReader' = fastReader /\ blind' = blind
      BY <1>13, <1>14, <2>4, Zenon
    <3> QED
      BY <1>11, <1>12, <3>1, <3>2, <3>3
  <2>5. CASE ~Overflows(middle)
    <3>1. PICK second : second = Refill(middle)
      OBVIOUS
    <3>2. ReadersAgree(second, slow) /\ FastSees(second, literals + (bits + (bits + bits)))
      <4>1. /\ literals + (bits + (bits + bits)) \in Nat
            /\ (literals + (bits + (bits + bits))) + ByteBits <= WordBits + 1
        BY <1>1
      <4> QED
        BY <2>3, <2>5, <3>1, <4>1, RefillAgrees
    <3>3. Together(second, slow, rest, 0)
      BY <1>1, <1>2, <1>4, <3>2, RestTogether
    <3>4. ReadersAgree(FastReads(second, rest), after) /\ ~ReadsBlindly(second, rest)
      BY <1>9, <3>3, Zenon DEF Together
    <3>5. /\ fastReader' = FastReads(second, rest) /\ fastVerdict' = "reading"
          /\ blind' = (blind \/ ReadsBlindly(first, extra) \/ ReadsBlindly(second, rest))
      BY <1>13, <1>14, <2>5, <3>1, Zenon
    <3>6. blind' = FALSE
      BY <1>11, <2>3, <3>4, <3>5, Zenon
    <3>7. FastReads(second, rest) \in ContainerReaders /\ after \in BackwardReaders
      BY <3>4 DEF ReadersAgree
    <3> QED
      BY <1>12, <3>4, <3>5, <3>6, <3>7, Zenon
  <2> QED
    BY <2>4, <2>5
<1>15. CASE ~many
  <2>1. PICK n \in Nat : n = literals + (bits + (bits + bits))
    BY <1>1
  <2>2. ReadersAgree(first, slowReader) /\ FastSees(first, offset + (match + n))
    <3>1. offset + match + literals <= RefillAbove
      BY <1>1, <1>15 DEF many
    <3>2. offset + (match + n) \in Nat /\ (offset + (match + n)) + ByteBits <= WordBits + 1
      BY <1>1, <2>1, <3>1
    <3> QED
      BY <1>6, <1>11, <3>2, RefillAgrees
  <2>3. Together(first, slowReader, extra, n)
    <3>1. Together(first, slowReader, <<offset, match>>, n)
      BY <1>1, <1>2, <2>2, ReadsTogether
    <3> QED
      BY <1>5, <3>1, Zenon
  <2>4. ReadersAgree(middle, slow) /\ ~ReadsBlindly(first, extra) /\ FastSees(middle, n)
    BY <1>7, <1>8, <2>3, Zenon DEF Together
  <2>5. Together(middle, slow, rest, 0)
    BY <1>1, <1>2, <1>4, <2>1, <2>4, RestTogether
  <2>6. ReadersAgree(FastReads(middle, rest), after) /\ ~ReadsBlindly(middle, rest)
    BY <1>9, <2>5, Zenon DEF Together
  <2>7. /\ fastReader' = FastReads(middle, rest) /\ fastVerdict' = "reading"
        /\ blind' = (blind \/ ReadsBlindly(first, extra) \/ ReadsBlindly(middle, rest))
    BY <1>13, <1>15, Zenon
  <2>8. blind' = FALSE
    BY <1>11, <2>4, <2>6, <2>7, Zenon
  <2>9. FastReads(middle, rest) \in ContainerReaders /\ after \in BackwardReaders
    BY <2>6 DEF ReadersAgree
  <2> QED
    BY <1>12, <2>6, <2>7, <2>8, <2>9, Zenon
<1> QED
  BY <1>14, <1>15

LEMMA ReadSequenceKeeps ==
  ASSUME ReaderInv, NEW offset \in OffsetBits, NEW match \in LengthBits, NEW literals \in LengthBits,
         NEW bits \in StateBits, ReadSequence(offset, match, literals, <<bits, bits, bits>>)
  PROVE  ReaderInv'
<1>1. sequencesLeft' \in Nat /\ fastVerdict # "closed"
  BY DEF ReaderInv, ReaderTypeOK, ReadSequence
<1>2. CASE fastVerdict # "reading"
  <2>1. /\ fastReader' = fastReader /\ fastVerdict' = fastVerdict /\ blind' = blind
        /\ slowReader' = slowReader /\ slowVerdict' = slowVerdict
    BY <1>1, <1>2 DEF ReaderInv, ReaderTypeOK, ReadSequence
  <2> QED
    BY <1>1, <1>2, <2>1 DEF ReaderInv, ReaderTypeOK, ReadersAgree, Overflows, BitsAhead
<1>3. CASE fastVerdict = "reading" /\ Overflows(fastReader)
  <2>1. slowReader.overflowed /\ slowVerdict = "refused"
    BY <1>3 DEF ReaderInv, ReadersAgree
  <2>2. slowReader' = slowReader /\ slowVerdict' = slowVerdict
    BY <2>1 DEF ReadSequence
  <2>3. fastReader' = fastReader /\ blind' = blind /\ fastVerdict' = "refused"
    BY <1>3, Zenon DEF ReadSequence, ReadFast
  <2> QED
    BY <1>1, <2>1, <2>2, <2>3 DEF ReaderInv, ReaderTypeOK
<1>4. CASE fastVerdict = "reading" /\ ~Overflows(fastReader)
  <2>1. slowVerdict = "reading"
    BY <1>4 DEF ReaderInv, ReadersAgree
  <2>2. /\ ReadFast(offset, match, literals, <<bits, bits, bits>>)
        /\ ReadSlow(offset, match, literals, <<bits, bits, bits>>)
    BY <1>4, <2>1, Zenon DEF ReadSequence
  <2>3. /\ fastReader' \in ContainerReaders /\ slowReader' \in BackwardReaders /\ blind' = FALSE
        /\ \/ /\ fastVerdict' = "refused" /\ slowVerdict' = "refused"
           \/ /\ fastVerdict' = "reading" /\ ReadersAgree(fastReader', slowReader')
              /\ slowVerdict' = IF slowReader'.overflowed THEN "refused" ELSE "reading"
    BY <1>4, <2>2, BothReadOn
  <2>4. ReadersAgree(fastReader', slowReader') => ReadersAgree(fastReader, slowReader)'
    BY Zenon DEF ReadersAgree, Overflows, BitsAhead
  <2> QED
    BY <1>1, <2>3, <2>4 DEF ReaderInv, ReaderTypeOK
<1> QED
  BY <1>2, <1>3, <1>4

\* Both are at the end of the stream, or neither is.
LEMMA FinishedAlike ==
  ASSUME NEW r, NEW b, ReadersAgree(r, b)
  PROVE  FastIsFinished(r) <=> BackwardIsFinished(b)
<1>1. /\ ByteBits \in Nat /\ ByteBits > 0 /\ WordBits \in Nat
      /\ r.position \in Nat /\ r.consumed \in Nat /\ b.held \in Nat /\ b.byte \in Nat
  BY CursorSizes DEF ReadersAgree, ContainerReaders, BackwardReaders
<1>2. PICK ahead \in Nat : ahead = ByteBits * r.position /\ (ahead = 0 <=> r.position = 0)
  BY <1>1
<1>3. PICK behind \in Nat : behind = ByteBits * b.byte
  BY <1>1
<1>4. CASE Overflows(r)
  <2>1. b.overflowed
    BY <1>4 DEF ReadersAgree
  <2>2. ~(r.consumed = WordBits)
    BY <1>1, <1>4 DEF Overflows
  <2> QED
    BY <2>1, <2>2, Zenon DEF FastIsFinished, BackwardIsFinished
<1>5. CASE ~Overflows(r)
  <2>1. ~b.overflowed /\ BitsAhead(r.position, r.consumed) = b.held + ByteBits * b.byte
    BY <1>5 DEF ReadersAgree
  <2>2. ahead + WordBits - r.consumed = b.held + behind /\ r.consumed <= WordBits
    BY <1>1, <1>2, <1>3, <1>5, <2>1 DEF Overflows, BitsAhead
  <2>3. (ahead = 0 /\ r.consumed = WordBits) <=> b.held + behind = 0
    <3>1. PICK used \in Nat, held \in Nat : used = r.consumed /\ held = b.held
      BY <1>1
    <3>2. ahead + WordBits - used = held + behind /\ used <= WordBits
      BY <2>2, <3>1, Zenon
    <3>3. (ahead = 0 /\ used = WordBits) => held + behind = 0
      BY <1>1, <3>2
    <3>4. held + behind = 0 => (ahead = 0 /\ used = WordBits)
      BY <1>1, <3>2
    <3> QED
      BY <3>1, <3>3, <3>4, Zenon
  <2>4. BackwardIsFinished(b) <=> b.held + behind = 0
    BY <1>3, <2>1, Zenon DEF BackwardIsFinished, BackwardBitsLeft
  <2>5. FastIsFinished(r) <=> (ahead = 0 /\ r.consumed = WordBits)
    BY <1>2, Zenon DEF FastIsFinished
  <2> QED
    BY <2>3, <2>4, <2>5, Zenon
<1> QED
  BY <1>4, <1>5

LEMMA CloseStreamKeeps == ASSUME ReaderInv, CloseStream PROVE ReaderInv'
<1>1. /\ fastReader' = fastReader /\ slowReader' = slowReader /\ blind' = blind
      /\ sequencesLeft' = sequencesLeft
  BY DEF CloseStream
<1>2. fastVerdict = "reading"
  BY DEF CloseStream, ReaderInv, ReaderTypeOK
<1>3. ReadersAgree(fastReader, slowReader)
  BY <1>2 DEF ReaderInv
<1>4. FastIsFinished(fastReader) <=> BackwardIsFinished(slowReader)
  BY <1>3, FinishedAlike
<1>5. fastVerdict' = IF FastIsFinished(fastReader) THEN "accepted" ELSE "refused"
  BY <1>2, Zenon DEF CloseStream, FastVerdict
<1>6. slowVerdict' = fastVerdict'
  <2>1. CASE slowReader.overflowed
    <3>1. slowVerdict = "refused"
      BY <1>2, <2>1 DEF ReaderInv
    <3>2. ~FastIsFinished(fastReader)
      BY <1>4, <2>1, Zenon DEF BackwardIsFinished
    <3>3. slowVerdict' = "refused"
      BY <3>1 DEF CloseStream
    <3> QED
      BY <1>5, <3>2, <3>3, Zenon
  <2>2. CASE ~slowReader.overflowed
    <3>1. slowVerdict = "reading"
      BY <1>2, <2>2 DEF ReaderInv
    <3>2. slowVerdict' = IF BackwardIsFinished(slowReader) THEN "accepted" ELSE "refused"
      BY <3>1, Zenon DEF CloseStream, SlowVerdict
    <3> QED
      BY <1>4, <1>5, <3>2, Zenon
  <2> QED
    BY <2>1, <2>2
<1>7. fastVerdict' \in {"accepted", "refused"}
  BY <1>5
<1>8. ReadersAgree(fastReader, slowReader)'
  BY <1>1, <1>3 DEF ReadersAgree, Overflows, BitsAhead
<1> QED
  BY <1>1, <1>6, <1>7, <1>8 DEF ReaderInv, ReaderTypeOK

LEMMA ReaderStep == ReaderInv /\ [ReaderNext]_readerVars => ReaderInv'
<1> SUFFICES ASSUME ReaderInv, [ReaderNext]_readerVars PROVE ReaderInv'
  OBVIOUS
<1>1. CASE UNCHANGED readerVars
  BY <1>1 DEF readerVars, ReaderInv, ReaderTypeOK, ReadersAgree, Overflows, BitsAhead
<1>2. ASSUME NEW length \in SequenceStreams, NEW marker \in Markers,
             NEW count \in 1..MaxSequencesRead,
             NEW literalLog \in TableLogs, NEW offsetLog \in TableLogs, NEW matchLog \in TableLogs,
             OpenStream(length, marker, count, literalLog, offsetLog, matchLog)
      PROVE  ReaderInv'
  BY <1>2, OpenStreamKeeps
<1>3. ASSUME NEW offset \in OffsetBits, NEW match \in LengthBits, NEW literals \in LengthBits,
             NEW bits \in StateBits, ReadSequence(offset, match, literals, <<bits, bits, bits>>)
      PROVE  ReaderInv'
  BY <1>3, ReadSequenceKeeps
<1>4. CASE CloseStream
  BY <1>4, CloseStreamKeeps
<1>5. CASE StreamOver
  BY <1>1, <1>5 DEF StreamOver
<1> QED
  BY <1>1, <1>2, <1>3, <1>4, <1>5 DEF ReaderNext

THEOREM AlwaysReaderInv == ReaderSpec => []ReaderInv
<1>1. ReaderInit => ReaderInv
  BY ReadersInitially
<1>2. ReaderInv /\ [ReaderNext]_readerVars => ReaderInv'
  BY ReaderStep
<1> QED
  BY <1>1, <1>2, PTL DEF ReaderSpec

\* So the fast path, which looks for an overflow at its refills only, is at the
\* same bit as the slow one wherever that one goes on, takes no bit that its word
\* does not hold, and judges every stream alike.
THEOREM ReadersAlwaysAgree == ReaderSpec => []SequenceReadersAgree
<1>1. ReaderInv => SequenceReadersAgree
  <2> SUFFICES ASSUME ReaderInv PROVE SequenceReadersAgree
    OBVIOUS
  <2>1. ASSUME ~slowReader.overflowed, fastVerdict # "refused"
        PROVE  FastBitsLeft(fastReader) = BackwardBitsLeft(slowReader)
    <3>1. ReadersAgree(fastReader, slowReader)
      BY <2>1 DEF ReaderInv
    <3>2. /\ ~Overflows(fastReader)
          /\ BitsAhead(fastReader.position, fastReader.consumed)
               = slowReader.held + ByteBits * slowReader.byte
      BY <2>1, <3>1 DEF ReadersAgree
    <3>3. fastReader.position \in Nat /\ fastReader.consumed \in Nat /\ ByteBits \in Nat /\ WordBits \in Nat
      BY CursorSizes DEF ReaderInv, ReaderTypeOK, ContainerReaders
    <3>4. FastBitsLeft(fastReader) = ByteBits * fastReader.position + (WordBits - fastReader.consumed)
      BY <3>2, Zenon DEF FastBitsLeft
    <3>5. PICK ahead \in Nat : ahead = ByteBits * fastReader.position
      BY <3>3
    <3>6. ahead + (WordBits - fastReader.consumed) = ahead + WordBits - fastReader.consumed
      BY <3>3
    <3> QED
      BY <3>2, <3>4, <3>5, <3>6, Zenon DEF BackwardBitsLeft, BitsAhead
  <2>2. "reading" \notin {fastVerdict, slowVerdict} => fastVerdict = slowVerdict
    BY DEF ReaderInv, ReaderTypeOK
  <2> QED
    BY <2>1, <2>2, Zenon DEF SequenceReadersAgree, ReaderInv
<1> QED
  BY <1>1, AlwaysReaderInv, PTL
=============================================================================
