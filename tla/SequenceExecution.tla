------------------------ MODULE SequenceExecution --------------------------
(***************************************************************************)
(* The sequences of compressed blocks carried out on the output: literals  *)
(* copied in, then a match copied from further back.  The code has a slow  *)
(* path that copies what it is asked to and a fast one that moves whole    *)
(* vectors, reading and writing past the end of what it needs.  Of a pair  *)
(* of blocks the second one's literals wait in the output, a fixed way     *)
(* ahead of where the first is being written.                              *)
(*                                                                         *)
(* A byte is a name that says where it comes from, so that a byte copied   *)
(* from the wrong place is seen.  One step moves one vector.  `text' is    *)
(* what copying byte by byte would have written so far.                    *)
(***************************************************************************)
EXTENDS Integers, Sequences

CONSTANTS
  Vector,         \* bytes of a vector: 16 in the code
  Slack,          \* FAST_PATH_SLACK: 32
  ReadSlack,      \* LITERALS_READ_SLACK: 16
  MaxBlock,       \* MAX_BLOCK_SIZE: 131,072
  OutputLengths,  \* lengths of output buffers
  Histories,      \* bytes of the frame in front of the first block
  LiteralCounts,  \* literals of a block
  PayloadRests,   \* bytes of a payload behind its raw literals
  LiteralLengths, MatchLengths, Offsets,  \* of a sequence
  MaxSequences,   \* bound: sequences of a block
  MaxBlocks       \* bound: blocks of a frame

ASSUME ExecutionAssumption ==
  /\ Vector \in Nat \ {0}
  /\ Slack \in Nat /\ Slack >= Vector
  /\ ReadSlack \in Nat /\ ReadSlack >= Vector
  /\ MaxBlock \in Nat
  /\ MaxSequences \in Nat /\ MaxBlocks \in Nat
  /\ OutputLengths \subseteq Nat
  /\ Histories \subseteq Nat
  /\ \A length \in OutputLengths, history \in Histories : history <= length
  /\ LiteralCounts \subseteq 0..MaxBlock
  /\ PayloadRests \subseteq Nat
  /\ LiteralLengths \subseteq Nat
  /\ MatchLengths \subseteq Nat \ {0}
  /\ Offsets \subseteq Nat

VARIABLES
  outputLength, \* of the output buffer: it never grows while blocks are executed
  output,       \* its bytes, from 0 on
  position,     \* bytes of it that are done
  blockStart,   \* output_position of the block being executed
  block,        \* the block being executed: its literals, its path, sequences left
  parked,       \* the second block of a pair, while its literals wait in the output
  cursor,       \* literal_cursor
  sequence,     \* the sequence being executed, with its `exact'
  moved,        \* bytes of the running copy that are done: `written' of a match
  step,         \* of the running match copy
  phase,        \* "frame", "block", "literals", "match", "copy" or "refused"
  begun,        \* blocks begun
  text,         \* history: the bytes a plain execution has written
  valid         \* history: the plain execution has refused nothing

executionVars == <<outputLength, output, position, blockStart, block, parked, cursor,
                   sequence, moved, step, phase, begun, text, valid>>

Literal(number, index) == <<number, index>>   \* of block `number'; 0 for history
Junk == <<0 - 1, 0>>                          \* whatever else memory holds

\* Broken: room for the first block, but not for what its vectors overshoot.
BrokenPairedLiteralsDistance == MaxBlock

PairedLiteralsDistance == 2 * MaxBlock + 2 * Slack
PairedOutputRoom == PairedLiteralsDistance + MaxBlock + ReadSlack
LiteralsBufferLength == MaxBlock + Slack

\* A block with its literals: where they are, how many, how many bytes can be
\* read from the first one on before the allocation they lie in may end.
Block(number, source, count, readable, start, path, left) ==
  [number |-> number, source |-> source, count |-> count, readable |-> readable,
   start |-> start, path |-> path, left |-> left]

NoBlock == Block(0, "none", 0, 0, 0, "slow", 0)
NoSequence == [literals |-> 0, match |-> 0, offset |-> 0, exact |-> TRUE]

ExecutionInit ==
  /\ outputLength \in OutputLengths
  /\ position \in Histories
  /\ output = [i \in 0..outputLength - 1 |-> IF i < position THEN Literal(0, i) ELSE Junk]
  /\ text = [i \in 1..position |-> Literal(0, i - 1)]
  /\ blockStart = position
  /\ block = NoBlock /\ parked = NoBlock
  /\ cursor = 0 /\ sequence = NoSequence /\ moved = 0 /\ step = 0
  /\ phase = "frame" /\ begun = 0 /\ valid = TRUE
-----------------------------------------------------------------------------
(* Memory                                                                  *)

\* A byte of the output, or what lies behind it.
ByteAt(i) == IF i \in 0..outputLength - 1 THEN output[i] ELSE Junk

\* Literal i of block b as its memory has it; all of RLE literals are one byte.
LoadLiteral(b, i) ==
  IF b.source = "parked" THEN ByteAt(b.start + i)
  ELSE IF b.source = "rle" THEN Literal(b.number, 0)
  ELSE IF i < b.count THEN Literal(b.number, i)
  ELSE Junk

\* The output after `length' bytes were stored from `start' on.
Stored(start, length, Byte(_)) ==
  [i \in 0..outputLength - 1 |->
     IF i \in start..start + length - 1 THEN Byte(i - start) ELSE output[i]]
-----------------------------------------------------------------------------
(* The plain execution                                                     *)

PlainLiteral(i) == IF block.source = "rle" THEN Literal(block.number, 0)
                                           ELSE Literal(block.number, i)

PlainLiterals(length) == [i \in 1..length |-> PlainLiteral(cursor + i - 1)]

\* A match repeats the `offset' bytes in front of it as often as it is long.
PlainMatch(bytes, length, offset) ==
  [i \in 1..length |-> bytes[Len(bytes) - offset + 1 + ((i - 1) % offset)]]

\* What a sequence has to satisfy, whoever executes it.
PlainAccepts(literals, match, offset) ==
  /\ cursor + literals <= block.count
  /\ position + literals + match - blockStart <= MaxBlock
  /\ position + literals + match <= outputLength
  /\ match > 0 => offset \in 1..position + literals

PlainExecute(literals, match, offset) ==
  /\ valid' = PlainAccepts(literals, match, offset)
  /\ text' = IF ~PlainAccepts(literals, match, offset) THEN text
             ELSE LET bytes == text \o PlainLiterals(literals)
                  IN  IF match = 0 THEN bytes
                                   ELSE bytes \o PlainMatch(bytes, match, offset)
-----------------------------------------------------------------------------
(* Blocks                                                                  *)

\* Broken: literals of the payload are read from whatever follows them.
BrokenHasReadSlack(source, rest) == source # "rle"

\* Which literals the fast path takes: those with a vector to read behind them.
HasReadSlack(source, rest) ==
  \/ source \in {"decoded", "parked"}
  \/ source = "raw" /\ rest >= ReadSlack

\* Without sequences there is nothing for the fast path, and bit streams of
\* less than eight bytes are left to the slow one.
PathsOf(source, rest, left) ==
  IF left > 0 /\ HasReadSlack(source, rest) THEN {"slow", "fast"} ELSE {"slow"}

Readable(source, count, rest) ==
  CASE source = "raw"     -> count + rest
    [] source = "decoded" -> LiteralsBufferLength
    [] source = "rle"     -> 0

\* decode_compressed_block.
StartBlock(source, count, rest, left) ==
  /\ phase = "frame" /\ begun < MaxBlocks
  /\ \E path \in PathsOf(source, rest, left) :
       block' = Block(begun + 1, source, count, Readable(source, count, rest), 0, path, left)
  /\ begun' = begun + 1
  /\ blockStart' = position
  /\ cursor' = 0
  /\ phase' = "block"
  /\ UNCHANGED <<outputLength, output, position, parked, sequence, moved, step, text, valid>>

\* decode_compressed_block_pair: the literals of both are decoded, the second
\* block's to their place in the output, and then both blocks are executed.
StartPair(count, left, parkedCount, parkedLeft) ==
  LET start == position + PairedLiteralsDistance
  IN  /\ phase = "frame" /\ begun + 1 < MaxBlocks
      /\ outputLength >= position + PairedOutputRoom
      /\ \E path \in PathsOf("decoded", 0, left) :
           block' = Block(begun + 1, "decoded", count, LiteralsBufferLength, 0, path, left)
      /\ \E path \in PathsOf("parked", 0, parkedLeft) :
           parked' = Block(begun + 2, "parked", parkedCount, outputLength - start, start,
                           path, parkedLeft)
      /\ output' = Stored(start, parkedCount, LAMBDA i : Literal(begun + 2, i))
      /\ begun' = begun + 2
      /\ blockStart' = position
      /\ cursor' = 0
      /\ phase' = "block"
      /\ UNCHANGED <<outputLength, position, sequence, moved, step, text, valid>>

\* Behind a block comes the parked one, or whatever the frame has next.
EndBlock ==
  IF parked = NoBlock
  THEN phase' = "frame" /\ block' = NoBlock /\ UNCHANGED <<parked, blockStart, cursor>>
  ELSE /\ phase' = "block" /\ block' = parked /\ parked' = NoBlock
       /\ blockStart' = position' /\ cursor' = 0
-----------------------------------------------------------------------------
(* Sequences                                                               *)

Refuse ==
  /\ phase' = "refused"
  /\ UNCHANGED <<output, position, blockStart, block, parked, cursor, sequence, moved, step>>

\* What a path looks at before it copies anything.  The fast path knows the
\* whole of the sequence fits; the slow one looks at the literals alone.
TooMuch(literals, match) ==
  \/ cursor + literals > block.count
  \/ position + literals > outputLength
  \/ /\ block.path = "fast"
     /\ \/ position + literals + match - blockStart > MaxBlock
        \/ position + literals + match > outputLength

\* Literals are copied exactly when the vectors could pass the end.
Exact(end) == block.path = "slow" \/ outputLength - end < Slack

\* The next sequence of the bit stream: of execute_sequence_unchecked, or of
\* the loop of decode_sequences_section.
NextSequence(literals, match, offset) ==
  /\ phase = "block" /\ block.left > 0
  /\ PlainExecute(literals, match, offset)
  /\ IF TooMuch(literals, match) THEN Refuse
     ELSE /\ sequence' = [literals |-> literals, match |-> match, offset |-> offset,
                          exact |-> Exact(position + literals + match)]
          /\ block' = [block EXCEPT !.left = @ - 1]
          /\ phase' = IF literals = 0 THEN "match" ELSE "literals"
          /\ UNCHANGED <<output, position, blockStart, parked, cursor, moved, step>>
  /\ UNCHANGED <<outputLength, begun>>

\* Behind the last sequence: the literals that are left.
LastLiterals ==
  LET literals == block.count - cursor
  IN  /\ phase = "block" /\ block.left = 0
      /\ PlainExecute(literals, 0, 0)
      /\ IF literals = 0
         THEN UNCHANGED <<output, position, sequence, moved, step>> /\ EndBlock
         ELSE IF TooMuch(literals, 0) THEN Refuse
         ELSE /\ sequence' = [literals |-> literals, match |-> 0, offset |-> 0,
                              exact |-> Exact(position + literals)]
              /\ phase' = "literals"
              /\ UNCHANGED <<output, position, blockStart, block, parked, cursor, moved, step>>
      /\ UNCHANGED <<outputLength, begun>>

\* The slow path finds out only now that a block is too large.
TooLarge(end) == block.path = "slow" /\ end - blockStart > MaxBlock

\* copy_literals_unchecked, a vector at a time, or take_literals.
MoveLiterals ==
  LET width == IF sequence.exact THEN sequence.literals ELSE Vector
      end   == position + sequence.literals
  IN  /\ phase = "literals"
      /\ output' = Stored(position + moved, width,
                          LAMBDA i : LoadLiteral(block, cursor + moved + i))
      /\ IF moved + width < sequence.literals
         THEN /\ moved' = moved + width
              /\ UNCHANGED <<position, blockStart, block, parked, cursor, phase>>
         ELSE /\ moved' = 0
              /\ position' = end
              /\ IF sequence.match > 0
                 THEN /\ cursor' = cursor + sequence.literals
                      /\ phase' = "match"
                      /\ UNCHANGED <<blockStart, block, parked>>
                 ELSE IF TooLarge(end)
                 THEN phase' = "refused" /\ UNCHANGED <<blockStart, block, parked, cursor>>
                 ELSE EndBlock
      /\ UNCHANGED <<outputLength, sequence, step, begun, text, valid>>

\* The sequence is done at `end'.
EndSequence(end) ==
  /\ position' = end
  /\ phase' = IF TooLarge(end) THEN "refused" ELSE "block"
  /\ moved' = 0 /\ step' = 0

\* copy_match, and what the fast path does in its place: with room behind the
\* match whole vectors are copied, else exactly what is asked for.
BeginMatch ==
  LET end == position + sequence.match
  IN  /\ phase = "match"
      /\ IF sequence.offset \notin 1..position \/ end > outputLength THEN Refuse
         ELSE /\ IF outputLength - end >= Slack
                 THEN /\ phase' = "copy" /\ moved' = 0 /\ step' = sequence.offset
                      /\ UNCHANGED <<output, position>>
                 ELSE /\ output' = Stored(position, sequence.match, LAMBDA i :
                                     output[position - sequence.offset + (i % sequence.offset)])
                      /\ EndSequence(end)
              /\ UNCHANGED <<blockStart, block, parked, cursor, sequence>>
      /\ UNCHANGED <<outputLength, begun, text, valid>>

\* Broken: the distance doubles even where it is a whole vector.
BrokenNextStep(distance) == 2 * distance

NextStep(distance) == IF distance < Vector THEN 2 * distance ELSE distance

\* copy_match_overshoot_unchecked: while the distance is shorter than a vector
\* only `step' bytes of each are right, and the distance doubles.
MoveMatch ==
  LET from == position + moved - step
      done == moved + (IF step < Vector THEN step ELSE Vector)
      end  == position + sequence.match
  IN  /\ phase = "copy"
      /\ output' = Stored(position + moved, Vector, LAMBDA i : ByteAt(from + i))
      /\ IF done < sequence.match
         THEN /\ moved' = done
              /\ step' = NextStep(step)
              /\ UNCHANGED <<position, phase>>
         ELSE EndSequence(end)
      /\ UNCHANGED <<outputLength, blockStart, block, parked, cursor, sequence, begun,
                     text, valid>>

\* The frame is refused, or there are no more blocks.
ExecutionOver ==
  /\ phase = "refused" \/ (phase = "frame" /\ begun = MaxBlocks)
  /\ UNCHANGED executionVars

ExecutionNext ==
  \/ \E source \in {"raw", "rle", "decoded"}, count \in LiteralCounts,
        rest \in PayloadRests, left \in 0..MaxSequences :
       StartBlock(source, count, rest, left)
  \/ \E count, parkedCount \in LiteralCounts, left, parkedLeft \in 0..MaxSequences :
       StartPair(count, left, parkedCount, parkedLeft)
  \/ \E literals \in LiteralLengths, match \in MatchLengths, offset \in Offsets :
       NextSequence(literals, match, offset)
  \/ LastLiterals \/ MoveLiterals \/ BeginMatch \/ MoveMatch
  \/ ExecutionOver

ExecutionSpec == ExecutionInit /\ [][ExecutionNext]_executionVars
-----------------------------------------------------------------------------
\* What is done of the output is, byte for byte, what copying without vectors
\* would have written, on either path and for every source of literals; and a
\* frame is refused exactly when one of its sequences cannot be executed.
OutputIsPlain ==
  /\ valid => \A i \in 0..position - 1 : output[i] = text[i + 1]
  /\ phase \in {"frame", "block"} => valid /\ position = Len(text)
  /\ phase = "refused" => ~valid

\* No vector is read or written past the end of the allocation it lies in:
\* this is what the paths look at `exact' and at the slack for.
VectorsStayInside ==
  /\ phase = "literals" =>
       LET width == IF sequence.exact THEN sequence.literals ELSE Vector
       IN  /\ position + moved + width <= outputLength
           /\ block.source # "rle" => cursor + moved + width <= block.readable
  /\ phase = "copy" =>
       /\ position + moved + Vector <= outputLength
       /\ 0 <= position + moved - step

\* While the first block of a pair is executed, no copy reaches the literals of
\* the second one, which it will read from the output only later.
ParkedLiteralsSurvive ==
  (parked # NoBlock /\ phase # "refused" /\ valid) =>
    \A i \in 0..parked.count - 1 : output[parked.start + i] = Literal(parked.number, i)
=============================================================================
