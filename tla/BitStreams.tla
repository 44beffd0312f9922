----------------------------- MODULE BitStreams -----------------------------
(***************************************************************************)
(* Bit streams, as the entropy coders write and read them.  A stream is    *)
(* the sequence of its bits, the least significant bit of its first byte   *)
(* first, and a whole number of bytes long.                                *)
(*                                                                         *)
(* The 64-bit container that the readers of bits/ keep over the bytes is a *)
(* cache of the stream and is left out here; the one of the writers, which *)
(* may be too small, comes last.                                           *)
(***************************************************************************)
EXTENDS Integers, SequencesExt

\* The count low bits of a value, and the value of some bits.
Bits(value, count) == [i \in 1..count |-> (value \div 2^(i - 1)) % 2]
Number(bits) ==
  LET value[i \in 0..Len(bits)] == IF i = 0 THEN 0 ELSE value[i - 1] + bits[i] * 2^(i - 1)
  IN value[Len(bits)]

\* The element of a set of one.  The({F(x) : x \in {value}}) is F(value), with
\* the value worked out once; a LET would have TLC work it out at every use.
The(S) == CHOOSE x \in S : TRUE

\* Some pieces of a stream, from a to b, one after the other.
RECURSIVE Joined(_, _, _)
Joined(pieces, a, b) ==
  IF a > b THEN <<>>
  ELSE IF a = b THEN pieces[a]
  ELSE Joined(pieces, a, (a + b) \div 2) \o Joined(pieces, (a + b) \div 2 + 1, b)

Join(pieces) == Joined(pieces, 1, Len(pieces))

\* Bytes that hold so many bits.
BytesFor(count) == (count + 7) \div 8

\* ForwardBitWriter::finish: the last byte is filled with zeros.
WholeBytes(bits) == bits \o [i \in 1..(8 * BytesFor(Len(bits)) - Len(bits)) |-> 0]

\* BackwardBitWriter::finish: a set bit marks the end.
Marked(bits) == WholeBytes(Append(bits, 1))

(***************************************************************************)
(* ForwardBitReader: bits past the end of the input read as zero.          *)
(***************************************************************************)
BitsAt(stream, position, count) ==
  Number([i \in 1..count |-> IF position + i <= Len(stream) THEN stream[position + i] ELSE 0])

(***************************************************************************)
(* BackwardBitReader: from the marker down to the start.  Bits before the  *)
(* start read as zero, and reading one is an overflow.                     *)
(***************************************************************************)

\* BackwardBitReader::new refuses no bytes and a last byte without a marker.
HasMarker(stream) ==
  Len(stream) > 0 /\ \E i \in (Len(stream) - 7)..Len(stream) : stream[i] = 1

BitsBelowMarker(stream) == SelectLastInSeq(stream, LAMBDA bit : bit = 1) - 1

OpenBackward(stream) == [left |-> BitsBelowMarker(stream), overflowed |-> FALSE]

Peek(stream, reader, count) ==
  Number([i \in 1..count |->
            IF reader.left + i > count THEN stream[reader.left + i - count] ELSE 0])

Skip(reader, count) ==
  IF count <= reader.left THEN [reader EXCEPT !.left = @ - count]
  ELSE [left |-> 0, overflowed |-> TRUE]

\* is_finished: every bit was read, and none twice over.
ReadExactly(reader) == reader.left = 0 /\ ~reader.overflowed

-----------------------------------------------------------------------------
(***************************************************************************)
(* ForwardBitWriter, through which every stream of bits is written, and    *)
(* BackwardBitWriter, which adds a marker to it.  Bits gather in a         *)
(* container of 64 bits and leave it a byte at a time.  add_bits makes     *)
(* room first; add_bits_without_flush leaves that to its caller.           *)
(***************************************************************************)
ContainerBits == 64

\* The container is the set of the positions of its ones.
OpenWriter(room) ==
  [written |-> <<>>, container |-> {}, held |-> 0, room |-> room,
   refused |-> FALSE,      \* add_bits returned an error
   overflowed |-> FALSE]   \* has_overflowed

Ones(bits) == {i - 1 : i \in {i \in DOMAIN bits : bits[i] = 1}}

HeldBytes(w) == w.held \div 8

\* The whole bytes of the container go out; what was shifted out of it before
\* goes out as zeros.
Sent(w) ==
  LET count == 8 * HeldBytes(w)
  IN [w EXCEPT !.written = @ \o [i \in 1..count |-> IF i - 1 \in w.container THEN 1 ELSE 0],
               !.container = {b - count : b \in {b \in w.container : b >= count}},
               !.held = @ - count]

BytesSent(w) == Len(w.written) \div 8

\* flush_bytes has room, and bytes to copy.
CanFlushBytes(w) == BytesSent(w) + HeldBytes(w) <= w.room /\ HeldBytes(w) <= 8

Put(w, bits) ==
  [w EXCEPT !.container = @ \cup {w.held + b : b \in Ones(bits)}, !.held = @ + Len(bits)]

AddBits(w, bits) ==
  IF w.refused \/ bits = <<>> THEN w
  ELSE IF w.held + Len(bits) <= ContainerBits THEN Put(w, bits)
  ELSE IF CanFlushBytes(w) THEN Put(Sent(w), bits)
  ELSE [w EXCEPT !.refused = TRUE]

\* wrapping_shl: the distance is taken modulo the width, and what is shifted
\* past the end is lost.
AddBitsWithoutFlush(w, bits) ==
  LET distance == w.held % ContainerBits
  IN IF w.refused THEN w
     ELSE [w EXCEPT !.container = @ \cup ({distance + b : b \in Ones(bits)} \cap 0..(ContainerBits - 1)),
                    !.held = @ + Len(bits)]

\* All eight bytes are copied when there is room for them.
FlushWholeBytes(w) ==
  IF w.refused THEN w
  ELSE IF BytesSent(w) + 8 <= w.room \/ CanFlushBytes(w) THEN Sent(w)
  ELSE [w EXCEPT !.overflowed = TRUE]

\* BackwardBitWriter::finish.
FinishMarked(w) ==
  LET Rest(sent) == [i \in 1..8 |-> IF i - 1 \in sent.container THEN 1 ELSE 0]
      Closed(sent) ==
        IF sent.held = 0 THEN [ok |-> TRUE, bits |-> sent.written]
        ELSE IF BytesSent(sent) < sent.room THEN [ok |-> TRUE, bits |-> sent.written \o Rest(sent)]
        ELSE [ok |-> FALSE]
      With(marked) ==
        IF marked.refused \/ marked.overflowed \/ ~CanFlushBytes(marked) THEN [ok |-> FALSE]
        ELSE Closed(Sent(marked))
  IN With(AddBits(w, <<1>>))
=============================================================================
