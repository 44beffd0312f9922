--------------------------- MODULE BitContainers ---------------------------
(***************************************************************************)
(* The containers of FastBitReader and of BackwardBitReader: a word of the *)
(* stream, and how much of it is used up.  Both read a stream from its     *)
(* last byte down to its first; `position' and `byte' are the bytes of the *)
(* stream in front of the word.                                            *)
(*                                                                         *)
(* A stream is known by its bytes and by its marker: the bits of its last  *)
(* byte from the top one to the highest that is set.                       *)
(***************************************************************************)
EXTENDS Integers

CONSTANTS
  ByteBits,   \* 8
  WordBytes   \* 8

ASSUME ContainerAssumption ==
  /\ ByteBits \in Nat \ {0}
  /\ WordBytes \in Nat \ {0}

WordBits == ByteBits * WordBytes

Markers == 1..ByteBits

Least(m, n) == IF m < n THEN m ELSE n

\* The bits below the marker.
StreamBits(length, marker) == ByteBits * length - marker
-----------------------------------------------------------------------------
(* FastBitReader                                                           *)

\* new_unchecked, and new_padded_unchecked where a word is longer than the
\* stream: bits that are not there count as used.
OpenFast(length, marker) ==
  IF length >= WordBytes
  THEN [position |-> length - WordBytes, consumed |-> marker]
  ELSE [position |-> 0, consumed |-> marker + ByteBits * (WordBytes - length)]

\* skip, and read with it: nothing is looked at before the next refill.
SkipFast(r, count) == [r EXCEPT !.consumed = @ + count]

\* ReloadStatus::Overflow.
Overflows(r) == r.consumed > WordBits

\* Broken: the last bytes of a stream are reloaded as if there were more.
BrokenRefill(r) ==
  IF Overflows(r) THEN r
  ELSE [position |-> r.position - r.consumed \div ByteBits, consumed |-> r.consumed % ByteBits]

\* refill_unchecked: whole bytes that are used up leave the word, but a word
\* never starts in front of the stream.
Refill(r) ==
  IF Overflows(r) THEN r
  ELSE LET used  == r.consumed \div ByteBits
           bytes == IF r.position >= WordBytes THEN used ELSE Least(used, r.position)
       IN  [position |-> r.position - bytes, consumed |-> r.consumed - ByteBits * bytes]

FastIsFinished(r) == r.position = 0 /\ r.consumed = WordBits

FastBitsLeft(r) ==
  ByteBits * r.position + (IF Overflows(r) THEN 0 ELSE WordBits - r.consumed)

\* So many bits lie in the word; at the front of a stream nothing more could.
FastSees(r, count) == r.consumed + count <= WordBits \/ r.position = 0
-----------------------------------------------------------------------------
(* BackwardBitReader                                                       *)

OpenBackward(length, marker) ==
  LET byte == length - Least(length, WordBytes)
  IN  [byte |-> byte, held |-> StreamBits(length, marker) - ByteBits * byte, overflowed |-> FALSE]

\* load_more_bytes: as many bytes as there is room for, and as there are.
LoadMoreBytes(b) ==
  LET bytes == Least(b.byte, (WordBits - b.held) \div ByteBits)
  IN  IF b.held > WordBits - ByteBits THEN b
      ELSE [b EXCEPT !.byte = @ - bytes, !.held = @ + ByteBits * bytes]

\* What peek_bits and skip_bits do first.
Prepared(b, count) == IF count > b.held THEN LoadMoreBytes(b) ELSE b

\* skip_bits, and read_bits with it.
SkipBackward(b, count) ==
  LET p == Prepared(b, count)
  IN  IF count <= p.held THEN [p EXCEPT !.held = @ - count]
                         ELSE [p EXCEPT !.held = 0, !.overflowed = TRUE]

BackwardBitsLeft(b) == b.held + ByteBits * b.byte

BackwardIsFinished(b) == BackwardBitsLeft(b) = 0 /\ ~b.overflowed

=============================================================================
