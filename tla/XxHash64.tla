------------------------------ MODULE XxHash64 ------------------------------
(***************************************************************************)
(* The hasher of the content checksum.  It takes its input in stripes and  *)
(* keeps what does not fill one until more comes, so it must not matter    *)
(* how the input was cut into calls.  What is mixed into a lane or into    *)
(* the accumulator is listed in order and not computed: two digests are    *)
(* the same if the same words went the same ways.                          *)
(***************************************************************************)
EXTENDS Integers, Sequences

CONSTANTS
  LaneCount,    \* 4
  WordLength,   \* bytes mixed into a lane at once: 8
  HalfLength    \* bytes mixed in at once where a word is too long: 4

HashAssumption ==
  /\ LaneCount \in Nat \ {0}
  /\ HalfLength \in Nat \ {0} /\ WordLength \in Nat /\ WordLength > HalfLength

StripeLength == LaneCount * WordLength

\* `pending' is the part of the array that pending_count covers.
NewHasher == [lanes |-> [lane \in 1..LaneCount |-> <<>>], pending |-> <<>>, total |-> 0]

\* Piece i of these bytes cut into pieces of this length.
Piece(bytes, length, i) == SubSeq(bytes, (i - 1) * length + 1, i * length)

Pieces(bytes, length) == [i \in 1..(Len(bytes) \div length) |-> Piece(bytes, length, i)]

Behind(bytes, count) == SubSeq(bytes, count + 1, Len(bytes))

\* Every lane takes its word of every stripe, in order.
ProcessStripes(h, stripes) ==
  [h EXCEPT !.lanes = [lane \in 1..LaneCount |->
     @[lane] \o [i \in 1..Len(stripes) |-> Piece(stripes[i], WordLength, lane)]]]

\* What is left of update once nothing is pending.
TakeStripes(h, bytes) ==
  LET stripes == Pieces(bytes, StripeLength)
  IN  [ProcessStripes(h, stripes) EXCEPT !.pending = Behind(bytes, Len(stripes) * StripeLength)]

\* Broken: a stripe that a call completes to its last byte is not mixed in.
BrokenUpdate(h, bytes) ==
  LET counted == [h EXCEPT !.total = @ + Len(bytes)]
      space   == StripeLength - Len(h.pending)
  IN  IF h.pending = <<>> THEN TakeStripes(counted, bytes)
      ELSE IF Len(bytes) <= space THEN [counted EXCEPT !.pending = @ \o bytes]
      ELSE TakeStripes(ProcessStripes(counted, <<h.pending \o SubSeq(bytes, 1, space)>>),
                       Behind(bytes, space))

Update(h, bytes) ==
  LET counted == [h EXCEPT !.total = @ + Len(bytes)]
      space   == StripeLength - Len(h.pending)
  IN  IF h.pending = <<>> THEN TakeStripes(counted, bytes)
      ELSE IF Len(bytes) < space THEN [counted EXCEPT !.pending = @ \o bytes]
      ELSE TakeStripes(ProcessStripes(counted, <<h.pending \o SubSeq(bytes, 1, space)>>),
                       Behind(bytes, space))

\* finish: the lanes if there was a stripe, the length, then words, at most one
\* half word, and single bytes of what is pending.
Digest(h) ==
  LET words  == Pieces(h.pending, WordLength)
      behind == Behind(h.pending, Len(words) * WordLength)
      halves == IF Len(behind) >= HalfLength THEN <<SubSeq(behind, 1, HalfLength)>> ELSE <<>>
      single == Behind(behind, Len(halves) * HalfLength)
  IN  [lanes |-> IF h.total >= StripeLength THEN h.lanes ELSE <<>>, length |-> h.total,
       words |-> words, halves |-> halves, single |-> single]

\* hash_bytes, and what decompress_checked does with a frame's content.
HashBytes(bytes) == Digest(Update(NewHasher, bytes))
=============================================================================
