--------------------------- MODULE RepeatOffsets ---------------------------
(***************************************************************************)
(* The three recent match distances a frame carries, and the five pieces   *)
(* of code that turn an offset value into a distance or back:              *)
(*                                                                         *)
(*   GetOffset          RepeatOffsets::get_offset, the slow decoding path  *)
(*   FastGetOffset      block_decoder_fast.rs, the table-driven path       *)
(*   GetOffsetValue     RepeatOffsets::get_offset_value, Fast and Lazy2    *)
(*   RepeatCandidate    binary_tree_matcher.rs, what Ultra2 tries to match *)
(*   GetUpdatedRepeats  ultra2.rs, what Ultra2 carries along a parse       *)
(*                                                                         *)
(* A literal length matters only by being zero, so it is the flag          *)
(* noLiterals.  In every branch the distance a value stands for ends up in *)
(* "first", so the operators return the three distances alone.             *)
(***************************************************************************)
EXTENDS Integers

CONSTANT WordSize   \* 2^32 in the code: the wrap of a u32 subtraction

ASSUME WordSizeAssumption == WordSize \in Nat \ {0}

Triple == [first : Nat, second : Nat, third : Nat]

NewOffsets == [first |-> 1, second |-> 4, third |-> 8]

\* u32::wrapping_sub(1).
WrappingDecrement(n) == IF n = 0 THEN WordSize - 1 ELSE n - 1

NonZero(r) == r.first # 0 /\ r.second # 0 /\ r.third # 0

\* A distance enters at the front and the oldest one leaves.
Push(r, offset) == [first |-> offset, second |-> r.first, third |-> r.second]

SwapFirstTwo(r) == [first |-> r.second, second |-> r.first, third |-> r.third]

(***************************************************************************)
(* Decoding.  The definitions named Broken... are the bugs the runs must   *)
(* notice; nothing uses them.                                              *)
(***************************************************************************)
GetOffset(r, value, noLiterals) ==
  IF value > 3 THEN Push(r, value - 3)
  ELSE IF noLiterals
  THEN CASE value = 1 -> SwapFirstTwo(r)
         [] value = 2 -> Push(r, r.third)
         [] OTHER     -> Push(r, r.first - 1)
  ELSE CASE value = 1 -> r
         [] value = 2 -> SwapFirstTwo(r)
         [] OTHER     -> Push(r, r.third)

\* Broken: the third distance is replaced even if the second was taken.
BrokenFastRepeatOffset(r, value, noLiterals) ==
  LET repeatIndex == 1 + (IF noLiterals THEN 1 ELSE 0) + (value - 2)
      offset == CASE repeatIndex = 1 -> r.second
                  [] repeatIndex = 2 -> r.third
                  [] OTHER           -> WrappingDecrement(r.first)
  IN  IF value = 1
      THEN IF noLiterals THEN SwapFirstTwo(r) ELSE r
      ELSE Push(r, offset)

\* read_repeat_offset_unchecked: offset code 0 is the value 1, offset code 1
\* is the value 2 or 3 by the one bit that follows it.
FastRepeatOffset(r, value, noLiterals) ==
  LET repeatIndex == 1 + (IF noLiterals THEN 1 ELSE 0) + (value - 2)
      offset == CASE repeatIndex = 1 -> r.second
                  [] repeatIndex = 2 -> r.third
                  [] OTHER           -> WrappingDecrement(r.first)
  IN  IF value = 1
      THEN IF noLiterals THEN SwapFirstTwo(r) ELSE r
      ELSE [first  |-> offset,
            second |-> r.first,
            third  |-> IF repeatIndex # 1 THEN r.second ELSE r.third]

FastGetOffset(r, value, noLiterals) ==
  IF value > 3 THEN Push(r, value - 3) ELSE FastRepeatOffset(r, value, noLiterals)

(***************************************************************************)
(* Encoding.                                                               *)
(***************************************************************************)
\* The first of the three repeat values that stands for the distance, else the
\* distance itself, written past the three.
GetOffsetValue(r, offset, noLiterals) ==
  LET repeats == IF noLiterals THEN <<r.second, r.third, r.first - 1>>
                               ELSE <<r.first, r.second, r.third>>
  IN  IF offset = repeats[1] THEN 1
      ELSE IF offset = repeats[2] THEN 2
      ELSE IF offset = repeats[3] THEN 3
      ELSE IF offset = 0 THEN 4
      ELSE offset + 3

\* The distance the binary tree matcher tries for the repeat value 1, 2 or 3.
RepeatCandidate(r, value, noLiterals) ==
  LET repeatCode == value - 1 + (IF noLiterals THEN 1 ELSE 0)
  IN  CASE repeatCode = 0 -> r.first
        [] repeatCode = 1 -> r.second
        [] repeatCode = 2 -> r.third
        [] OTHER          -> WrappingDecrement(r.first)

\* Broken: the third distance survives when it was taken.
BrokenGetUpdatedRepeats(r, offsetBase, noLiterals) ==
  LET repeatCode == offsetBase - 1 + (IF noLiterals THEN 1 ELSE 0)
      offset == CASE repeatCode = 1 -> r.second
                  [] repeatCode = 2 -> r.third
                  [] OTHER          -> r.first - 1
  IN  CASE offsetBase > 3 -> Push(r, offsetBase - 3)
        [] offsetBase <= 3 /\ repeatCode = 0 -> r
        [] OTHER -> [first  |-> offset,
                     second |-> r.first,
                     third  |-> IF repeatCode > 2 THEN r.second ELSE r.third]

GetUpdatedRepeats(r, offsetBase, noLiterals) ==
  LET repeatCode == offsetBase - 1 + (IF noLiterals THEN 1 ELSE 0)
      offset == CASE repeatCode = 1 -> r.second
                  [] repeatCode = 2 -> r.third
                  [] OTHER          -> r.first - 1
  IN  CASE offsetBase > 3 -> Push(r, offsetBase - 3)
        [] offsetBase <= 3 /\ repeatCode = 0 -> r
        [] OTHER -> [first  |-> offset,
                     second |-> r.first,
                     third  |-> IF repeatCode >= 2 THEN r.second ELSE r.third]
=============================================================================
