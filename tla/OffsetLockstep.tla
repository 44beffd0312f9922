-------------------------- MODULE OffsetLockstep ---------------------------
(***************************************************************************)
(* The repeat offsets of one encoder and of the two decoding paths while   *)
(* sequences go by.  The encoder changes its finder at will, because all   *)
(* finders keep their distances in the same RepeatOffsets; the decoder     *)
(* changes its path at every block.  "slow" and "fast" are therefore what  *)
(* the one RepeatOffsets of the decoder would hold had it always taken     *)
(* that path, and the two must not be told apart.                          *)
(***************************************************************************)
EXTENDS RepeatOffsets

CONSTANT MaxOffset  \* bound: the largest distance a finder proposes

ASSUME MaxOffsetAssumption == MaxOffset \in Nat \ {0}

VARIABLES
  encoder,   \* EncodeWorkspace::repeat_offsets
  slow,      \* BlockWorkspace::repeat_offsets along the slow path
  fast,      \* BlockWorkspace::repeat_offsets along the fast path
  asked,     \* history: the distance of the encoder's last sequence, 0 at first
  damaged,   \* history: the decoder was fed a sequence no encoder wrote
  status     \* "running", or "bad" once BadOffset ended the frame

vars == <<encoder, slow, fast, asked, damaged, status>>

Distances == 1..MaxOffset

Init ==
  /\ encoder = NewOffsets
  /\ slow = NewOffsets
  /\ fast = NewOffsets
  /\ asked = 0
  /\ damaged = FALSE
  /\ status = "running"

\* Both decoding paths resolve a value, keep the result, then refuse zero.
Decode(value, noLiterals) ==
  /\ slow' = GetOffset(slow, value, noLiterals)
  /\ fast' = FastGetOffset(fast, value, noLiterals)
  /\ status' = IF slow'.first = 0 \/ fast'.first = 0 THEN "bad" ELSE "running"

\* Fast or Lazy2 stores a match at this distance (SequenceList::add).
StoreSequence(offset, noLiterals) ==
  LET value == GetOffsetValue(encoder, offset, noLiterals)
  IN  /\ status = "running" /\ ~damaged
      /\ encoder' = GetOffset(encoder, value, noLiterals)
      /\ asked' = offset
      /\ Decode(value, noLiterals)
      /\ UNCHANGED damaged

\* Ultra2 stores a match it found in the tree: always as a new distance.
StoreTreeMatch(offset, noLiterals) ==
  /\ status = "running" /\ ~damaged
  /\ encoder' = GetUpdatedRepeats(encoder, offset + 3, noLiterals)
  /\ asked' = offset
  /\ Decode(offset + 3, noLiterals)
  /\ UNCHANGED damaged

\* Broken: a candidate of zero is not refused.
BrokenStoreRepeatMatch(value, noLiterals) ==
  LET offset == RepeatCandidate(encoder, value, noLiterals)
  IN  /\ status = "running" /\ ~damaged
      /\ encoder' = GetUpdatedRepeats(encoder, value, noLiterals)
      /\ asked' = offset
      /\ Decode(value, noLiterals)
      /\ UNCHANGED damaged

\* Ultra2 stores a match at one of the three repeat candidates; candidate 0
\* fails the test repeat_offset.wrapping_sub(1) < history_length.
StoreRepeatMatch(value, noLiterals) ==
  LET offset == RepeatCandidate(encoder, value, noLiterals)
  IN  /\ status = "running" /\ ~damaged
      /\ offset # 0
      /\ encoder' = GetUpdatedRepeats(encoder, value, noLiterals)
      /\ asked' = offset
      /\ Decode(value, noLiterals)
      /\ UNCHANGED damaged

\* The decoder meets a sequence of a frame that no encoder wrote.
DecodeForeign(value, noLiterals) ==
  /\ status = "running"
  /\ damaged' = TRUE
  /\ Decode(value, noLiterals)
  /\ UNCHANGED <<encoder, asked>>

\* A new frame: compress() and reset_history() start again from (1, 4, 8).
NewFrame ==
  /\ encoder' = NewOffsets
  /\ slow' = NewOffsets
  /\ fast' = NewOffsets
  /\ asked' = 0
  /\ damaged' = FALSE
  /\ status' = "running"

Next ==
  \/ \E offset \in Distances, noLiterals \in BOOLEAN : StoreSequence(offset, noLiterals)
  \/ \E offset \in Distances, noLiterals \in BOOLEAN : StoreTreeMatch(offset, noLiterals)
  \/ \E value \in 1..3, noLiterals \in BOOLEAN : StoreRepeatMatch(value, noLiterals)
  \/ \E value \in 1..MaxOffset + 3, noLiterals \in BOOLEAN : DecodeForeign(value, noLiterals)
  \/ NewFrame

Spec == Init /\ [][Next]_vars

-----------------------------------------------------------------------------
TypeOK ==
  /\ encoder \in Triple
  /\ slow \in Triple
  /\ fast \in Triple
  /\ asked \in Nat
  /\ damaged \in BOOLEAN
  /\ status \in {"running", "bad"}

\* The two decoding paths hold the same distances after every sequence of
\* every frame, whoever wrote it: repeat_offsets.rs against the bit tricks of
\* block_decoder_fast.rs, the wrapping subtraction included.
PathsAgree == slow = fast

\* On a frame the encoder wrote, the decoder holds the encoder's distances,
\* whichever of the two encoding codes (get_offset_value, get_updated_repeats)
\* wrote each sequence.
EncoderAgrees == ~damaged => slow = encoder

\* Every value the encoder writes is resolved to the distance it was written
\* for: the repeat value chosen first is the right one of the aliases.
ResolvesAsAsked == (~damaged /\ asked # 0) => slow.first = asked

\* No later sequence of a frame can reach a zero distance: it exists only
\* after BadOffset has ended the frame, so first - 1 never underflows.
ZeroEndsTheFrame ==
  status = "running" => NonZero(encoder) /\ NonZero(slow) /\ NonZero(fast)

\* BadOffset is never the answer to a frame the encoder wrote.
OwnFramesDecode == status = "bad" => damaged

\* Sequences the encoder wrote are decoded, each at the distance it was written
\* for.
OwnFramesResolve == OwnFramesDecode /\ ResolvesAsAsked

\* The conjunction is inductive.
IInv ==
  /\ TypeOK
  /\ PathsAgree
  /\ EncoderAgrees
  /\ ResolvesAsAsked
  /\ ZeroEndsTheFrame
  /\ OwnFramesDecode
=============================================================================
