----------------------- MODULE OffsetLockstepProofs ------------------------
(***************************************************************************)
(* The five implementations of the repeat offsets agree, for every triple, *)
(* value and distance, and with them the invariants of OffsetLockstep.     *)
(***************************************************************************)
EXTENDS OffsetLockstep, TLAPS

\* Decoding keeps the triple a triple of naturals.
LEMMA GetOffsetType ==
  ASSUME NEW r \in Triple, r.first # 0,
         NEW value \in Nat \ {0}, NEW noLiterals \in BOOLEAN
  PROVE  GetOffset(r, value, noLiterals) \in Triple
<1>1. value > 3 \/ value = 1 \/ value = 2 \/ value = 3
  OBVIOUS
<1>2. CASE value > 3
  BY <1>2 DEF GetOffset, Push, SwapFirstTwo, Triple
<1>3. CASE value = 1
  BY <1>3 DEF GetOffset, Push, SwapFirstTwo, Triple
<1>4. CASE value = 2
  BY <1>4 DEF GetOffset, Push, SwapFirstTwo, Triple
<1>5. CASE value = 3
  BY <1>5 DEF GetOffset, Push, SwapFirstTwo, Triple
<1> QED
  BY <1>1, <1>2, <1>3, <1>4, <1>5

\* A distance of zero can only come in at the front.
LEMMA ZeroComesFirst ==
  ASSUME NEW r \in Triple, NonZero(r),
         NEW value \in Nat \ {0}, NEW noLiterals \in BOOLEAN
  PROVE  /\ GetOffset(r, value, noLiterals).second # 0
         /\ GetOffset(r, value, noLiterals).third # 0
<1>1. value > 3 \/ value = 1 \/ value = 2 \/ value = 3
  OBVIOUS
<1>2. CASE value > 3
  BY <1>2 DEF GetOffset, Push, SwapFirstTwo, Triple, NonZero
<1>3. CASE value = 1
  BY <1>3 DEF GetOffset, Push, SwapFirstTwo, Triple, NonZero
<1>4. CASE value = 2
  BY <1>4 DEF GetOffset, Push, SwapFirstTwo, Triple, NonZero
<1>5. CASE value = 3
  BY <1>5 DEF GetOffset, Push, SwapFirstTwo, Triple, NonZero
<1> QED
  BY <1>1, <1>2, <1>3, <1>4, <1>5

\* The fast path is the slow path, as long as first - 1 does not wrap.
LEMMA FastIsSlow ==
  ASSUME NEW r \in Triple, r.first # 0,
         NEW value \in Nat \ {0}, NEW noLiterals \in BOOLEAN
  PROVE  FastGetOffset(r, value, noLiterals) = GetOffset(r, value, noLiterals)
<1> USE DEF FastGetOffset, FastRepeatOffset, GetOffset, Push, SwapFirstTwo,
            WrappingDecrement, Triple
<1>1. value > 3 \/ value = 1 \/ value = 2 \/ value = 3
  OBVIOUS
<1>2. CASE value > 3
  BY <1>2
<1>3. CASE value = 1
  BY <1>3
<1>4. CASE value = 2
  BY <1>4
<1>5. CASE value = 3
  BY <1>5
<1> QED
  BY <1>1, <1>2, <1>3, <1>4, <1>5

\* What Ultra2 carries along a parse is what the decoder will hold.
LEMMA UpdatedRepeatsIsGetOffset ==
  ASSUME NEW r \in Triple, r.first # 0,
         NEW value \in Nat \ {0}, NEW noLiterals \in BOOLEAN
  PROVE  GetUpdatedRepeats(r, value, noLiterals) = GetOffset(r, value, noLiterals)
<1> USE DEF GetUpdatedRepeats, GetOffset, Push, SwapFirstTwo, Triple
<1>1. value > 3 \/ value = 1 \/ value = 2 \/ value = 3
  OBVIOUS
<1>2. CASE value > 3
  BY <1>2
<1>3. CASE value = 1
  BY <1>3
<1>4. CASE value = 2
  BY <1>4
<1>5. CASE value = 3
  BY <1>5
<1> QED
  BY <1>1, <1>2, <1>3, <1>4, <1>5

\* The candidate Ultra2 matched is the distance the decoder resolves.
LEMMA CandidateIsResolved ==
  ASSUME NEW r \in Triple, r.first # 0,
         NEW value \in 1..3, NEW noLiterals \in BOOLEAN
  PROVE  GetOffset(r, value, noLiterals).first = RepeatCandidate(r, value, noLiterals)
<1> USE DEF GetOffset, RepeatCandidate, WrappingDecrement, Push, SwapFirstTwo, Triple
<1>1. value = 1 \/ value = 2 \/ value = 3
  OBVIOUS
<1>2. CASE value = 1
  BY <1>2
<1>3. CASE value = 2
  BY <1>3
<1>4. CASE value = 3
  BY <1>4
<1> QED
  BY <1>1, <1>2, <1>3, <1>4

\* Encoding a distance and decoding the value gives the distance back.
LEMMA RoundTrip ==
  ASSUME NEW r \in Triple, r.first # 0,
         NEW offset \in Nat \ {0}, NEW noLiterals \in BOOLEAN
  PROVE  /\ GetOffsetValue(r, offset, noLiterals) \in Nat \ {0}
         /\ GetOffset(r, GetOffsetValue(r, offset, noLiterals), noLiterals).first = offset
<1> DEFINE value == GetOffsetValue(r, offset, noLiterals)
<1>1. CASE noLiterals
  <2>1. \/ value = 1 /\ offset = r.second
        \/ value = 2 /\ offset = r.third
        \/ value = 3 /\ offset = r.first - 1
        \/ value = offset + 3
    BY <1>1 DEF GetOffsetValue, Triple
  <2> HIDE DEF value
  <2>2. value \in Nat \ {0} /\ GetOffset(r, value, noLiterals).first = offset
    BY <1>1, <2>1 DEF GetOffset, Push, SwapFirstTwo, Triple
  <2> QED
    BY <2>2 DEF value
<1>2. CASE ~noLiterals
  <2>1. \/ value = 1 /\ offset = r.first
        \/ value = 2 /\ offset = r.second
        \/ value = 3 /\ offset = r.third
        \/ value = offset + 3
    BY <1>2 DEF GetOffsetValue, Triple
  <2> HIDE DEF value
  <2>2. value \in Nat \ {0} /\ GetOffset(r, value, noLiterals).first = offset
    BY <1>2, <2>1 DEF GetOffset, Push, SwapFirstTwo, Triple
  <2> QED
    BY <2>2 DEF value
<1> QED
  BY <1>1, <1>2

-----------------------------------------------------------------------------
\* One sequence through both paths, from a state where they agree.
LEMMA DecodeStep ==
  ASSUME IInv, status = "running",
         NEW value \in Nat \ {0}, NEW noLiterals \in BOOLEAN,
         Decode(value, noLiterals)
  PROVE  /\ slow' = GetOffset(slow, value, noLiterals)
         /\ fast' = slow'
         /\ slow' \in Triple
         /\ slow'.second # 0 /\ slow'.third # 0
         /\ status' = IF slow'.first = 0 THEN "bad" ELSE "running"
<1>1. slow \in Triple /\ slow = fast /\ NonZero(slow)
  BY DEF IInv, TypeOK, PathsAgree, ZeroEndsTheFrame, NonZero
<1>2. slow' = GetOffset(slow, value, noLiterals)
  BY DEF Decode
<1>3. fast' = slow'
  BY <1>1, <1>2, FastIsSlow DEF Decode, NonZero
<1>4. slow' \in Triple
  BY <1>1, <1>2, GetOffsetType DEF NonZero
<1>5. slow'.second # 0 /\ slow'.third # 0
  BY <1>1, <1>2, ZeroComesFirst
<1> QED
  BY <1>2, <1>3, <1>4, <1>5 DEF Decode

\* A sequence of the encoder's own: it moves like the decoder.
LEMMA OwnSequenceStep ==
  ASSUME IInv, status = "running", ~damaged,
         NEW value \in Nat \ {0}, NEW noLiterals \in BOOLEAN,
         NEW offset \in Nat \ {0},
         Decode(value, noLiterals),
         encoder' = GetOffset(encoder, value, noLiterals),
         GetOffset(encoder, value, noLiterals).first = offset,
         asked' = offset,
         damaged' = damaged
  PROVE  IInv'
<1>1. encoder = slow
  BY DEF IInv, EncoderAgrees
<1>2. /\ encoder' = slow'
      /\ fast' = slow'
      /\ slow' \in Triple
      /\ slow'.first = offset
      /\ slow'.second # 0 /\ slow'.third # 0
      /\ status' = "running"
  BY <1>1, DecodeStep
<1>3. TypeOK'
  BY <1>2 DEF IInv, TypeOK
<1>4. PathsAgree' /\ EncoderAgrees' /\ ResolvesAsAsked' /\ OwnFramesDecode'
  BY <1>2 DEF PathsAgree, EncoderAgrees, ResolvesAsAsked, OwnFramesDecode
<1>5. ZeroEndsTheFrame'
  BY <1>2 DEF ZeroEndsTheFrame, NonZero
<1> QED
  BY <1>3, <1>4, <1>5 DEF IInv

LEMMA InitIInv == Init => IInv
<1> SUFFICES ASSUME Init PROVE IInv
  OBVIOUS
<1>1. NewOffsets \in Triple /\ NonZero(NewOffsets)
  BY DEF NewOffsets, NonZero, Triple
<1>2. TypeOK
  BY <1>1 DEF Init, TypeOK
<1> QED
  BY <1>1, <1>2 DEF Init, IInv, PathsAgree, EncoderAgrees, ResolvesAsAsked,
                    ZeroEndsTheFrame, OwnFramesDecode

LEMMA NextIInv == IInv /\ [Next]_vars => IInv'
<1> SUFFICES ASSUME IInv, [Next]_vars PROVE IInv'
  OBVIOUS
<1>0. encoder \in Triple /\ (status = "running" => NonZero(encoder))
  BY DEF IInv, TypeOK, ZeroEndsTheFrame, NonZero
<1>1. ASSUME NEW offset \in Distances, NEW noLiterals \in BOOLEAN,
             StoreSequence(offset, noLiterals)
      PROVE  IInv'
  <2>1. offset \in Nat \ {0}
    BY MaxOffsetAssumption DEF Distances
  <2>2. encoder.first # 0
    BY <1>0, <1>1 DEF StoreSequence, NonZero
  <2> QED
    BY <1>0, <1>1, <2>1, <2>2, RoundTrip, OwnSequenceStep DEF StoreSequence
<1>2. ASSUME NEW offset \in Distances, NEW noLiterals \in BOOLEAN,
             StoreTreeMatch(offset, noLiterals)
      PROVE  IInv'
  <2>1. offset \in Nat \ {0} /\ offset + 3 \in Nat \ {0}
    BY MaxOffsetAssumption DEF Distances
  <2>2. encoder.first # 0
    BY <1>0, <1>2 DEF StoreTreeMatch, NonZero
  <2>3. encoder' = GetOffset(encoder, offset + 3, noLiterals)
    BY <1>0, <1>2, <2>1, <2>2, UpdatedRepeatsIsGetOffset DEF StoreTreeMatch
  <2>4. GetOffset(encoder, offset + 3, noLiterals).first = offset
    BY <2>1 DEF GetOffset, Push
  <2> QED
    BY <1>2, <2>1, <2>3, <2>4, OwnSequenceStep DEF StoreTreeMatch
<1>3. ASSUME NEW value \in 1..3, NEW noLiterals \in BOOLEAN,
             StoreRepeatMatch(value, noLiterals)
      PROVE  IInv'
  <2> DEFINE offset == RepeatCandidate(encoder, value, noLiterals)
  <2>1. encoder.first # 0 /\ value \in Nat \ {0}
    BY <1>0, <1>3 DEF StoreRepeatMatch, NonZero
  <2>2. encoder' = GetOffset(encoder, value, noLiterals)
    BY <1>0, <1>3, <2>1, UpdatedRepeatsIsGetOffset DEF StoreRepeatMatch
  <2>3. GetOffset(encoder, value, noLiterals).first = offset
    BY <1>0, <2>1, CandidateIsResolved
  <2>4. offset \in Nat \ {0}
    <3>1. GetOffset(encoder, value, noLiterals) \in Triple
      BY <1>0, <2>1, GetOffsetType
    <3> QED
      BY <1>3, <2>3, <3>1 DEF StoreRepeatMatch, Triple
  <2> HIDE DEF offset
  <2> QED
    BY <1>3, <2>1, <2>2, <2>3, <2>4, OwnSequenceStep DEF StoreRepeatMatch, offset
<1>4. ASSUME NEW value \in 1..MaxOffset + 3, NEW noLiterals \in BOOLEAN,
             DecodeForeign(value, noLiterals)
      PROVE  IInv'
  <2>1. value \in Nat \ {0}
    BY MaxOffsetAssumption
  <2>2. /\ status = "running" /\ damaged' /\ encoder' = encoder /\ asked' = asked
        /\ Decode(value, noLiterals)
    BY <1>4 DEF DecodeForeign
  <2>3. /\ fast' = slow'
        /\ slow' \in Triple
        /\ slow'.second # 0 /\ slow'.third # 0
        /\ status' = IF slow'.first = 0 THEN "bad" ELSE "running"
    BY <2>1, <2>2, DecodeStep
  <2>4. TypeOK'
    BY <1>4, <2>2, <2>3 DEF IInv, TypeOK, DecodeForeign
  <2>5. PathsAgree' /\ EncoderAgrees' /\ ResolvesAsAsked' /\ OwnFramesDecode'
    BY <2>2, <2>3 DEF PathsAgree, EncoderAgrees, ResolvesAsAsked, OwnFramesDecode
  <2>6. ZeroEndsTheFrame'
    BY <1>0, <2>2, <2>3 DEF ZeroEndsTheFrame, NonZero
  <2> QED
    BY <2>4, <2>5, <2>6 DEF IInv
<1>5. CASE NewFrame
  <2>1. NewOffsets \in Triple /\ NonZero(NewOffsets)
    BY DEF NewOffsets, NonZero, Triple
  <2>2. TypeOK'
    BY <1>5, <2>1 DEF NewFrame, TypeOK
  <2> QED
    BY <1>5, <2>1, <2>2 DEF NewFrame, IInv, PathsAgree, EncoderAgrees,
                            ResolvesAsAsked, ZeroEndsTheFrame, OwnFramesDecode
<1>6. CASE UNCHANGED vars
  BY <1>6 DEF vars, IInv, TypeOK, PathsAgree, EncoderAgrees, ResolvesAsAsked,
              ZeroEndsTheFrame, OwnFramesDecode
<1> QED
  BY <1>1, <1>2, <1>3, <1>4, <1>5, <1>6 DEF Next

-----------------------------------------------------------------------------
\* Both decoding paths hold the same repeat offsets after every sequence, of
\* well-formed and of foreign frames (repeat_offsets.rs, block_decoder_fast.rs).
THEOREM PathsAlwaysAgree == Spec => []PathsAgree
<1>1. IInv => PathsAgree
  BY DEF IInv
<1> QED
  BY InitIInv, NextIInv, <1>1, PTL DEF Spec

\* On frames of this encoder the decoder's repeat offsets are the encoder's,
\* whichever match finder wrote them.
THEOREM EncoderAlwaysAgrees == Spec => []EncoderAgrees
<1>1. IInv => EncoderAgrees
  BY DEF IInv
<1> QED
  BY InitIInv, NextIInv, <1>1, PTL DEF Spec

\* No frame of this encoder is refused for a bad offset, and every offset value
\* in it decodes to the distance it was written for.
THEOREM OwnFramesAlwaysResolve == Spec => []OwnFramesResolve
<1>1. IInv => OwnFramesResolve
  BY DEF IInv, OwnFramesResolve
<1> QED
  BY InitIInv, NextIInv, <1>1, PTL DEF Spec

\* A running decoder holds no zero distance, so first - 1 cannot underflow.
THEOREM ZeroAlwaysEndsTheFrame == Spec => []ZeroEndsTheFrame
<1>1. IInv => ZeroEndsTheFrame
  BY DEF IInv
<1> QED
  BY InitIInv, NextIInv, <1>1, PTL DEF Spec

\* The model's state is well typed.
THEOREM AlwaysTypeOK == Spec => []TypeOK
<1>1. IInv => TypeOK
  BY DEF IInv
<1> QED
  BY InitIInv, NextIInv, <1>1, PTL DEF Spec
=============================================================================
