------------------------------ MODULE OneShot ------------------------------
(***************************************************************************)
(* decompress_with, that is allocate_and_decode: ask what the frames       *)
(* promise; decode into a buffer of that size, or, when one of them makes  *)
(* no promise, into larger and larger ones until the output fits.          *)
(*                                                                         *)
(* The input is the beginning of a sequence of frames.  The frames are     *)
(* known here by what is in them, so that what the call should return can  *)
(* be said without walking the units.                                      *)
(***************************************************************************)
EXTENDS FrameWalk, FiniteSets, FiniteSetsExt, SequencesExt

CONSTANTS
  Files,          \* sequences of frames
  Maxima,         \* values of max_output_size
  NoMaximum,      \* max_output_size: None
  StartFactor,    \* the first buffer, in inputs: 4
  FirstCapacity   \* and at least: 4096

ASSUME OneShotAssumption ==
  /\ NoMaximum \notin Nat /\ Maxima \subseteq Nat \cup {NoMaximum}
  /\ StartFactor \in Nat \ {0} /\ FirstCapacity \in Nat \ {0}

VARIABLES
  file,       \* history: what the frames are
  input,      \* the units of them that are there
  maximum,    \* max_output_size
  checks,     \* supported: cfg!(feature = "checksum"); verify: verify_checksum
  stage,      \* "sizing", "exact" or "growing" (decoding), "returned"
  sizer,      \* get_decompressed_size
  decoder,    \* decompress_into
  capacity,   \* length of the output buffer
  result      \* what was returned

vars == <<file, input, maximum, checks, stage, sizer, decoder, capacity, result>>

NoResult == [status |-> "none", length |-> 0]

\* The units of a block, a frame and a file.
BlockUnits(block) ==
  <<block>> \o [i \in 1..(IF block.type = "Rle" THEN 1 ELSE block.size) |-> [kind |-> "payload"]]

FrameUnits(frame) ==
  IF frame.kind = "skippable"
  THEN <<frame>> \o [i \in 1..1 + frame.size |-> [kind |-> "skipped"]]
  ELSE <<[kind |-> "header", size |-> frame.size, good |-> frame.good,
          checksum |-> frame.checksum]>>
       \o <<[kind |-> "rest"]>>
       \o FlattenSeq([i \in DOMAIN frame.blocks |->
            BlockUnits(frame.blocks[i] @@ [last |-> i = Len(frame.blocks)])])
       \o (IF frame.checksum THEN <<[kind |-> "checksum", right |-> frame.right], [kind |-> "rest"]>>
                             ELSE <<>>)

Units(frames) == FlattenSeq([i \in DOMAIN frames |-> FrameUnits(frames[i])])

\* get_max_output_size: no block is shorter than a header and one byte.
MaxBound == Len(input) * (MaxBlockSize \div (BlockHeaderLength + 1))

Cap(size) ==
  IF maximum = NoMaximum THEN Min({size, MaxBound}) ELSE Min({size, MaxBound, maximum})

\* Broken: growing does not stop at the caller's maximum.
BrokenIsLargest == capacity >= MaxBound

IsLargest == capacity >= MaxBound \/ (maximum # NoMaximum /\ capacity >= maximum)

Init ==
  /\ file \in Files /\ maximum \in Maxima
  /\ checks \in [supported : BOOLEAN, verify : BOOLEAN]
  /\ LET units == Units(file)
     IN  \E n \in 0..Len(units) : input = SubSeq(units, 1, n)
  /\ stage = "sizing"
  /\ sizer = NewWalk /\ decoder = NewWalk
  /\ capacity = 0 /\ result = NoResult

Return(status, length) ==
  /\ stage' = "returned"
  /\ result' = [status |-> status, length |-> length]
  /\ UNCHANGED <<file, input, maximum, checks, sizer, decoder, capacity>>

Attempt(newStage, newCapacity) ==
  /\ stage' = newStage
  /\ capacity' = newCapacity
  /\ decoder' = NewWalk
  /\ UNCHANGED <<file, input, maximum, checks, sizer, result>>

WalkOn ==
  /\ stage = "sizing" /\ IsWalking(sizer)
  /\ sizer' = SizeStep(sizer, input)
  /\ UNCHANGED <<file, input, maximum, checks, stage, decoder, capacity, result>>

\* The input cannot be sized, or is too large by its own account.
Refuse ==
  /\ stage = "sizing" /\ ~IsWalking(sizer) /\ sizer.status # "unknown"
  /\ IF sizer.status = "done"
     THEN sizer.output > Cap(sizer.output) /\ Return("OutputTooLarge", 0)
     ELSE Return(sizer.status, 0)

\* The size is known.
AllocateExactly ==
  /\ stage = "sizing" /\ sizer.status = "done"
  /\ sizer.output <= Cap(sizer.output)
  /\ Attempt("exact", sizer.output)

\* Some frame does not say its size.
AllocateFirst ==
  /\ stage = "sizing" /\ sizer.status = "unknown"
  /\ Attempt("growing", Cap(Max({Len(input) * StartFactor, FirstCapacity})))

Decode ==
  /\ stage \in {"exact", "growing"} /\ IsWalking(decoder)
  /\ \E together \in BOOLEAN : decoder' = DecodeStep(decoder, input, capacity, checks, together)
  /\ UNCHANGED <<file, input, maximum, checks, stage, sizer, capacity, result>>

Grow ==
  /\ stage = "growing" /\ decoder.status = "OutputTooSmall" /\ ~IsLargest
  /\ Attempt("growing", Cap(capacity * 2))

Finish ==
  /\ stage \in {"exact", "growing"} /\ ~IsWalking(decoder)
  /\ CASE decoder.status = "done" -> Return("ok", decoder.output)
       [] stage = "growing" /\ decoder.status = "OutputTooSmall" ->
            IsLargest /\ Return("OutputTooLarge", 0)
       [] OTHER -> Return(decoder.status, 0)

Next ==
  \/ WalkOn
  \/ Refuse
  \/ AllocateExactly
  \/ AllocateFirst
  \/ Decode
  \/ Grow
  \/ Finish

\* A call runs until it returns.
Spec == Init /\ [][Next]_vars /\ WF_vars(Next)
-----------------------------------------------------------------------------
\* What the format says of a file.
BlockIsGood(block) ==
  /\ block.type # "Reserved" /\ block.size <= MaxBlockSize
  /\ block.type = "Compressed" => ~block.corrupt

DecodedBlock(block) == IF block.type = "Compressed" THEN block.decoded ELSE block.size

FrameLength(frame) ==
  IF frame.kind = "skippable" THEN 0
  ELSE FoldSeq(LAMBDA block, total : total + DecodedBlock(block), 0, frame.blocks)

FrameIsGood(frame) ==
  frame.kind = "frame" =>
    /\ frame.good
    /\ \A i \in DOMAIN frame.blocks : BlockIsGood(frame.blocks[i])
    /\ frame.size # NoSize => frame.size = FrameLength(frame)
    /\ frame.checksum /\ checks.verify => checks.supported /\ frame.right

\* The frames of which something is there, and how many units they have.
Present ==
  LET n == CHOOSE n \in 0..Len(file) :
             /\ Len(Units(SubSeq(file, 1, n))) >= Len(input)
             /\ \A m \in 0..n - 1 : Len(Units(SubSeq(file, 1, m))) < Len(input)
  IN  SubSeq(file, 1, n)

Missing == Len(Units(Present)) - Len(input)

\* The one leniency: a checksum that is not verified need not be there, when
\* no sizes were added up before.
MayMissItsChecksum ==
  /\ Present # <<>>
  /\ Present[Len(Present)].kind = "frame" /\ Present[Len(Present)].checksum
  /\ Missing <= ChecksumLength /\ checks.supported /\ ~checks.verify
  /\ \E i \in DOMAIN Present : Present[i].kind = "frame" /\ Present[i].size = NoSize

IsReadable ==
  /\ \A i \in DOMAIN Present : FrameIsGood(Present[i])
  /\ Missing = 0 \/ MayMissItsChecksum

Content == FoldSeq(LAMBDA frame, total : total + FrameLength(frame), 0, Present)

\* However the first buffer is guessed and the blocks are paired, the call
\* returns the content of the frames, all of it, exactly when the frames are
\* good and whole and the content is within the caller's maximum: growing to
\* get_max_output_size is enough for anything.
ReturnsTheContent ==
  stage = "returned" =>
    /\ result.status = "ok" <=> IsReadable /\ (maximum = NoMaximum \/ Content <= maximum)
    /\ result.status = "ok" => result.length = Content

\* The call returns: buffers grow until the output fits or may grow no more.
Returns == <>(stage = "returned")
=============================================================================
