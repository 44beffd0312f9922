---------------------------- MODULE Decompressor ---------------------------
(***************************************************************************)
(* Decompressor<R>, which is used in one of two ways.  With R = RawBytes   *)
(* the caller pushes compressed bytes (write) and is given an output to    *)
(* append to, until it finishes.  With a source of bytes it reads: each    *)
(* call of read loops until it has decoded bytes to hand out, or the end,  *)
(* or an error.  The source gives its bytes in pieces of any size and may  *)
(* be interrupted.  An error ends neither: the caller may go on.           *)
(*                                                                         *)
(* The input is a sequence of frames, each known by where it ends.  A      *)
(* "data" frame decodes to "size" bytes and a skippable one to none; a     *)
(* "corrupt" one is refused when it is decoded, a "foreign" one as soon as *)
(* the bytes that give it away have come, which is where it ends here.     *)
(* The input may stop inside a frame.  A decoded byte is a frame and a     *)
(* place in it.                                                            *)
(*                                                                         *)
(* The definitions named Broken... are the bugs the runs must notice;      *)
(* nothing uses them.                                                      *)
(***************************************************************************)
EXTENDS Integers, Sequences

CONSTANTS
  Streams,        \* the inputs: sequences of frames and how much there is
  ChunkSize,      \* DECOMPRESSOR_INPUT_CHUNK_SIZE
  MaxBuffer,      \* bound: room in the caller's buffer
  MaxInterrupts,  \* bound: errors of the source
  MaxErrors       \* bound: calls that return a decoding error

ASSUME DecompressorAssumption ==
  /\ ChunkSize \in Nat \ {0} /\ MaxBuffer \in Nat \ {0}
  /\ MaxInterrupts \in Nat /\ MaxErrors \in Nat

Frames == [kind : {"data", "skippable", "corrupt", "foreign"}, end : Nat \ {0}, size : Nat]

ASSUME StreamsAssumption ==
  \A s \in Streams :
    /\ s.frames \in Seq(Frames) /\ s.length \in Nat
    /\ \A i \in DOMAIN s.frames :
         /\ s.frames[i].end > (IF i = 1 THEN 0 ELSE s.frames[i - 1].end)
         /\ s.frames[i].kind # "data" => s.frames[i].size = 0

VARIABLES
  stream,      \* the input
  received,    \* bytes of it pushed so far
  drained,     \* frames removed from the front of pending
  erred,       \* history: a call returned a decoding error
  inner,       \* Decompressor::inner: "raw", "source", or "gone" once finished
  buffered,    \* Decompressor::output_buffer
  position,    \* Decompressor::output_position
  inputDone,   \* Decompressor::input_done
  finished,    \* Decompressor::finished
  room,        \* the caller's buffer in this call of read, -1 between calls
  returned,    \* what the last read or finish returned
  delivered,   \* history: the bytes the caller was given
  interrupts,  \* history: errors of the source
  errors       \* history: calls that returned a decoding error

drainVars == <<stream, received, drained, erred>>
readVars == <<buffered, position, inputDone, finished, room, interrupts>>
vars == <<drainVars, inner, returned, delivered, errors, readVars>>

-----------------------------------------------------------------------------
(***************************************************************************)
(* Decompressor::pending and drain_complete_frames: compressed input comes *)
(* in pieces, and every frame that is there to its last byte is decoded.   *)
(***************************************************************************)
DrainInit ==
  /\ stream \in Streams
  /\ received = 0 /\ drained = 0 /\ erred = FALSE

\* Where frame i ends, and pending begins once it is drained.
End(i) == IF i = 0 THEN 0 ELSE stream.frames[i].end

\* pending.is_empty().
PendingIsEmpty(bytes, gone) == bytes = End(gone)

\* What frame i decodes to.
Decoded(i) == [k \in 1..stream.frames[i].size |-> <<i, k>>]

\* What the first n frames decode to, one after the other.
DecodedFrames[n \in Nat] == IF n = 0 THEN <<>> ELSE DecodedFrames[n - 1] \o Decoded(n)

\* What frames m + 1 to n decode to.
DecodedBetween(m, n) ==
  SubSeq(DecodedFrames[n], Len(DecodedFrames[m]) + 1, Len(DecodedFrames[n]))

(***************************************************************************)
(* drain_complete_frames, with so many bytes received: the frames that     *)
(* came whole are decoded one by one; only if none is refused do they      *)
(* leave pending.                                                          *)
(***************************************************************************)
Waiting(bytes) == {i \in DOMAIN stream.frames : i > drained /\ stream.frames[i].end <= bytes}

Refused(bytes) == {i \in Waiting(bytes) : stream.frames[i].kind \in {"corrupt", "foreign"}}

Fails(bytes) == Refused(bytes) # {}

\* The last frame the loop decodes.
LastDecoded(bytes) ==
  IF Fails(bytes)
  THEN (CHOOSE i \in Refused(bytes) : \A j \in Refused(bytes) : i <= j) - 1
  ELSE CHOOSE n \in {drained} \cup Waiting(bytes) : \A i \in Waiting(bytes) : i <= n

\* What the loop appends to the output.
DrainedBytes(bytes) == DecodedBetween(drained, LastDecoded(bytes))

\* Broken: the lengths of the frames decoded are not added up.
BrokenDrainAway(bytes) ==
  /\ received' = bytes
  /\ drained' = IF Fails(bytes) \/ LastDecoded(bytes) = drained THEN drained ELSE drained + 1
  /\ erred' = (erred \/ Fails(bytes))

\* What it leaves behind.
DrainAway(bytes) ==
  /\ received' = bytes
  /\ drained' = IF Fails(bytes) THEN drained ELSE LastDecoded(bytes)
  /\ erred' = (erred \/ Fails(bytes))
-----------------------------------------------------------------------------
\* new or read_from.
Init ==
  /\ DrainInit
  /\ inner \in {"raw", "source"}
  /\ buffered = <<>> /\ position = 0 /\ inputDone = FALSE /\ finished = FALSE
  /\ room = -1 /\ returned = "none"
  /\ delivered = <<>> /\ interrupts = 0 /\ errors = 0

\* write: the next bytes of the input.
Write(bytes) ==
  /\ inner = "raw"
  /\ bytes \in received..stream.length
  /\ Fails(bytes) => errors < MaxErrors
  /\ delivered' = delivered \o DrainedBytes(bytes)
  /\ errors' = IF Fails(bytes) THEN errors + 1 ELSE errors
  /\ DrainAway(bytes)
  /\ UNCHANGED <<stream, inner, returned, readVars>>

\* Broken: bytes left over are no error.
BrokenFinish ==
  /\ inner = "raw"
  /\ delivered' = delivered \o DrainedBytes(received)
  /\ DrainAway(received)
  /\ returned' = IF Fails(received) THEN "error" ELSE "end"
  /\ inner' = "gone"
  /\ UNCHANGED <<stream, errors, readVars>>

\* finish(self): the frames still there, then nothing may be left over.
Finish ==
  /\ inner = "raw"
  /\ delivered' = delivered \o DrainedBytes(received)
  /\ DrainAway(received)
  /\ returned' = IF Fails(received) THEN "error"
                 ELSE IF PendingIsEmpty(received, drained') THEN "end" ELSE "truncated"
  /\ inner' = "gone"
  /\ UNCHANGED <<stream, errors, readVars>>

-----------------------------------------------------------------------------
Reading == room # -1
HasBytes == position < Len(buffered)

Return(what) == room' = -1 /\ returned' = what

\* The caller calls read, after the end too, or after an error.
Call(size) ==
  /\ inner = "source" /\ ~Reading
  /\ errors < MaxErrors
  /\ room' = size
  /\ UNCHANGED <<drainVars, inner, buffered, position, inputDone, finished, returned, delivered,
                 interrupts, errors>>

\* Bytes are left from before: as many as fit.
HandOut ==
  LET left == Len(buffered) - position
      take == IF left < room THEN left ELSE room
  IN  /\ Reading /\ HasBytes
      /\ delivered' = delivered \o SubSeq(buffered, position + 1, position + take)
      /\ position' = position + take
      /\ Return("bytes")
      /\ UNCHANGED <<drainVars, inner, buffered, inputDone, finished, interrupts, errors>>

ReturnEnd ==
  /\ Reading /\ ~HasBytes /\ finished
  /\ Return("end")
  /\ UNCHANGED <<drainVars, inner, buffered, position, inputDone, finished, delivered,
                 interrupts, errors>>

\* The source is at its end: finish_frames, and an error if it left anything.
FinishFrames ==
  /\ Reading /\ ~HasBytes /\ ~finished /\ inputDone
  /\ buffered' = DrainedBytes(received)
  /\ position' = 0
  /\ DrainAway(received)
  /\ IF Fails(received) \/ ~PendingIsEmpty(received, drained')
     THEN /\ Return(IF Fails(received) THEN "error" ELSE "truncated")
          /\ errors' = errors + 1
          /\ UNCHANGED finished
     ELSE /\ finished' = TRUE
          /\ IF buffered' = <<>> THEN Return("end") ELSE UNCHANGED <<room, returned>>
          /\ UNCHANGED errors
  /\ UNCHANGED <<stream, inner, inputDone, delivered, interrupts>>

CanFetch == Reading /\ ~HasBytes /\ ~finished /\ ~inputDone

\* The source has an error: read returns it and nothing is lost.
Interrupted ==
  /\ CanFetch
  /\ interrupts < MaxInterrupts
  /\ interrupts' = interrupts + 1
  /\ buffered' = <<>> /\ position' = 0
  /\ Return("error")
  /\ UNCHANGED <<drainVars, inner, inputDone, finished, delivered, errors>>

\* Broken: the end of the source is not remembered.
BrokenSourceEnds ==
  /\ CanFetch
  /\ received = stream.length
  /\ buffered' = <<>> /\ position' = 0
  /\ UNCHANGED <<drainVars, inner, inputDone, finished, room, returned, delivered, interrupts, errors>>

SourceEnds ==
  /\ CanFetch
  /\ received = stream.length
  /\ inputDone' = TRUE
  /\ buffered' = <<>> /\ position' = 0
  /\ UNCHANGED <<drainVars, inner, finished, room, returned, delivered, interrupts, errors>>

\* The source gives a piece, which is pushed.
Fetch(bytes) ==
  /\ CanFetch
  /\ bytes \in (received + 1)..stream.length
  /\ bytes <= received + ChunkSize
  /\ buffered' = DrainedBytes(bytes)
  /\ position' = 0
  /\ DrainAway(bytes)
  /\ IF Fails(bytes) THEN Return("error") /\ errors' = errors + 1
                     ELSE UNCHANGED <<room, returned, errors>>
  /\ UNCHANGED <<stream, inner, inputDone, finished, delivered, interrupts>>

\* Nothing more to do: finished, or the bound on errors is reached.
Stopped ==
  /\ inner = "gone" \/ (~Reading /\ errors = MaxErrors)
  /\ UNCHANGED vars

InsideACall ==
  \/ HandOut
  \/ ReturnEnd
  \/ FinishFrames
  \/ Interrupted
  \/ SourceEnds
  \/ \E bytes \in 0..stream.length : Fetch(bytes)

Next ==
  \/ \E bytes \in 0..stream.length : Write(bytes)
  \/ Finish
  \/ \E size \in 0..MaxBuffer : Call(size)
  \/ InsideACall
  \/ Stopped

Spec == Init /\ [][Next]_vars

\* A call of read runs until it returns, for the source gives what it has; and
\* its caller calls until the end, again and again with room in its buffer
\* (calls without room may come between: the fairness is strong for them).
FairSpec ==
  /\ Spec
  /\ WF_vars(InsideACall)
  /\ SF_vars(returned # "end" /\ \E size \in 1..MaxBuffer : Call(size))
-----------------------------------------------------------------------------
\* Until a call fails, what was delivered and what is buffered is what the
\* frames that came whole decode to, each byte once and in order, wherever the
\* input was cut, through short reads and an interrupted source; and no frame
\* that is there waits for more.
NothingLostOrRepeated ==
  ~erred =>
    /\ delivered \o SubSeq(buffered, position + 1, Len(buffered)) = DecodedFrames[drained]
    /\ Waiting(received) = {}

\* finish answers Ok, and read 0 bytes, only where a frame ends and every byte
\* of every frame before has been delivered; a source is then at its end.  A
\* cut-off stream is never a short file: "finish errors if the compressed data
\* ends mid-frame".
EndIsTheEnd ==
  /\ returned = "end" =>
       /\ ~erred
       /\ End(drained) = received /\ delivered = DecodedFrames[drained]
       /\ inner = "source" => received = stream.length
  /\ returned = "truncated" => received > End(drained)

\* Whoever reads on comes to the end, or gives up after so many errors.
ReaderComesToAnEnd == <>(inner # "source" \/ returned = "end" \/ errors = MaxErrors)

\* The good frames before the first one that will be refused.
GoodFrames ==
  CHOOSE n \in 0..Len(stream.frames) :
    /\ \A i \in 1..n : stream.frames[i].kind \in {"data", "skippable"}
    /\ n < Len(stream.frames) => stream.frames[n + 1].kind \in {"corrupt", "foreign"}

IsPrefixOf(s, t) == Len(s) <= Len(t) /\ s = SubSeq(t, 1, Len(s))

\* What the caller is given does not depend on how the input was cut: it is
\* always the front of what the good frames decode to.
ChunksDoNotMatter == IsPrefixOf(delivered, DecodedFrames[GoodFrames])
=============================================================================
