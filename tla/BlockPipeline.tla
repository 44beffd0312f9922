--------------------------- MODULE BlockPipeline ---------------------------
(***************************************************************************)
(* One EncodeWorkspace and one DecodeWorkspace, both reused from frame to  *)
(* frame: the frames of the writer are decoded by the reader, some of them *)
(* damaged on the way.                                                     *)
(***************************************************************************)
EXTENDS BlockWriter, BlockReader

CONSTANTS
  MaxFrames,   \* bound: frames
  MaxDamaged   \* bound: frames damaged on the way

ASSUME PipelineAssumption == MaxFrames \in Nat /\ MaxDamaged \in Nat

VARIABLES
  frames,    \* history: frames begun before this one
  damaged,   \* history: this frame is not what was written
  damages,   \* history: frames damaged so far
  base       \* history: bodies begun before this frame

pipelineVars == <<frames, damaged, damages, base>>
vars == <<writerVars, readerVars, pipelineVars>>

Init ==
  /\ WriterInit /\ ReaderInit
  /\ frames = 0 /\ damaged = FALSE /\ damages = 0 /\ base = 0

Write == reading = "waiting" /\ WriterNext /\ UNCHANGED <<readerVars, pipelineVars>>

\* A block of the finished frame changes its literals type or its modes.  The
\* bound: not of a frame that is alone.
Damage(k) ==
  /\ complete /\ reading = "waiting" /\ ~damaged /\ damages < MaxDamaged
  /\ room = MaxBlocks
  /\ frame[k].type = "Compressed"
  /\ \/ frame' = [frame EXCEPT ![k].literals = "Treeless"]
     \/ frame' = [frame EXCEPT ![k].modes = [f \in Fields |-> "Repeat"]]
  /\ damaged' = TRUE
  /\ damages' = damages + 1
  /\ UNCHANGED <<complete, huffman, sequenceTables, offsets, stage, block, bodies, room,
                 readerVars, frames, base>>

Read ==
  /\ \/ complete /\ OpenFrame
     \/ DecodePlainBlock(frame)
     \/ \E fastPath \in BOOLEAN : DecodeBlock(frame, fastPath)
     \/ \E firstFast, secondFast \in BOOLEAN : DecodePair(frame, firstFast, secondFast)
     \/ \E n \in 0..FieldCount : RejectBlock(frame, damaged, n) \/ RejectPair(frame, damaged, n)
  /\ UNCHANGED <<writerVars, pipelineVars>>

NewFrame ==
  /\ reading \in {"done", "error"} \/ stage = "aborted"
  /\ frames < MaxFrames /\ room = MaxBlocks
  /\ WriterNewFrame /\ ReaderNewFrame
  /\ frames' = frames + 1
  /\ damaged' = FALSE
  /\ base' = bodies
  /\ UNCHANGED damages

\* The bound on frames is reached.
Finished ==
  /\ reading \in {"done", "error"} \/ stage = "aborted"
  /\ frames = MaxFrames \/ room # MaxBlocks
  /\ UNCHANGED vars

Next ==
  \/ Write
  \/ \E k \in DOMAIN frame : Damage(k)
  \/ Read
  \/ NewFrame
  \/ Finished

Spec == Init /\ [][Next]_vars

-----------------------------------------------------------------------------
\* Every block is decoded with the Huffman table, the three sequence tables
\* and the repeat offsets its body was written for: through raw fallbacks,
\* splits given up, segment starts, pairs and either decoding path.
DecodesAsWritten ==
  ~damaged => \A i \in DOMAIN decoded : i \in DOMAIN frame /\ decoded[i] = frame[i].uses

\* Between two blocks, the fast copy of every readable field is that field:
\* the dirty flags lose no change, in damaged frames neither.
FastCopiesAreCurrent ==
  reading \in {"decoding", "done"} =>
    \A f \in Fields :
      fieldTables[f].ready => ~fastTables[f].dirty /\ fastTables[f].table = fieldTables[f].table

\* What a frame may repeat was described in that frame: a table left by an
\* earlier frame or by a failed decode is out of reach, even for a damaged frame.
TablesOfThisFrame ==
  reading \in {"decoding", "done"} =>
    /\ \A s \in Slots : huffmanTables[s].ready => huffmanTables[s].table \in Nat /\ huffmanTables[s].table > base
    /\ \A f \in Fields : fieldTables[f].ready =>
         fieldTables[f].table = PredefinedTable \/ fieldTables[f].table > base

\* The layer as its users see it.  A split shows once its last piece is
\* written: until then it may still be taken back.
SentBlocks ==
  [i \in 1..(IF block = NoBlock THEN Len(frame) ELSE block.written) |->
     frame[i].uses]

Phase ==
  IF damaged THEN "damaged"
  ELSE IF stage = "aborted" THEN "given_up"
  ELSE IF ~complete THEN "writing"
  ELSE IF reading = "done" THEN "received"
  ELSE IF reading = "error" THEN "refused"
  ELSE "reading"

Transfer == INSTANCE FrameTransfer WITH sent <- SentBlocks, got <- decoded, phase <- Phase

\* Both workspaces, with every fallback of the writer and every pair and path
\* of the reader, do no more than hand over the blocks of one frame after
\* another: a frame can be refused only after it was damaged.
TransfersFrames == Transfer!Spec
=============================================================================
