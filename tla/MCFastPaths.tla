---------------------------- MODULE MCFastPaths ----------------------------
(***************************************************************************)
(* The four places where a fast path and a slow one decode the same block: *)
(* the repeat offsets, the bits of the sequences, the sequences carried    *)
(* out on the output, and the Huffman streams of the literals.  What they  *)
(* hand to each other is left open in each, so a behaviour here is a       *)
(* behaviour of one of them, while the others rest.                        *)
(***************************************************************************)
EXTENDS OffsetLockstep, SequenceExecution, SequenceReader, HuffmanCursors

VARIABLE part   \* which of them moves

MCInit ==
  /\ Init /\ ExecutionInit /\ ReaderInit /\ CursorsInit
  /\ part \in {"offsets", "execution", "bits", "literals"}
  /\ part # "execution" => outputLength = LeastOf(OutputLengths) /\ position = LeastOf(Histories)

MCNext ==
  /\ UNCHANGED part
  /\ \/ /\ part = "offsets" /\ Next
        /\ UNCHANGED <<executionVars, readerVars, cursorVars>>
     \/ /\ part = "execution" /\ ExecutionNext
        /\ UNCHANGED <<vars, readerVars, cursorVars>>
     \/ /\ part = "bits" /\ ReaderNext
        /\ UNCHANGED <<vars, executionVars, cursorVars>>
     \/ /\ part = "literals" /\ CursorsNext
        /\ UNCHANGED <<vars, executionVars, readerVars>>

MCSpec == MCInit /\ [][MCNext]_<<vars, executionVars, readerVars, cursorVars, part>>
=============================================================================
