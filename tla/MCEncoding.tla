----------------------------- MODULE MCEncoding -----------------------------
(***************************************************************************)
(* What surrounds the blocks of a frame: a stream cut into blocks, one     *)
(* input written in one call, and the tables and headers of both.  The     *)
(* three share no state, and a behaviour is of one of them.                *)
(***************************************************************************)
EXTENDS FrameWriter, StreamEncoder

CONSTANTS FourByteLimit, Lengths, SegmentLengths   \* of EncodeTables

VARIABLES level, tables, memory, matcher, use, header, stated, outcome   \* of EncodeTables

VARIABLE part   \* which of the three this behaviour is of

Tables == INSTANCE EncodeTables

ASSUME StreamAssumption /\ HashAssumption
ASSUME TablesAssumption == Tables!EncodeTablesAssumption

\* The presplitter ends a block early at some of these positions, and blocks
\* shrink from some position on.
MCTexts ==
  {[p \in 0..MaxInput |-> [split |-> IF p \in cuts THEN 1 ELSE MaxBlock,
                           shrinks |-> p >= dense]] :
     cuts \in SUBSET {1, 3, 4, 8}, dense \in {0, 3, MaxInput}}

\* Each size class of the level table, both sides of every boundary of the
\* header's size field, and lengths past the largest tables.
MCLengths ==
  {0, 1, 64, 65, 255, 256, 1025, 2^14, 2^14 + 1, 65535 + 256, 65536 + 256, 2^17, 2^17 + 1,
   2^18, 2^18 + 1, 2^20, 2^20 + 1, 2^25, 2^27 + 1, 2^30, 2^30 + 1}

MCSegmentLengths == {0, 1, 2^14, 2^17 + 1, 2^18 + 1, 2^22}

tableVars == <<level, tables, memory, matcher, use, header, stated, outcome>>

\* Where a part rests, its choices are made.
AnyText == CHOOSE any \in MCTexts : TRUE

MCInit ==
  /\ FrameInit /\ Init /\ Tables!TablesInit
  /\ part \in {"stream", "frame", "tables"}
  /\ part = "stream" \/ text = AnyText
  /\ part = "frame"  \/ strategy = "Fast"
  /\ part = "tables" \/ (level = 1 /\ use = "call")

MCNext ==
  /\ UNCHANGED part
  /\ \/ part = "frame" /\ FrameNext /\ UNCHANGED <<vars, tableVars>>
     \/ part = "stream" /\ Next /\ UNCHANGED <<frameVars, tableVars>>
     \/ part = "tables" /\ Tables!TablesNext /\ UNCHANGED <<frameVars, vars>>

\* A step inside a call of StreamEncoder.
StreamInsideACall == part = "stream" /\ InsideACall /\ UNCHANGED <<frameVars, tableVars, part>>

MCSpec == MCInit /\ [][MCNext]_<<frameVars, vars, tableVars, part>> /\ WF_vars(StreamInsideACall)
-----------------------------------------------------------------------------
\* A finder that was prepared can use its tables.
TablesServeTheInput == Tables!TablesServeTheInput

\* A header tells the size of the content and a window that is large enough.
HeaderTellsTheTruth == Tables!HeaderTellsTheTruth
=============================================================================
