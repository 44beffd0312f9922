---------------------------- MODULE MCStreaming ----------------------------
(***************************************************************************)
(* Both halves of the streaming interface, Compressor and Decompressor.    *)
(* They share nothing: a behaviour here is a behaviour of one of them,     *)
(* while the other rests.  The decompressor is given inputs of up to four  *)
(* frames, cut at every byte.                                              *)
(***************************************************************************)
EXTENDS Decompressor

CONSTANTS PartialWrites, MaxChunks, MaxProduced, MaxFailures  \* of CompressorSink

VARIABLES
  produced, ended, pending, sink, life, fed, accepted, broken, failures,  \* of CompressorSink
  part   \* which half moves: "compressor" or "decompressor"

sinkVars == <<produced, ended, pending, sink, life, fed, accepted, broken, failures>>

Sink == INSTANCE CompressorSink

ASSUME Sink!SinkAssumption

Frame(kind, end, size) == [kind |-> kind, end |-> end, size |-> size]

Shapes ==
  {<<>>,
   <<Frame("data", 2, 1), Frame("data", 5, 3)>>,
   <<Frame("skippable", 1, 0), Frame("data", 4, 2), Frame("skippable", 6, 0)>>,
   <<Frame("data", 2, 2), Frame("data", 3, 0), Frame("corrupt", 5, 0), Frame("data", 6, 1)>>,
   <<Frame("data", 2, 1), Frame("data", 4, 1), Frame("foreign", 5, 0)>>}

Total(shape) == IF shape = <<>> THEN 0 ELSE shape[Len(shape)].end

\* Each of them whole, and stopped at each of its bytes.
MCStreams ==
  UNION {{[frames |-> shape, length |-> length] : length \in 0..Total(shape)} : shape \in Shapes}

MCInit ==
  /\ Init /\ Sink!Init
  /\ \/ part = "decompressor"
     \/ part = "compressor" /\ stream = [frames |-> <<>>, length |-> 0] /\ inner = "raw"

SinkRests == UNCHANGED <<part, sinkVars>>

MCNext ==
  \/ part = "decompressor" /\ Next /\ SinkRests
  \/ part = "compressor" /\ Sink!Next /\ UNCHANGED <<part, vars>>

MCSpec == MCInit /\ [][MCNext]_<<vars, sinkVars, part>>

\* Of the decompressor: the fairness of Decompressor!FairSpec.
MCFairSpec ==
  /\ MCSpec
  /\ WF_vars(part = "decompressor" /\ InsideACall /\ SinkRests)
  /\ SF_vars(/\ part = "decompressor" /\ returned # "end"
             /\ \E size \in 1..MaxBuffer : Call(size)
             /\ SinkRests)
-----------------------------------------------------------------------------
\* A sink that takes a buffer whole or not at all holds, with what is still
\* pending, every byte of the encoder once and in order.
SentOnceInOrder == Sink!SentOnceInOrder

\* A caller that makes a refused write again has no chunk encoded twice.
RetriesAreSafe == Sink!RetriesAreSafe

\* A finish that returns no error leaves the whole frame in the sink.
FinishTellsTheTruth == Sink!FinishTellsTheTruth
=============================================================================
