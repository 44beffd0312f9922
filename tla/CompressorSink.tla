--------------------------- MODULE CompressorSink --------------------------
(***************************************************************************)
(* Compressor<W>: a stream encoder whose output goes to a sink that may    *)
(* fail.  What the encoder produced waits in "pending" until the sink took *)
(* it; a call that finds the sink failing is meant to be made again.       *)
(*                                                                         *)
(* The encoder is the one of StreamEncoder, seen from outside: it takes a  *)
(* chunk, appends some bytes, or fails after some.  A byte is its place in *)
(* the encoder's output.                                                   *)
(***************************************************************************)
EXTENDS Naturals, Sequences

CONSTANTS
  PartialWrites, \* the sink may keep a part of what it failed to take
  MaxChunks,     \* bound: chunks given to the encoder
  MaxProduced,   \* bound: bytes the encoder appends in one call
  MaxFailures    \* bound: failures of the sink

SinkAssumption ==
  /\ PartialWrites \in BOOLEAN
  /\ MaxChunks \in Nat /\ MaxProduced \in Nat /\ MaxFailures \in Nat

VARIABLES
  produced,   \* bytes the encoder has appended
  ended,      \* the encoder has appended the end of the frame
  pending,    \* Compressor::pending
  sink,       \* what Compressor::output holds
  life,       \* "open", "returned" by finish, "lost" in a failed finish, "dropped"
  fed,        \* history: chunks given to the encoder
  accepted,   \* history: chunks for which write returned Ok
  broken,     \* history: the encoder failed (OutOfMemory)
  failures    \* history: failures of the sink

vars == <<produced, ended, pending, sink, life, fed, accepted, broken, failures>>

Init ==
  /\ produced = 0 /\ ended = FALSE
  /\ pending = <<>> /\ sink = <<>>
  /\ life = "open"
  /\ fed = 0 /\ accepted = 0 /\ broken = FALSE /\ failures = 0

\* The next n bytes of the encoder.
Bytes(n) == [i \in 1..n |-> produced + i]

(***************************************************************************)
(* What send_pending may come to, with these bytes pending and the sink    *)
(* having failed this often.                                               *)
(***************************************************************************)
Sent(bytes, to, failed) == [ok |-> TRUE, pending |-> <<>>, sink |-> to \o bytes, failures |-> failed]

\* Broken: pending is cleared whether or not the sink took it.
BrokenUnsent(bytes, to, failed, k) ==
  [ok |-> FALSE, pending |-> <<>>, sink |-> to \o SubSeq(bytes, 1, k), failures |-> failed + 1]

\* write_all fails with k of the bytes in the sink; pending keeps them all.
Unsent(bytes, to, failed, k) ==
  [ok |-> FALSE, pending |-> bytes, sink |-> to \o SubSeq(bytes, 1, k), failures |-> failed + 1]

SendPending(bytes, to, failed) ==
  {Sent(bytes, to, failed)} \cup
  (IF bytes = <<>> \/ failed = MaxFailures THEN {}
   ELSE {Unsent(bytes, to, failed, k) :
           k \in IF PartialWrites THEN 0..(Len(bytes) - 1) ELSE {0}})

Keep(result) ==
  /\ pending' = result.pending
  /\ sink' = result.sink
  /\ failures' = result.failures

(***************************************************************************)
(* The calls.                                                              *)
(***************************************************************************)

\* write: what is left over from before goes first; an error of the sink here
\* is returned before the encoder has seen the chunk.
WriteRefused ==
  /\ life = "open"
  /\ \E first \in SendPending(pending, sink, failures) : ~first.ok /\ Keep(first)
  /\ UNCHANGED <<produced, ended, life, fed, accepted, broken>>

\* Broken: an error of the second send_pending is returned as well.
BrokenWriteTaken(n) ==
  /\ life = "open" /\ fed < MaxChunks
  /\ \E first \in SendPending(pending, sink, failures) :
       /\ first.ok
       /\ \E second \in SendPending(Bytes(n), first.sink, first.failures) :
            /\ Keep(second)
            /\ accepted' = IF second.ok THEN accepted + 1 ELSE accepted
  /\ produced' = produced + n
  /\ fed' = fed + 1
  /\ UNCHANGED <<ended, life, broken>>

\* write: the encoder takes the chunk; an error of the sink after that is not
\* returned, for the chunk has been taken.
WriteTaken(n) ==
  /\ life = "open" /\ fed < MaxChunks
  /\ \E first \in SendPending(pending, sink, failures) :
       /\ first.ok
       /\ \E second \in SendPending(Bytes(n), first.sink, first.failures) : Keep(second)
  /\ produced' = produced + n
  /\ fed' = fed + 1
  /\ accepted' = accepted + 1
  /\ UNCHANGED <<ended, life, broken>>

\* write: the encoder runs out of memory; what it appended stays pending.
WriteBreaks(n) ==
  /\ life = "open" /\ fed < MaxChunks
  /\ \E first \in SendPending(pending, sink, failures) :
       first.ok /\ Keep([first EXCEPT !.pending = Bytes(n)])
  /\ produced' = produced + n
  /\ fed' = fed + 1
  /\ broken' = TRUE
  /\ UNCHANGED <<ended, life, accepted>>

\* flush, whose own error changes nothing here.
Flush ==
  /\ life = "open"
  /\ \E result \in SendPending(pending, sink, failures) : Keep(result)
  /\ UNCHANGED <<produced, ended, life, fed, accepted, broken>>

\* Broken: the sink's last error is dropped as write drops it.
BrokenFinish(n) ==
  /\ life = "open"
  /\ \E first \in SendPending(pending, sink, failures) :
       /\ first.ok
       /\ \E second \in SendPending(Bytes(n), first.sink, first.failures) : Keep(second)
  /\ produced' = produced + n
  /\ ended' = TRUE
  /\ life' = "returned"
  /\ UNCHANGED <<fed, accepted, broken>>

\* finish(self): every step can fail, and then the compressor is gone.
Finish(n) ==
  /\ life = "open"
  /\ \E first \in SendPending(pending, sink, failures) :
       IF ~first.ok
       THEN Keep(first) /\ life' = "lost" /\ UNCHANGED <<produced, ended>>
       ELSE /\ produced' = produced + n
            /\ \/ \* the encoder fails
                  /\ life' = "lost" /\ Keep([first EXCEPT !.pending = Bytes(n)])
                  /\ UNCHANGED ended
               \/ /\ ended' = TRUE
                  /\ \E second \in SendPending(Bytes(n), first.sink, first.failures) :
                       /\ Keep(second)
                       \* the sink's own flush comes last and can fail too
                       /\ life' \in IF second.ok THEN {"returned", "lost"} ELSE {"lost"}
  /\ UNCHANGED <<fed, accepted, broken>>

Drop ==
  /\ life = "open"
  /\ life' = "dropped"
  /\ UNCHANGED <<produced, ended, pending, sink, fed, accepted, broken, failures>>

Gone == life # "open" /\ UNCHANGED vars

Next ==
  \/ WriteRefused
  \/ \E n \in 0..MaxProduced : WriteTaken(n) \/ WriteBreaks(n) \/ Finish(n)
  \/ Flush
  \/ Drop
  \/ Gone

Spec == Init /\ [][Next]_vars
-----------------------------------------------------------------------------
\* A sink that takes a buffer whole or not at all holds, with what is still
\* pending, every byte of the encoder once and in order.
SentOnceInOrder == ~PartialWrites => sink \o pending = [i \in 1..produced |-> i]

\* A caller that makes a refused call again has no chunk encoded twice, and
\* a chunk that was accepted is in the encoder (unless that ran out of memory).
RetriesAreSafe == ~broken => fed = accepted

\* finish() "writes the end of the frame and returns any write error": when it
\* returns no error, the sink holds the frame.
FinishTellsTheTruth == life = "returned" => ended /\ sink = [i \in 1..produced |-> i]
=============================================================================
