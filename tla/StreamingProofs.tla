--------------------------- MODULE StreamingProofs ---------------------------
(***************************************************************************)
(* Proofs about both halves of the streaming interface, for every input    *)
(* and every way it is cut: what the compressor owes its sink, and what    *)
(* the decompressor owes its caller.                                       *)
(***************************************************************************)
EXTENDS MCStreaming, SequenceTheorems, WellFoundedInduction, TLAPS

-----------------------------------------------------------------------------
(***************************************************************************)
(* The compressor.                                                         *)
(***************************************************************************)
UpTo(n) == [i \in 1..n |-> i]

LEMMA UpToType ==
  ASSUME NEW n \in Nat
  PROVE  UpTo(n) \in Seq(Nat) /\ Len(UpTo(n)) = n /\ \A i \in 1..n : UpTo(n)[i] = i
BY DEF UpTo

\* The next bytes of the encoder continue those before.
LEMMA BytesContinue ==
  ASSUME NEW n \in Nat, produced \in Nat
  PROVE  /\ Sink!Bytes(n) \in Seq(Nat)
         /\ UpTo(produced) \o Sink!Bytes(n) = UpTo(produced + n)
<1> DEFINE s == UpTo(produced)
           t == Sink!Bytes(n)
           u == UpTo(produced + n)
           st == s \o t
<1>1. s \in Seq(Nat) /\ Len(s) = produced /\ \A i \in 1..produced : s[i] = i
  BY UpToType
<1>2. t \in Seq(Nat) /\ Len(t) = n /\ \A i \in 1..n : t[i] = produced + i
  BY DEF Sink!Bytes
<1>3. u \in Seq(Nat) /\ Len(u) = produced + n /\ \A i \in 1..produced + n : u[i] = i
  BY UpToType
<1> HIDE DEF s, t, u
<1>4. /\ st \in Seq(Nat) /\ Len(st) = Len(s) + Len(t)
      /\ \A i \in 1..Len(s) + Len(t) : st[i] = IF i <= Len(s) THEN s[i] ELSE t[i - Len(s)]
  BY <1>1, <1>2, ConcatProperties
<1> HIDE DEF st
<1>5. \A i \in 1..produced + n : st[i] = u[i]
  <2> TAKE i \in 1..produced + n
  <2>1. CASE i <= produced
    BY <1>1, <1>2, <1>3, <1>4, <2>1
  <2>2. CASE ~(i <= produced)
    <3>1. i - produced \in 1..n
      BY <2>2
    <3> QED
      BY <1>1, <1>2, <1>3, <1>4, <2>2, <3>1
  <2> QED
    BY <2>1, <2>2
<1>6. st = u
  BY <1>1, <1>2, <1>3, <1>4, <1>5, SeqEqual
<1> QED
  BY <1>2, <1>6 DEF s, t, u, st

\* What may come of send_pending.
IsResult(bytes, to, result) ==
  /\ result.ok \in BOOLEAN
  /\ result.pending \in Seq(Nat) /\ result.sink \in Seq(Nat) /\ result.failures \in Nat
  /\ result.ok => result.pending = <<>> /\ result.sink = to \o bytes
  /\ ~result.ok /\ ~PartialWrites => result.pending = bytes /\ result.sink = to

LEMMA SendResult ==
  ASSUME NEW bytes \in Seq(Nat), NEW to \in Seq(Nat), NEW failed \in Nat,
         NEW result \in Sink!SendPending(bytes, to, failed)
  PROVE  IsResult(bytes, to, result)
<1>2. ASSUME NEW k \in Nat, k <= Len(bytes), ~PartialWrites => k = 0,
             result = Sink!Unsent(bytes, to, failed, k)
      PROVE  /\ result.ok = FALSE /\ result.pending = bytes
             /\ result.sink \in Seq(Nat) /\ result.failures \in Nat
             /\ ~PartialWrites => result.sink = to
  <2>1. result.sink = to \o SubSeq(bytes, 1, k)
    BY <1>2 DEF Sink!Unsent
  <2>2. SubSeq(bytes, 1, k) \in Seq(Nat)
    BY <1>2
  <2>3. ~PartialWrites => SubSeq(bytes, 1, k) = <<>>
    BY <1>2
  <2>4. to \o <<>> = to
    OBVIOUS
  <2>5. result.sink \in Seq(Nat)
    BY <2>1, <2>2
  <2>6. result.ok = FALSE /\ result.pending = bytes /\ result.failures \in Nat
    BY <1>2 DEF Sink!Unsent
  <2> QED
    BY <2>1, <2>3, <2>4, <2>5, <2>6
<1>3. ASSUME result # Sink!Sent(bytes, to, failed)
      PROVE  \E k \in Nat : /\ k <= Len(bytes) /\ (~PartialWrites => k = 0)
                            /\ result = Sink!Unsent(bytes, to, failed, k)
  <2>1. CASE PartialWrites
    BY <1>3, <2>1 DEF Sink!SendPending
  <2>2. CASE ~PartialWrites
    BY <1>3, <2>2 DEF Sink!SendPending
  <2> QED
    BY <2>1, <2>2
<1>4. IsResult(bytes, to, Sink!Sent(bytes, to, failed))
  <2>1. to \o bytes \in Seq(Nat)
    OBVIOUS
  <2> QED
    BY <2>1 DEF Sink!Sent, IsResult
<1> QED
  BY <1>2, <1>3, <1>4 DEF IsResult

SinkTypeOK ==
  /\ produced \in Nat /\ pending \in Seq(Nat) /\ sink \in Seq(Nat)
  /\ fed \in Nat /\ accepted \in Nat /\ failures \in Nat

\* What a finish that returned no error has done.
FinishIsWhole == life = "returned" => ended /\ pending = <<>>

SinkInv == SinkTypeOK /\ FinishIsWhole /\ Sink!SentOnceInOrder /\ Sink!RetriesAreSafe

\* Other bytes pending, the rest as it was.
LEMMA PendingReplaced ==
  ASSUME NEW bytes, NEW to, NEW failed, NEW result \in Sink!SendPending(bytes, to, failed), NEW other
  PROVE  /\ [result EXCEPT !.pending = other].pending = other
         /\ [result EXCEPT !.pending = other].sink = result.sink
         /\ [result EXCEPT !.pending = other].failures = result.failures
<1>1. CASE result = Sink!Sent(bytes, to, failed)
  BY <1>1 DEF Sink!Sent
<1>2. ASSUME NEW k, result = Sink!Unsent(bytes, to, failed, k)
      PROVE  /\ [result EXCEPT !.pending = other].pending = other
             /\ [result EXCEPT !.pending = other].sink = result.sink
             /\ [result EXCEPT !.pending = other].failures = result.failures
  BY <1>2 DEF Sink!Unsent
<1>3. ASSUME result # Sink!Sent(bytes, to, failed)
      PROVE  \E k : result = Sink!Unsent(bytes, to, failed, k)
  BY <1>3 DEF Sink!SendPending
<1> QED
  BY <1>1, <1>2, <1>3

\* What was pending has gone to the sink.
LEMMA FirstSend ==
  ASSUME SinkInv, NEW first \in Sink!SendPending(pending, sink, failures), first.ok
  PROVE  /\ first.pending = <<>> /\ first.sink \in Seq(Nat) /\ first.failures \in Nat
         /\ ~PartialWrites => first.sink = UpTo(produced)
<1>1. pending \in Seq(Nat) /\ sink \in Seq(Nat) /\ failures \in Nat
  BY DEF SinkInv, SinkTypeOK
<1>2. /\ first.pending = <<>> /\ first.sink = sink \o pending
      /\ first.sink \in Seq(Nat) /\ first.failures \in Nat
  BY <1>1, SendResult DEF IsResult
<1>3. ~PartialWrites => sink \o pending = UpTo(produced)
  BY DEF SinkInv, Sink!SentOnceInOrder, UpTo
<1> QED
  BY <1>2, <1>3

\* The encoder's next bytes go to the sink, or wait.
LEMMA SecondSend ==
  ASSUME produced \in Nat, NEW n \in Nat, NEW to \in Seq(Nat), NEW failed \in Nat,
         NEW second \in Sink!SendPending(Sink!Bytes(n), to, failed),
         ~PartialWrites => to = UpTo(produced)
  PROVE  /\ second.pending \in Seq(Nat) /\ second.sink \in Seq(Nat) /\ second.failures \in Nat
         /\ second.ok => second.pending = <<>>
         /\ ~PartialWrites => second.sink \o second.pending = UpTo(produced + n)
<1>1. PICK bytes \in Seq(Nat) : bytes = Sink!Bytes(n) /\ UpTo(produced) \o bytes = UpTo(produced + n)
  BY BytesContinue
<1>2. /\ second.ok \in BOOLEAN
      /\ second.pending \in Seq(Nat) /\ second.sink \in Seq(Nat) /\ second.failures \in Nat
      /\ second.ok => second.pending = <<>> /\ second.sink = to \o bytes
      /\ ~second.ok /\ ~PartialWrites => second.pending = bytes /\ second.sink = to
  <2>1. second \in Sink!SendPending(bytes, to, failed)
    BY <1>1
  <2>2. IsResult(bytes, to, second)
    BY <2>1, SendResult
  <2> QED
    BY <2>2 DEF IsResult
<1>3. ASSUME ~PartialWrites PROVE second.sink \o second.pending = UpTo(produced + n)
  <2>1. to \o bytes \in Seq(Nat)
    BY <1>1
  <2>2. (to \o bytes) \o <<>> = to \o bytes
    BY <2>1
  <2>3. CASE second.ok
    BY <1>1, <1>2, <1>3, <2>2, <2>3
  <2>4. CASE ~second.ok
    BY <1>1, <1>2, <1>3, <2>4
  <2> QED
    BY <2>3, <2>4
<1> QED
  BY <1>2, <1>3

LEMMA InitSinkInv == Sink!Init => SinkInv
<1> SUFFICES ASSUME Sink!Init PROVE SinkInv
  OBVIOUS
<1>1. SinkTypeOK
  BY DEF Sink!Init, SinkTypeOK
<1>2. UpTo(0) = <<>>
  BY UpToType
<1>3. Sink!SentOnceInOrder
  BY <1>2 DEF Sink!Init, Sink!SentOnceInOrder, UpTo
<1> QED
  BY <1>1, <1>3 DEF Sink!Init, SinkInv, FinishIsWhole, Sink!RetriesAreSafe

LEMMA SendKeepsSinkInv ==
  ASSUME SinkInv, life = "open", NEW result \in Sink!SendPending(pending, sink, failures),
         Sink!Keep(result), UNCHANGED <<produced, fed, accepted, broken>>, life' # "returned"
  PROVE  SinkInv'
<1>1. pending \in Seq(Nat) /\ sink \in Seq(Nat) /\ failures \in Nat
  BY DEF SinkInv, SinkTypeOK
<1>2. /\ result.ok \in BOOLEAN
      /\ result.pending \in Seq(Nat) /\ result.sink \in Seq(Nat) /\ result.failures \in Nat
      /\ result.ok => result.pending = <<>> /\ result.sink = sink \o pending
      /\ ~result.ok /\ ~PartialWrites => result.pending = pending /\ result.sink = sink
  <2>1. IsResult(pending, sink, result)
    BY <1>1, SendResult
  <2> QED
    BY <2>1 DEF IsResult
<1>3. pending' = result.pending /\ sink' = result.sink /\ failures' = result.failures
  BY DEF Sink!Keep
<1>4. SinkTypeOK'
  BY <1>2, <1>3 DEF SinkInv, SinkTypeOK
<1>5. ~PartialWrites => sink' \o pending' = sink \o pending
  <2>1. sink \o pending \in Seq(Nat)
    BY <1>1
  <2>2. (sink \o pending) \o <<>> = sink \o pending
    BY <2>1
  <2> QED
    BY <1>2, <1>3, <2>2
<1> QED
  BY <1>4, <1>5 DEF SinkInv, FinishIsWhole, Sink!SentOnceInOrder, Sink!RetriesAreSafe

LEMMA WriteTakenKeepsSinkInv ==
  ASSUME SinkInv, NEW n \in Nat, Sink!WriteTaken(n)
  PROVE  SinkInv'
<1>0. produced \in Nat /\ fed \in Nat /\ accepted \in Nat
  BY DEF SinkInv, SinkTypeOK
<1>1. PICK first \in Sink!SendPending(pending, sink, failures) :
         /\ first.ok
         /\ \E second \in Sink!SendPending(Sink!Bytes(n), first.sink, first.failures) : Sink!Keep(second)
  BY DEF Sink!WriteTaken
<1>2. PICK second \in Sink!SendPending(Sink!Bytes(n), first.sink, first.failures) : Sink!Keep(second)
  BY <1>1
<1>3. /\ first.sink \in Seq(Nat) /\ first.failures \in Nat
      /\ ~PartialWrites => first.sink = UpTo(produced)
  BY <1>1, FirstSend
<1>4. /\ second.pending \in Seq(Nat) /\ second.sink \in Seq(Nat) /\ second.failures \in Nat
      /\ ~PartialWrites => second.sink \o second.pending = UpTo(produced + n)
  BY <1>0, <1>2, <1>3, SecondSend
<1>5. /\ pending' = second.pending /\ sink' = second.sink /\ failures' = second.failures
      /\ produced' = produced + n /\ fed' = fed + 1 /\ accepted' = accepted + 1
      /\ life = "open" /\ UNCHANGED <<ended, life, broken>>
  BY <1>2 DEF Sink!Keep, Sink!WriteTaken
<1>6. SinkTypeOK'
  BY <1>0, <1>4, <1>5 DEF SinkTypeOK
<1>7. Sink!SentOnceInOrder'
  BY <1>4, <1>5 DEF Sink!SentOnceInOrder, UpTo
<1> QED
  BY <1>5, <1>6, <1>7 DEF SinkInv, FinishIsWhole, Sink!RetriesAreSafe

LEMMA WriteBreaksKeepsSinkInv ==
  ASSUME SinkInv, NEW n \in Nat, Sink!WriteBreaks(n)
  PROVE  SinkInv'
<1>0. produced \in Nat /\ fed \in Nat /\ accepted \in Nat
  BY DEF SinkInv, SinkTypeOK
<1>1. PICK first \in Sink!SendPending(pending, sink, failures) :
         first.ok /\ Sink!Keep([first EXCEPT !.pending = Sink!Bytes(n)])
  BY DEF Sink!WriteBreaks
<1>3. /\ first.sink \in Seq(Nat) /\ first.failures \in Nat
      /\ ~PartialWrites => first.sink = UpTo(produced)
  BY <1>1, FirstSend
<1>4. Sink!Bytes(n) \in Seq(Nat) /\ UpTo(produced) \o Sink!Bytes(n) = UpTo(produced + n)
  BY <1>0, BytesContinue
<1>5. /\ pending' = Sink!Bytes(n) /\ sink' = first.sink /\ failures' = first.failures
      /\ produced' = produced + n /\ fed' = fed + 1 /\ broken' = TRUE
      /\ life = "open" /\ UNCHANGED <<ended, life, accepted>>
  BY <1>1, PendingReplaced DEF Sink!Keep, Sink!WriteBreaks
<1>6. SinkTypeOK'
  BY <1>0, <1>3, <1>4, <1>5 DEF SinkTypeOK
<1>7. Sink!SentOnceInOrder'
  BY <1>3, <1>4, <1>5 DEF Sink!SentOnceInOrder, UpTo
<1> QED
  BY <1>5, <1>6, <1>7 DEF SinkInv, FinishIsWhole, Sink!RetriesAreSafe

LEMMA FinishKeepsSinkInv ==
  ASSUME SinkInv, NEW n \in Nat, Sink!Finish(n)
  PROVE  SinkInv'
<1>0. produced \in Nat /\ fed \in Nat /\ accepted \in Nat
  BY DEF SinkInv, SinkTypeOK
<1>1. PICK first \in Sink!SendPending(pending, sink, failures) :
         IF ~first.ok
         THEN Sink!Keep(first) /\ life' = "lost" /\ UNCHANGED <<produced, ended>>
         ELSE /\ produced' = produced + n
              /\ \/ /\ life' = "lost" /\ Sink!Keep([first EXCEPT !.pending = Sink!Bytes(n)])
                    /\ UNCHANGED ended
                 \/ /\ ended' = TRUE
                    /\ \E second \in Sink!SendPending(Sink!Bytes(n), first.sink, first.failures) :
                         /\ Sink!Keep(second)
                         /\ life' \in IF second.ok THEN {"returned", "lost"} ELSE {"lost"}
  BY DEF Sink!Finish
<1>2. life = "open" /\ UNCHANGED <<fed, accepted, broken>>
  BY DEF Sink!Finish
<1>3. CASE ~first.ok
  BY <1>1, <1>2, <1>3, SendKeepsSinkInv
<1>4. CASE first.ok
  <2>1. /\ first.sink \in Seq(Nat) /\ first.failures \in Nat
        /\ ~PartialWrites => first.sink = UpTo(produced)
    BY <1>4, FirstSend
  <2>2. produced' = produced + n
    BY <1>1, <1>4
  <2>3. CASE life' = "lost" /\ Sink!Keep([first EXCEPT !.pending = Sink!Bytes(n)])
    <3>1. Sink!Bytes(n) \in Seq(Nat) /\ UpTo(produced) \o Sink!Bytes(n) = UpTo(produced + n)
      BY <1>0, BytesContinue
    <3>2. pending' = Sink!Bytes(n) /\ sink' = first.sink /\ failures' = first.failures
      BY <2>3, PendingReplaced DEF Sink!Keep
    <3>3. SinkTypeOK'
      BY <1>0, <1>2, <2>1, <2>2, <3>1, <3>2 DEF SinkTypeOK
    <3>4. Sink!SentOnceInOrder'
      BY <2>1, <2>2, <3>1, <3>2 DEF Sink!SentOnceInOrder, UpTo
    <3> QED
      BY <1>2, <2>3, <3>3, <3>4 DEF SinkInv, FinishIsWhole, Sink!RetriesAreSafe
  <2>4. ASSUME NEW second \in Sink!SendPending(Sink!Bytes(n), first.sink, first.failures),
               ended' = TRUE, Sink!Keep(second),
               life' \in IF second.ok THEN {"returned", "lost"} ELSE {"lost"}
        PROVE  SinkInv'
    <3>1. /\ second.pending \in Seq(Nat) /\ second.sink \in Seq(Nat) /\ second.failures \in Nat
          /\ second.ok => second.pending = <<>>
          /\ ~PartialWrites => second.sink \o second.pending = UpTo(produced + n)
      BY <1>0, <2>1, SecondSend
    <3>2. pending' = second.pending /\ sink' = second.sink /\ failures' = second.failures
      BY <2>4 DEF Sink!Keep
    <3>3. SinkTypeOK'
      BY <1>0, <1>2, <2>2, <3>1, <3>2 DEF SinkTypeOK
    <3>4. Sink!SentOnceInOrder'
      BY <2>2, <3>1, <3>2 DEF Sink!SentOnceInOrder, UpTo
    <3>5. FinishIsWhole'
      BY <2>4, <3>1, <3>2 DEF FinishIsWhole
    <3> QED
      BY <1>2, <3>3, <3>4, <3>5 DEF SinkInv, Sink!RetriesAreSafe
  <2> QED
    BY <1>1, <1>4, <2>3, <2>4
<1> QED
  BY <1>3, <1>4

LEMMA RestKeepsSinkInv ==
  ASSUME SinkInv, UNCHANGED <<produced, pending, sink, fed, accepted, broken, failures>>,
         UNCHANGED <<ended, life>> \/ life' = "dropped"
  PROVE  SinkInv'
BY DEF SinkInv, SinkTypeOK, FinishIsWhole, Sink!SentOnceInOrder, Sink!RetriesAreSafe

\* The compressor's invariant, with any sink.
THEOREM AlwaysSinkInv ==
  ASSUME Sink!SinkAssumption
  PROVE  Sink!Spec => []SinkInv
<1>1. Sink!Init => SinkInv
  BY InitSinkInv
<1>2. SinkInv /\ [Sink!Next]_(Sink!vars) => SinkInv'
  <2> SUFFICES ASSUME SinkInv, [Sink!Next]_(Sink!vars) PROVE SinkInv'
    OBVIOUS
  <2>1. \A n \in 0..MaxProduced : n \in Nat
    BY DEF Sink!SinkAssumption
  <2>2. CASE Sink!WriteRefused
    BY <2>2, SendKeepsSinkInv DEF Sink!WriteRefused
  <2>3. ASSUME NEW n \in 0..MaxProduced, Sink!WriteTaken(n) PROVE SinkInv'
    BY <2>1, <2>3, WriteTakenKeepsSinkInv
  <2>4. ASSUME NEW n \in 0..MaxProduced, Sink!WriteBreaks(n) PROVE SinkInv'
    BY <2>1, <2>4, WriteBreaksKeepsSinkInv
  <2>5. ASSUME NEW n \in 0..MaxProduced, Sink!Finish(n) PROVE SinkInv'
    BY <2>1, <2>5, FinishKeepsSinkInv
  <2>6. CASE Sink!Flush
    BY <2>6, SendKeepsSinkInv DEF Sink!Flush
  <2>7. CASE Sink!Drop
    BY <2>7, RestKeepsSinkInv DEF Sink!Drop
  <2>8. CASE UNCHANGED Sink!vars
    BY <2>8, RestKeepsSinkInv DEF Sink!vars
  <2> QED
    BY <2>2, <2>3, <2>4, <2>5, <2>6, <2>7, <2>8 DEF Sink!Next, Sink!Gone
<1> QED
  BY <1>1, <1>2, PTL DEF Sink!Spec

\* A sink that takes a buffer whole or not at all holds, with what is still
\* pending, every byte of the encoder once and in order, whatever fails.
THEOREM AlwaysSentOnceInOrder ==
  ASSUME Sink!SinkAssumption
  PROVE  Sink!Spec => []SentOnceInOrder
<1>1. SinkInv => SentOnceInOrder
  BY DEF SinkInv, SentOnceInOrder
<1> QED
  BY <1>1, AlwaysSinkInv, PTL

\* Whatever a sink does, a refused write that is made again has no chunk
\* encoded twice and no accepted chunk is missing.
THEOREM AlwaysRetriesAreSafe ==
  ASSUME Sink!SinkAssumption
  PROVE  Sink!Spec => []RetriesAreSafe
<1>1. SinkInv => RetriesAreSafe
  BY DEF SinkInv, RetriesAreSafe
<1> QED
  BY <1>1, AlwaysSinkInv, PTL

\* A finish that returns no error leaves the whole frame in such a sink.
THEOREM AlwaysFinishTellsTheTruth ==
  ASSUME Sink!SinkAssumption, ~PartialWrites
  PROVE  Sink!Spec => []FinishTellsTheTruth
<1>1. SinkInv => FinishTellsTheTruth
  <2> SUFFICES ASSUME SinkInv, life = "returned"
               PROVE  ended /\ sink = [i \in 1..produced |-> i]
    BY DEF FinishTellsTheTruth, Sink!FinishTellsTheTruth
  <2>1. ended /\ pending = <<>> /\ sink \in Seq(Nat)
    BY DEF SinkInv, FinishIsWhole, SinkTypeOK
  <2>2. sink \o <<>> = sink
    BY <2>1
  <2> QED
    BY <2>1, <2>2 DEF SinkInv, Sink!SentOnceInOrder
<1> QED
  BY <1>1, AlwaysSinkInv, PTL

-----------------------------------------------------------------------------
(***************************************************************************)
(* What frames decode to, one after the other: the recursive definition    *)
(* has a solution, and longer runs of frames continue shorter ones.        *)
(***************************************************************************)
LEMMA LeastNatural ==
  ASSUME NEW D, D \subseteq Nat, D # {}
  PROVE  \E d \in D : \A e \in D : d <= e
<1> DEFINE R == OpToRel(<, Nat)
<1>1. R = {ss \in Nat \X Nat : ss[1] < ss[2]}
  BY DEF OpToRel
<1>2. IsWellFoundedOn(R, Nat)
  BY NatLessThanWellFounded
<1> HIDE DEF R
<1>3. PICK d \in D : \A e \in D : ~(<<e, d>> \in R)
  BY <1>2, WFMin
<1>4. \A e, c \in Nat : e < c => <<e, c>> \in R
  BY <1>1
<1>5. ASSUME NEW e \in D PROVE d <= e
  <2>1. d \in Nat /\ e \in Nat
    OBVIOUS
  <2>2. ~(e < d)
    BY <1>3, <1>4, <2>1, Zenon
  <2> QED
    BY <2>1, <2>2
<1> QED
  BY <1>5

\* A solution up to n.
IsPart(g, n) == g = [k \in 0..n |-> IF k = 0 THEN <<>> ELSE g[k - 1] \o Decoded(k)]

LEMMA PartExists ==
  ASSUME NEW n \in Nat
  PROVE  \E g : IsPart(g, n)
<1> SUFFICES ASSUME ~\E g : IsPart(g, n) PROVE FALSE
  OBVIOUS
<1> DEFINE D == {m \in Nat : ~\E g : IsPart(g, m)}
<1>1. D \subseteq Nat /\ D # {}
  OBVIOUS
<1>2. PICK d \in D : \A e \in D : d <= e
  BY <1>1, LeastNatural
<1>3. d \in Nat /\ ~\E g : IsPart(g, d)
  OBVIOUS
<1>4. CASE d = 0
  <2>1. PICK g : g = [k \in 0..0 |-> <<>>]
    OBVIOUS
  <2>2. [k \in 0..0 |-> IF k = 0 THEN <<>> ELSE g[k - 1] \o Decoded(k)] = [k \in 0..0 |-> <<>>]
    OBVIOUS
  <2>3. IsPart(g, 0)
    BY <2>1, <2>2 DEF IsPart
  <2> QED
    BY <1>3, <1>4, <2>3
<1>5. CASE d # 0
  <2>1. d - 1 \in Nat /\ d - 1 \notin D
    BY <1>2, <1>3, <1>5
  <2>2. PICK g : IsPart(g, d - 1)
    BY <2>1
  <2>3. PICK h : h = [k \in 0..d |-> IF k = d THEN g[d - 1] \o Decoded(d) ELSE g[k]]
    OBVIOUS
  <2>4. ASSUME NEW k \in 0..d
        PROVE  h[k] = IF k = 0 THEN <<>> ELSE h[k - 1] \o Decoded(k)
    <3>1. CASE k = d
      <4>1. d - 1 \in 0..d /\ d - 1 # d
        BY <1>3, <1>5
      <4>2. h[d - 1] = g[d - 1]
        BY <2>3, <4>1
      <4>3. h[k] = g[d - 1] \o Decoded(d)
        BY <2>3, <3>1
      <4> QED
        BY <1>5, <3>1, <4>2, <4>3
    <3>2. CASE k # d
      <4>1. k \in 0..d - 1
        BY <1>3, <3>2
      <4>2. g[k] = IF k = 0 THEN <<>> ELSE g[k - 1] \o Decoded(k)
        BY <2>2, <4>1 DEF IsPart
      <4>3. h[k] = g[k]
        BY <2>3, <3>2
      <4>4. k # 0 => k - 1 \in 0..d /\ k - 1 # d
        BY <1>3, <4>1
      <4>5. k # 0 => h[k - 1] = g[k - 1]
        BY <2>3, <4>4
      <4> QED
        BY <4>2, <4>3, <4>5
    <3> QED
      BY <3>1, <3>2
  <2>5. h = [k \in 0..d |-> h[k]]
    BY <2>3
  <2>6. h = [k \in 0..d |-> IF k = 0 THEN <<>> ELSE h[k - 1] \o Decoded(k)]
    BY <2>4, <2>5
  <2>7. IsPart(h, d)
    BY <2>6 DEF IsPart
  <2> QED
    BY <1>3, <2>7
<1> QED
  BY <1>4, <1>5

LEMMA PartsAgree ==
  ASSUME NEW m \in Nat, NEW n \in Nat, NEW g, NEW h, IsPart(g, m), IsPart(h, n),
         NEW k \in Nat, k <= m, k <= n
  PROVE  g[k] = h[k]
<1> SUFFICES ASSUME g[k] # h[k] PROVE FALSE
  OBVIOUS
<1> DEFINE D == {j \in Nat : j <= m /\ j <= n /\ g[j] # h[j]}
<1>1. D \subseteq Nat /\ D # {}
  OBVIOUS
<1>2. PICK d \in D : \A e \in D : d <= e
  BY <1>1, LeastNatural
<1>3. d \in Nat /\ d <= m /\ d <= n /\ g[d] # h[d] /\ d \in 0..m /\ d \in 0..n
  OBVIOUS
<1>4. /\ g[d] = IF d = 0 THEN <<>> ELSE g[d - 1] \o Decoded(d)
      /\ h[d] = IF d = 0 THEN <<>> ELSE h[d - 1] \o Decoded(d)
  BY <1>3 DEF IsPart
<1>5. d # 0 => d - 1 \in Nat /\ d - 1 \notin D
  BY <1>2, <1>3
<1>6. d # 0 => g[d - 1] = h[d - 1]
  BY <1>3, <1>5
<1> QED
  BY <1>3, <1>4, <1>6

LEMMA DecodedFramesIs ==
  DecodedFrames = [n \in Nat |-> IF n = 0 THEN <<>> ELSE DecodedFrames[n - 1] \o Decoded(n)]
<1> DEFINE Part(n) == CHOOSE g : IsPart(g, n)
<1>1. PICK f : f = [n \in Nat |-> Part(n)[n]]
  OBVIOUS
<1>2. ASSUME NEW n \in Nat PROVE IsPart(Part(n), n)
  BY PartExists
<1> HIDE DEF Part
<1>3. ASSUME NEW n \in Nat
      PROVE  f[n] = IF n = 0 THEN <<>> ELSE f[n - 1] \o Decoded(n)
  <2>1. f[n] = Part(n)[n] /\ n \in 0..n
    BY <1>1
  <2>2. Part(n)[n] = IF n = 0 THEN <<>> ELSE Part(n)[n - 1] \o Decoded(n)
    BY <1>2, <2>1 DEF IsPart
  <2>3. ASSUME n # 0 PROVE Part(n)[n - 1] = f[n - 1]
    <3>1. PICK k \in Nat : k = n - 1 /\ k <= n
      BY <2>3
    <3>2. IsPart(Part(n), n) /\ IsPart(Part(k), k)
      BY <1>2
    <3>3. Part(n)[k] = Part(k)[k]
      BY <3>1, <3>2, PartsAgree
    <3> QED
      BY <1>1, <3>1, <3>3
  <2> QED
    BY <2>1, <2>2, <2>3
<1>4. f = [n \in Nat |-> IF n = 0 THEN <<>> ELSE f[n - 1] \o Decoded(n)]
  <2>1. f = [n \in Nat |-> f[n]]
    BY <1>1
  <2> QED
    BY <1>3, <2>1
<1> QED
  BY <1>4 DEF DecodedFrames

DecodedByte == Nat \X Nat

LEMMA FrameTypes ==
  ASSUME stream \in Streams
  PROVE  /\ stream.frames \in Seq(Frames) /\ stream.length \in Nat
         /\ Len(stream.frames) \in Nat /\ DOMAIN stream.frames = 1..Len(stream.frames)
         /\ \A i \in 1..Len(stream.frames) : stream.frames[i].end \in Nat /\ stream.frames[i].size \in Nat
<1>1. stream.frames \in Seq(Frames) /\ stream.length \in Nat
  BY StreamsAssumption
<1>2. Len(stream.frames) \in Nat /\ DOMAIN stream.frames = 1..Len(stream.frames)
  BY <1>1
<1>3. \A i \in 1..Len(stream.frames) : stream.frames[i] \in Frames
  BY <1>1
<1> QED
  BY <1>1, <1>2, <1>3 DEF Frames

LEMMA DecodedType ==
  ASSUME stream \in Streams, NEW i \in 1..Len(stream.frames)
  PROVE  Decoded(i) \in Seq(DecodedByte)
<1>1. i \in Nat /\ stream.frames[i].size \in Nat
  BY FrameTypes
<1> QED
  BY <1>1 DEF Decoded, DecodedByte

LEMMA DecodedFramesType ==
  ASSUME stream \in Streams, NEW n \in 0..Len(stream.frames)
  PROVE  DecodedFrames[n] \in Seq(DecodedByte)
<1> SUFFICES ASSUME DecodedFrames[n] \notin Seq(DecodedByte) PROVE FALSE
  OBVIOUS
<1> DEFINE D == {j \in Nat : j <= Len(stream.frames) /\ DecodedFrames[j] \notin Seq(DecodedByte)}
<1>0. Len(stream.frames) \in Nat
  BY FrameTypes
<1>1. D \subseteq Nat /\ D # {}
  BY <1>0
<1>2. PICK d \in D : \A e \in D : d <= e
  BY <1>1, LeastNatural
<1>3. d \in Nat /\ d <= Len(stream.frames) /\ DecodedFrames[d] \notin Seq(DecodedByte)
  OBVIOUS
<1>4. DecodedFrames[d] = IF d = 0 THEN <<>> ELSE DecodedFrames[d - 1] \o Decoded(d)
  BY <1>3, DecodedFramesIs
<1>5. CASE d = 0
  BY <1>3, <1>4, <1>5
<1>6. CASE d # 0
  <2>1. d - 1 \in Nat /\ d - 1 \notin D /\ d \in 1..Len(stream.frames)
    BY <1>0, <1>2, <1>3, <1>6
  <2>2. DecodedFrames[d - 1] \in Seq(DecodedByte)
    BY <1>0, <1>3, <2>1
  <2>3. Decoded(d) \in Seq(DecodedByte)
    BY <2>1, DecodedType
  <2> QED
    BY <1>3, <1>4, <1>6, <2>2, <2>3
<1> QED
  BY <1>5, <1>6

LEMMA DecodedFramesGrow ==
  ASSUME stream \in Streams, NEW m \in Nat, NEW n \in Nat, m <= n, n <= Len(stream.frames)
  PROVE  \E t \in Seq(DecodedByte) : DecodedFrames[n] = DecodedFrames[m] \o t
<1> SUFFICES ASSUME ~\E t \in Seq(DecodedByte) : DecodedFrames[n] = DecodedFrames[m] \o t PROVE FALSE
  OBVIOUS
<1> DEFINE D == {j \in Nat : /\ m <= j /\ j <= Len(stream.frames)
                             /\ ~\E t \in Seq(DecodedByte) : DecodedFrames[j] = DecodedFrames[m] \o t}
<1>0. Len(stream.frames) \in Nat
  BY FrameTypes
<1>1. D \subseteq Nat /\ D # {}
  OBVIOUS
<1>2. PICK d \in D : \A e \in D : d <= e
  BY <1>1, LeastNatural
<1>3. /\ d \in Nat /\ m <= d /\ d <= Len(stream.frames)
      /\ ~\E t \in Seq(DecodedByte) : DecodedFrames[d] = DecodedFrames[m] \o t
  OBVIOUS
<1>4. DecodedFrames[m] \in Seq(DecodedByte)
  <2>1. m \in 0..Len(stream.frames)
    BY <1>0, <1>3
  <2> QED
    BY <2>1, DecodedFramesType
<1>5. CASE d = m
  <2>1. DecodedFrames[m] \o <<>> = DecodedFrames[m] /\ <<>> \in Seq(DecodedByte)
    BY <1>4
  <2> QED
    BY <1>3, <1>5, <2>1
<1>6. CASE d # m
  <2>0. d - 1 \in Nat /\ d \in 1..Len(stream.frames) /\ d # 0 /\ m <= d - 1
    BY <1>0, <1>3, <1>6
  <2>1. d - 1 \in Nat /\ d - 1 \notin D /\ d \in 1..Len(stream.frames) /\ d # 0 /\ m <= d - 1
    <3>1. ASSUME d - 1 \in D PROVE FALSE
      <4>1. d <= d - 1
        BY <1>2, <3>1
      <4> QED
        BY <1>3, <4>1
    <3> QED
      BY <2>0, <3>1
  <2>2. PICK t \in Seq(DecodedByte) : DecodedFrames[d - 1] = DecodedFrames[m] \o t
    BY <1>0, <1>3, <2>1
  <2>3. Decoded(d) \in Seq(DecodedByte)
    BY <2>1, DecodedType
  <2>4. DecodedFrames[d] = (DecodedFrames[m] \o t) \o Decoded(d)
    BY <1>3, <2>1, <2>2, DecodedFramesIs
  <2>5. (DecodedFrames[m] \o t) \o Decoded(d) = DecodedFrames[m] \o (t \o Decoded(d))
    <3>1. PICK a \in Seq(DecodedByte), c \in Seq(DecodedByte) : a = DecodedFrames[m] /\ c = Decoded(d)
      BY <1>4, <2>3
    <3>2. (a \o t) \o c = a \o (t \o c)
      BY ConcatAssociative
    <3> QED
      BY <3>1, <3>2
  <2>6. t \o Decoded(d) \in Seq(DecodedByte)
    BY <2>3
  <2> QED
    BY <1>3, <2>4, <2>5, <2>6
<1> QED
  BY <1>5, <1>6

\* The part of a concatenation behind its front.
LEMMA BehindTheFront ==
  ASSUME NEW S, NEW s \in Seq(S), NEW t \in Seq(S), NEW u, u = s \o t
  PROVE  SubSeq(u, Len(s) + 1, Len(u)) = t
<1>1. u \in Seq(S) /\ Len(u) = Len(s) + Len(t)
      /\ \A i \in 1..Len(s) + Len(t) : u[i] = IF i <= Len(s) THEN s[i] ELSE t[i - Len(s)]
  BY ConcatProperties
<1>2. PICK v : v = SubSeq(u, Len(s) + 1, Len(u))
  OBVIOUS
<1>3. Len(s) \in Nat /\ Len(t) \in Nat
  OBVIOUS
<1>4. v \in Seq(S) /\ Len(v) = Len(t)
  BY <1>1, <1>2, <1>3
<1>5. \A i \in 1..Len(t) : v[i] = t[i]
  <2> TAKE i \in 1..Len(t)
  <2>1. v[i] = u[Len(s) + i]
    BY <1>1, <1>2, <1>3
  <2>2. Len(s) + i \in 1..Len(s) + Len(t) /\ ~(Len(s) + i <= Len(s)) /\ (Len(s) + i) - Len(s) = i
    BY <1>3
  <2> QED
    BY <1>1, <2>1, <2>2
<1> QED
  BY <1>2, <1>4, <1>5, SeqEqual

LEMMA DecodedJoins ==
  ASSUME stream \in Streams, NEW m \in Nat, NEW n \in Nat, m <= n, n <= Len(stream.frames)
  PROVE  /\ DecodedBetween(m, n) \in Seq(DecodedByte)
         /\ DecodedFrames[m] \o DecodedBetween(m, n) = DecodedFrames[n]
<1>0. Len(stream.frames) \in Nat
  BY FrameTypes
<1>1. m \in 0..Len(stream.frames)
  BY <1>0
<1>2. PICK s \in Seq(DecodedByte) : s = DecodedFrames[m]
  BY <1>1, DecodedFramesType
<1>3. PICK t \in Seq(DecodedByte) : DecodedFrames[n] = s \o t
  BY <1>2, DecodedFramesGrow
<1>4. PICK u : u = DecodedFrames[n]
  OBVIOUS
<1>5. SubSeq(u, Len(s) + 1, Len(u)) = t
  BY <1>3, <1>4, BehindTheFront
<1>6. DecodedBetween(m, n) = t
  BY <1>2, <1>4, <1>5 DEF DecodedBetween
<1> QED
  BY <1>2, <1>3, <1>6

-----------------------------------------------------------------------------
(***************************************************************************)
(* The decompressor.                                                       *)
(***************************************************************************)
ReaderTypeOK ==
  /\ stream \in Streams
  /\ received \in Nat /\ received <= stream.length
  /\ drained \in Nat /\ drained <= Len(stream.frames)
  /\ erred \in BOOLEAN /\ inputDone \in BOOLEAN /\ finished \in BOOLEAN
  /\ inner \in {"raw", "source", "gone"}
  /\ buffered \in Seq(DecodedByte)
  /\ position \in Nat /\ position <= Len(buffered)
  /\ room \in Nat \cup {-1}
  /\ delivered \in Seq(DecodedByte)

\* What is drained came, and what makes a call fail stays in front: every call
\* after it fails.
FrontIsKept == End(drained) <= received /\ (erred => Fails(received))

\* Who is pushed to buffers nothing.
PushedOrRead == inner # "source" => buffered = <<>> /\ position = 0 /\ ~Reading /\ ~inputDone

\* What the ends of input and output know.
EndsAreKnown ==
  /\ inner = "raw" => returned = "none"
  /\ inputDone => received = stream.length
  /\ finished => ~erred /\ End(drained) = received /\ inputDone
  /\ returned = "end" => /\ ~HasBytes /\ ~erred /\ End(drained) = received
                         /\ inner = "source" => finished
  /\ returned = "truncated" => /\ End(drained) # received
                               /\ inner = "source" => inputDone

ReaderInv == ReaderTypeOK /\ FrontIsKept /\ PushedOrRead /\ EndsAreKnown /\ NothingLostOrRepeated

\* The frames a call decodes are those in front, one after the other.
LEMMA LastDecodedIs ==
  ASSUME ReaderTypeOK, NEW bytes \in Nat
  PROVE  /\ LastDecoded(bytes) \in Nat
         /\ drained <= LastDecoded(bytes) /\ LastDecoded(bytes) <= Len(stream.frames)
         /\ ~Fails(bytes) => /\ \A i \in DOMAIN stream.frames :
                                  i > LastDecoded(bytes) => ~(stream.frames[i].end <= bytes)
                             /\ LastDecoded(bytes) # drained => End(LastDecoded(bytes)) <= bytes
<1>0. /\ stream \in Streams /\ drained \in Nat /\ drained <= Len(stream.frames)
      /\ Len(stream.frames) \in Nat /\ DOMAIN stream.frames = 1..Len(stream.frames)
  BY FrameTypes DEF ReaderTypeOK
<1>1. CASE Fails(bytes)
  <2>1. Refused(bytes) \subseteq Nat /\ Refused(bytes) # {}
    BY <1>0, <1>1 DEF Fails, Refused, Waiting
  <2>2. \E i \in Refused(bytes) : \A j \in Refused(bytes) : i <= j
    BY <2>1, LeastNatural
  <2>3. PICK i \in Refused(bytes) : i = CHOOSE k \in Refused(bytes) : \A j \in Refused(bytes) : k <= j
    BY <2>2
  <2>4. LastDecoded(bytes) = i - 1
    BY <1>1, <2>3 DEF LastDecoded
  <2>5. i \in 1..Len(stream.frames) /\ i > drained
    BY <1>0 DEF Refused, Waiting
  <2> QED
    BY <1>0, <1>1, <2>4, <2>5
<1>2. CASE ~Fails(bytes)
  <2>1. PICK N \in Nat : N = Len(stream.frames)
    BY <1>0
  <2>2. \A i \in Waiting(bytes) : i \in 1..N /\ i > drained /\ stream.frames[i].end <= bytes
    BY <1>0, <2>1 DEF Waiting
  <2>3. \E n \in {drained} \cup Waiting(bytes) : \A i \in Waiting(bytes) : i <= n
    <3>1. CASE Waiting(bytes) = {}
      BY <3>1
    <3>2. CASE Waiting(bytes) # {}
      <4> DEFINE D == {N - i : i \in Waiting(bytes)}
      <4>1. D \subseteq Nat /\ D # {}
        BY <2>2, <3>2
      <4>2. PICK d \in D : \A e \in D : d <= e
        BY <4>1, LeastNatural
      <4>3. PICK n \in Waiting(bytes) : d = N - n
        OBVIOUS
      <4>4. ASSUME NEW i \in Waiting(bytes) PROVE i <= n
        <5>1. d <= N - i
          BY <4>2
        <5> QED
          BY <2>1, <2>2, <4>3, <5>1
      <4> QED
        BY <4>4
    <3> QED
      BY <3>1, <3>2
  <2>4. PICK n \in {drained} \cup Waiting(bytes) :
           /\ n = LastDecoded(bytes)
           /\ \A i \in Waiting(bytes) : i <= n
    BY <1>2, <2>3 DEF LastDecoded
  <2>5. n \in Nat /\ drained <= n /\ n <= N
    BY <1>0, <2>1, <2>2, <2>4
  <2>6. ASSUME NEW i \in DOMAIN stream.frames, i > n PROVE ~(stream.frames[i].end <= bytes)
    <3>1. i \in Nat /\ i > drained
      BY <1>0, <2>5, <2>6
    <3>2. i \notin Waiting(bytes)
      BY <2>4, <2>5, <2>6, <3>1
    <3> QED
      BY <3>1, <3>2 DEF Waiting
  <2>7. n # drained => End(n) <= bytes
    BY <2>2, <2>4, <2>5 DEF End
  <2> QED
    BY <2>1, <2>4, <2>5, <2>6, <2>7
<1> QED
  BY <1>1, <1>2

\* drain_complete_frames leaves the front as it should be.
LEMMA DrainKeepsTheFront ==
  ASSUME ReaderTypeOK, FrontIsKept, NEW bytes \in Nat, received <= bytes, bytes <= stream.length,
         DrainAway(bytes), UNCHANGED stream
  PROVE  /\ received' = bytes
         /\ drained' \in Nat /\ drained' <= Len(stream.frames)
         /\ erred' \in BOOLEAN
         /\ FrontIsKept'
         /\ erred' <=> Fails(bytes)
         /\ ~erred' => ~erred /\ drained' = LastDecoded(bytes) /\ Waiting(received)' = {}
<1>0. /\ stream \in Streams /\ drained \in Nat /\ drained <= Len(stream.frames) /\ received \in Nat
      /\ erred \in BOOLEAN
      /\ DOMAIN stream.frames = 1..Len(stream.frames) /\ Len(stream.frames) \in Nat
      /\ \A i \in 1..Len(stream.frames) : stream.frames[i].end \in Nat
  BY FrameTypes DEF ReaderTypeOK
<1>1. Fails(received) => Fails(bytes)
  <2>1. Refused(received) \subseteq Refused(bytes)
    BY <1>0 DEF Refused, Waiting
  <2> QED
    BY <2>1 DEF Fails
<1>2. received' = bytes /\ drained' = (IF Fails(bytes) THEN drained ELSE LastDecoded(bytes))
      /\ erred' = (erred \/ Fails(bytes))
  BY DEF DrainAway
<1>3. erred' <=> Fails(bytes)
  BY <1>1, <1>2 DEF FrontIsKept
<1>4. CASE Fails(bytes)
  <2>1. drained' = drained /\ Fails(received)'
    BY <1>2, <1>4 DEF Fails, Refused, Waiting
  <2>2. End(drained)' = End(drained) /\ End(drained) \in Nat
    BY <1>0, <2>1 DEF End
  <2>3. FrontIsKept'
    BY <1>0, <1>2, <2>1, <2>2 DEF FrontIsKept
  <2> QED
    BY <1>0, <1>2, <1>3, <1>4, <2>1, <2>3
<1>5. CASE ~Fails(bytes)
  <2>1. drained' = LastDecoded(bytes) /\ ~erred' /\ ~erred
    BY <1>2, <1>3, <1>5
  <2>2. /\ LastDecoded(bytes) \in Nat
        /\ LastDecoded(bytes) <= Len(stream.frames)
        /\ \A i \in DOMAIN stream.frames :
             i > LastDecoded(bytes) => ~(stream.frames[i].end <= bytes)
        /\ LastDecoded(bytes) # drained => End(LastDecoded(bytes)) <= bytes
    BY <1>5, LastDecodedIs
  <2>3. Waiting(received)' = {}
    BY <1>2, <2>1, <2>2 DEF Waiting
  <2>4. End(drained') <= bytes
    <3>1. CASE drained' = drained
      <4>1. End(drained) \in Nat
        BY <1>0 DEF End
      <4> QED
        BY <1>0, <3>1, <4>1 DEF FrontIsKept
    <3>2. CASE drained' # drained
      BY <2>1, <2>2, <3>2
    <3> QED
      BY <3>1, <3>2
  <2>5. FrontIsKept'
    BY <1>2, <2>1, <2>4 DEF FrontIsKept, End
  <2> QED
    BY <1>2, <1>3, <2>1, <2>2, <2>3, <2>5
<1> QED
  BY <1>4, <1>5

LEMMA DrainedJoins ==
  ASSUME ReaderTypeOK, NEW bytes \in Nat
  PROVE  /\ DrainedBytes(bytes) \in Seq(DecodedByte)
         /\ DecodedFrames[drained] \o DrainedBytes(bytes) = DecodedFrames[LastDecoded(bytes)]
<1>1. PICK n \in Nat : n = LastDecoded(bytes) /\ drained <= n /\ n <= Len(stream.frames)
  BY LastDecodedIs
<1>2. PICK m \in Nat : m = drained
  BY DEF ReaderTypeOK
<1>3. /\ DecodedBetween(m, n) \in Seq(DecodedByte)
      /\ DecodedFrames[m] \o DecodedBetween(m, n) = DecodedFrames[n]
  BY <1>1, <1>2, DecodedJoins DEF ReaderTypeOK
<1> QED
  BY <1>1, <1>2, <1>3 DEF DrainedBytes

LEMMA DecodedFramesStay ==
  ASSUME UNCHANGED stream
  PROVE  DecodedFrames' = DecodedFrames
BY DEF DecodedFrames, Decoded

\* Two neighbouring parts of a sequence.
IsSplit(s, p, q, r) == SubSeq(s, p + 1, q) \o SubSeq(s, q + 1, r) = SubSeq(s, p + 1, r)

LEMMA SubSeqSplit ==
  ASSUME NEW S, NEW s \in Seq(S), NEW p \in Nat, NEW q \in Nat, NEW r \in Nat,
         p <= q, q <= r, r <= Len(s)
  PROVE  IsSplit(s, p, q, r)
<1>1. PICK a : a = SubSeq(s, p + 1, q)
  OBVIOUS
<1>2. PICK b : b = SubSeq(s, q + 1, r)
  OBVIOUS
<1>3. PICK c : c = SubSeq(s, p + 1, r)
  OBVIOUS
<1>4. a \in Seq(S) /\ Len(a) = q - p /\ \A i \in 1..q - p : a[i] = s[p + i]
  BY <1>1
<1>5. b \in Seq(S) /\ Len(b) = r - q /\ \A i \in 1..r - q : b[i] = s[q + i]
  BY <1>2
<1>6. c \in Seq(S) /\ Len(c) = r - p /\ \A i \in 1..r - p : c[i] = s[p + i]
  BY <1>3
<1>7. PICK d : d = a \o b
  OBVIOUS
<1>8. d \in Seq(S) /\ Len(d) = Len(a) + Len(b)
      /\ \A i \in 1..Len(a) + Len(b) : d[i] = IF i <= Len(a) THEN a[i] ELSE b[i - Len(a)]
  BY <1>4, <1>5, <1>7, ConcatProperties
<1>9. Len(d) = r - p
  BY <1>4, <1>5, <1>8
<1>10. \A i \in 1..r - p : d[i] = c[i]
  <2> TAKE i \in 1..r - p
  <2>1. CASE i <= q - p
    BY <1>4, <1>5, <1>6, <1>8, <2>1
  <2>2. CASE ~(i <= q - p)
    <3>1. i - (q - p) \in 1..r - q /\ q + (i - (q - p)) = p + i /\ i \in 1..Len(a) + Len(b)
      BY <1>4, <1>5, <2>2
    <3>2. d[i] = b[i - (q - p)]
      BY <1>4, <1>8, <2>2, <3>1
    <3>3. b[i - (q - p)] = s[p + i]
      BY <1>5, <3>1
    <3> QED
      BY <1>6, <3>2, <3>3
  <2> QED
    BY <2>1, <2>2
<1>11. d = c
  BY <1>6, <1>8, <1>9, <1>10, SeqEqual
<1> QED
  BY <1>1, <1>2, <1>3, <1>7, <1>11 DEF IsSplit

LEMMA WholeSubSeq ==
  ASSUME NEW S, NEW s \in Seq(S)
  PROVE  SubSeq(s, 0 + 1, Len(s)) = s
OBVIOUS

LEMMA NoBytesLeft ==
  ASSUME ReaderInv, ~HasBytes
  PROVE  /\ position = Len(buffered)
         /\ SubSeq(buffered, position + 1, Len(buffered)) = <<>>
         /\ ~erred => delivered = DecodedFrames[drained] /\ Waiting(received) = {}
<1>1. buffered \in Seq(DecodedByte) /\ delivered \in Seq(DecodedByte) /\ position \in Nat
      /\ position <= Len(buffered)
  BY DEF ReaderInv, ReaderTypeOK
<1>2. position = Len(buffered)
  BY <1>1 DEF HasBytes
<1>3. SubSeq(buffered, position + 1, Len(buffered)) = <<>>
  BY <1>1, <1>2
<1>4. delivered \o <<>> = delivered
  BY <1>1
<1> QED
  BY <1>2, <1>3, <1>4 DEF ReaderInv, NothingLostOrRepeated

LEMMA InitReaderInv == Init => ReaderInv
<1> SUFFICES ASSUME Init PROVE ReaderInv
  OBVIOUS
<1>0. stream.length \in Nat /\ Len(stream.frames) \in Nat /\ DOMAIN stream.frames = 1..Len(stream.frames)
      /\ \A i \in 1..Len(stream.frames) : stream.frames[i] \in Frames
  <2>1. stream \in Streams
    BY DEF Init, DrainInit
  <2>2. stream.frames \in Seq(Frames)
    BY <2>1, FrameTypes
  <2> QED
    BY <2>1, <2>2, FrameTypes
<1>1. ReaderTypeOK
  <2>1. <<>> \in Seq(DecodedByte) /\ Len(<<>>) = 0
    OBVIOUS
  <2>2. erred \in BOOLEAN /\ inputDone \in BOOLEAN /\ finished \in BOOLEAN
    BY DEF Init, DrainInit
  <2>3. room \in Nat \cup {-1}
    BY DEF Init
  <2>4. stream \in Streams /\ received = 0 /\ drained = 0
    BY DEF Init, DrainInit
  <2>5. inner \in {"raw", "source", "gone"} /\ buffered = <<>> /\ position = 0 /\ delivered = <<>>
    BY DEF Init
  <2> QED
    BY <1>0, <2>1, <2>2, <2>3, <2>4, <2>5 DEF ReaderTypeOK
<1>2. Waiting(received) = {}
  <2>1. ASSUME NEW i \in 1..Len(stream.frames) PROVE ~(stream.frames[i].end <= 0)
    <3>1. stream.frames[i] \in Frames
      BY <1>0
    <3> QED
      BY <3>1 DEF Frames
  <2> QED
    BY <1>0, <2>1 DEF Waiting, Init, DrainInit
<1>3. DecodedFrames[0] = <<>>
  BY DecodedFramesIs
<1>4. <<>> \o SubSeq(<<>>, 0 + 1, Len(<<>>)) = <<>>
  OBVIOUS
<1>5. NothingLostOrRepeated
  BY <1>2, <1>3, <1>4 DEF NothingLostOrRepeated, Init, DrainInit
<1>6. FrontIsKept
  BY DEF FrontIsKept, End, Init, DrainInit
<1>7. PushedOrRead
  BY DEF PushedOrRead, Init, Reading
<1>8. EndsAreKnown
  BY DEF EndsAreKnown, Init
<1> QED
  BY <1>1, <1>5, <1>6, <1>7, <1>8 DEF ReaderInv

\* Pushed bytes: what is drained is delivered at once.
LEMMA PushKeepsDelivery ==
  ASSUME ReaderInv, inner = "raw", NEW bytes \in Nat, received <= bytes, bytes <= stream.length,
         DrainAway(bytes), delivered' = delivered \o DrainedBytes(bytes),
         UNCHANGED <<stream, buffered, position>>
  PROVE  delivered' \in Seq(DecodedByte) /\ NothingLostOrRepeated'
<1>0. ReaderTypeOK /\ FrontIsKept /\ buffered = <<>> /\ position = 0
  BY DEF ReaderInv, PushedOrRead
<1>1. ~HasBytes
  BY <1>0 DEF HasBytes
<1>2. ~erred => delivered = DecodedFrames[drained]
  BY <1>1, NoBytesLeft
<1>3. /\ DrainedBytes(bytes) \in Seq(DecodedByte)
      /\ DecodedFrames[drained] \o DrainedBytes(bytes) = DecodedFrames[LastDecoded(bytes)]
  BY <1>0, DrainedJoins
<1>4. delivered' \in Seq(DecodedByte)
  BY <1>0, <1>3 DEF ReaderTypeOK
<1>5. ~erred' => ~erred /\ drained' = LastDecoded(bytes) /\ Waiting(received)' = {}
  BY <1>0, DrainKeepsTheFront
<1>6. SubSeq(buffered', position' + 1, Len(buffered')) = <<>>
  BY <1>0
<1>7. delivered' \o <<>> = delivered'
  BY <1>4
<1>8. DecodedFrames' = DecodedFrames
  BY DecodedFramesStay
<1> QED
  BY <1>2, <1>3, <1>4, <1>5, <1>6, <1>7, <1>8 DEF NothingLostOrRepeated

LEMMA WriteKeepsReaderInv ==
  ASSUME ReaderInv, NEW bytes, Write(bytes)
  PROVE  ReaderInv'
<1>0. ReaderTypeOK /\ FrontIsKept
  BY DEF ReaderInv
<1>1. /\ inner = "raw" /\ DrainAway(bytes) /\ delivered' = delivered \o DrainedBytes(bytes)
      /\ UNCHANGED <<stream, inner, returned, buffered, position, inputDone, finished, room>>
      /\ bytes \in Nat /\ received <= bytes /\ bytes <= stream.length
  BY <1>0, FrameTypes DEF Write, readVars, ReaderTypeOK
<1>2. delivered' \in Seq(DecodedByte) /\ NothingLostOrRepeated'
  BY <1>1, PushKeepsDelivery
<1>3. /\ received' = bytes /\ drained' \in Nat /\ drained' <= Len(stream.frames)
      /\ erred' \in BOOLEAN /\ FrontIsKept' /\ (erred' <=> Fails(bytes))
  BY <1>0, <1>1, DrainKeepsTheFront
<1>4. ReaderTypeOK'
  BY <1>0, <1>1, <1>2, <1>3 DEF ReaderTypeOK
<1>5. PushedOrRead'
  BY <1>1 DEF ReaderInv, PushedOrRead, Reading
<1>6. EndsAreKnown'
  <2>1. returned = "none" /\ ~HasBytes
    BY <1>1 DEF ReaderInv, EndsAreKnown, PushedOrRead, HasBytes
  <2>2. ASSUME inputDone PROVE received' = stream.length
    BY <1>0, <1>1, <1>3, <2>2 DEF ReaderInv, EndsAreKnown, ReaderTypeOK
  <2>3. ASSUME finished PROVE ~erred' /\ (End(drained) = received)' /\ inputDone
    <3>1. ~erred /\ End(drained) = received /\ inputDone /\ received = stream.length
      BY <2>3 DEF ReaderInv, EndsAreKnown
    <3>2. bytes = received
      BY <1>0, <1>1, <3>1 DEF ReaderTypeOK
    <3>3. delivered = DecodedFrames[drained] /\ Waiting(received) = {}
      BY <2>1, <3>1, NoBytesLeft
    <3>4. ~Fails(bytes) /\ LastDecoded(bytes) = drained
      BY <3>2, <3>3 DEF Fails, Refused, LastDecoded
    <3>5. drained' = drained
      BY <1>1, <3>4 DEF DrainAway
    <3> QED
      BY <1>1, <1>3, <3>1, <3>2, <3>4, <3>5 DEF End
  <2> QED
    BY <1>1, <2>1, <2>2, <2>3 DEF EndsAreKnown
<1> QED
  BY <1>2, <1>3, <1>4, <1>5, <1>6 DEF ReaderInv

LEMMA FinishKeepsReaderInv ==
  ASSUME ReaderInv, Finish
  PROVE  ReaderInv'
<1>0. ReaderTypeOK /\ FrontIsKept
  BY DEF ReaderInv
<1>1. /\ inner = "raw" /\ DrainAway(received) /\ delivered' = delivered \o DrainedBytes(received)
      /\ UNCHANGED <<stream, buffered, position, inputDone, finished, room>>
      /\ inner' = "gone"
      /\ returned' = IF Fails(received) THEN "error"
                     ELSE IF PendingIsEmpty(received, drained') THEN "end" ELSE "truncated"
  BY DEF Finish, readVars
<1>2. delivered' \in Seq(DecodedByte) /\ NothingLostOrRepeated'
  <2>1. PICK bytes \in Nat : bytes = received /\ bytes <= stream.length
    BY <1>0 DEF ReaderTypeOK
  <2>2. received <= bytes
    BY <1>0, <2>1 DEF ReaderTypeOK
  <2>3. DrainAway(bytes) /\ delivered' = delivered \o DrainedBytes(bytes)
    BY <1>1, <2>1
  <2> QED
    BY <1>1, <2>1, <2>2, <2>3, PushKeepsDelivery
<1>3. /\ received' = received /\ drained' \in Nat /\ drained' <= Len(stream.frames)
      /\ erred' \in BOOLEAN /\ FrontIsKept' /\ (erred' <=> Fails(received))
  BY <1>0, <1>1, DrainKeepsTheFront DEF ReaderTypeOK
<1>4. ReaderTypeOK'
  BY <1>0, <1>1, <1>2, <1>3 DEF ReaderTypeOK
<1>5. PushedOrRead'
  BY <1>1 DEF ReaderInv, PushedOrRead, Reading
<1>6. EndsAreKnown'
  <2>1. ~HasBytes' /\ ~HasBytes
    BY <1>1 DEF ReaderInv, PushedOrRead, HasBytes
  <2>2. returned' = "end" => ~erred' /\ (End(drained) = received)'
    BY <1>1, <1>3 DEF PendingIsEmpty, End
  <2>3. returned' = "truncated" => (End(drained) # received)'
    BY <1>1, <1>3 DEF PendingIsEmpty, End
  <2>4. ASSUME finished PROVE ~erred' /\ (End(drained) = received)' /\ inputDone
    <3>1. ~erred /\ End(drained) = received /\ inputDone
      BY <2>4 DEF ReaderInv, EndsAreKnown
    <3>3. Waiting(received) = {}
      BY <2>1, <3>1, NoBytesLeft
    <3>4. ~Fails(received) /\ LastDecoded(received) = drained
      BY <3>3 DEF Fails, Refused, LastDecoded
    <3>5. drained' = drained
      BY <1>1, <3>4 DEF DrainAway
    <3> QED
      BY <1>1, <1>3, <3>1, <3>4, <3>5 DEF End
  <2>5. inputDone => received' = stream.length
    BY <1>3 DEF ReaderInv, EndsAreKnown
  <2> QED
    BY <1>1, <2>1, <2>2, <2>3, <2>4, <2>5 DEF EndsAreKnown
<1> QED
  BY <1>2, <1>3, <1>4, <1>5, <1>6 DEF ReaderInv

\* Nothing but the call's own variables moves.
LEMMA RestKeepsReaderInv ==
  ASSUME ReaderInv,
         UNCHANGED <<stream, received, drained, erred, inner, buffered, position, inputDone, finished,
                     delivered>>,
         room' \in Nat \cup {-1}, room' # -1 => inner = "source",
         \/ UNCHANGED returned
         \/ returned' = "end" /\ ~HasBytes /\ finished
  PROVE  ReaderInv'
<1>1. ReaderTypeOK'
  BY DEF ReaderInv, ReaderTypeOK
<1>2. FrontIsKept'
  BY DEF ReaderInv, FrontIsKept, End, Fails, Refused, Waiting
<1>3. PushedOrRead'
  BY DEF ReaderInv, PushedOrRead, Reading
<1>4. DecodedFrames' = DecodedFrames
  BY DecodedFramesStay
<1>5. NothingLostOrRepeated'
  BY <1>4 DEF ReaderInv, NothingLostOrRepeated, Waiting
<1>6. EndsAreKnown'
  <2>1. CASE UNCHANGED returned
    BY <2>1 DEF ReaderInv, EndsAreKnown, End, HasBytes
  <2>2. CASE returned' = "end" /\ ~HasBytes /\ finished
    <3>1. inner = "source"
      BY <2>2 DEF ReaderInv, EndsAreKnown, PushedOrRead, ReaderTypeOK
    <3> QED
      BY <2>2, <3>1 DEF ReaderInv, EndsAreKnown, End, HasBytes
  <2> QED
    BY <2>1, <2>2
<1> QED
  BY <1>1, <1>2, <1>3, <1>5, <1>6 DEF ReaderInv

LEMMA HandOutKeepsReaderInv ==
  ASSUME ReaderInv, HandOut
  PROVE  ReaderInv'
<1>0. ReaderTypeOK /\ FrontIsKept /\ PushedOrRead /\ EndsAreKnown /\ NothingLostOrRepeated
  BY DEF ReaderInv
<1>1. /\ Reading /\ HasBytes /\ inner = "source"
      /\ UNCHANGED <<stream, received, drained, erred, inner, buffered, inputDone, finished>>
      /\ room' = -1 /\ returned' = "bytes"
  BY <1>0 DEF HandOut, Return, drainVars, PushedOrRead
<1>2. PICK q \in Nat : /\ position <= q /\ q <= Len(buffered) /\ position' = q
                        /\ delivered' = delivered \o SubSeq(buffered, position + 1, q)
  <2>1. room \in Nat /\ position \in Nat /\ Len(buffered) \in Nat /\ position < Len(buffered)
    BY <1>0, <1>1 DEF ReaderTypeOK, Reading, HasBytes
  <2>2. CASE Len(buffered) - position < room
    <3>1. PICK take \in Nat : take = Len(buffered) - position
      BY <2>1
    <3>2. /\ delivered' = delivered \o SubSeq(buffered, position + 1, position + take)
          /\ position' = position + take
      BY <2>2, <3>1 DEF HandOut
    <3>3. position + take \in Nat /\ position <= position + take /\ position + take <= Len(buffered)
      BY <2>1, <3>1
    <3> QED
      BY <3>2, <3>3
  <2>3. CASE ~(Len(buffered) - position < room)
    <3>1. /\ delivered' = delivered \o SubSeq(buffered, position + 1, position + room)
          /\ position' = position + room
      BY <2>3 DEF HandOut
    <3>2. position + room \in Nat /\ position <= position + room /\ position + room <= Len(buffered)
      BY <2>1, <2>3
    <3> QED
      BY <3>1, <3>2
  <2> QED
    BY <2>2, <2>3
<1>3. PICK p \in Nat, b \in Seq(DecodedByte), d \in Seq(DecodedByte) :
         p = position /\ b = buffered /\ d = delivered
  BY <1>0 DEF ReaderTypeOK
<1>4. PICK r \in Nat : r = Len(b)
  OBVIOUS
<1>5. PICK s \in Seq(DecodedByte), t \in Seq(DecodedByte) : s = SubSeq(b, p + 1, q) /\ t = SubSeq(b, q + 1, r)
  <2>1. SubSeq(b, p + 1, q) \in Seq(DecodedByte)
    BY <1>2, <1>3
  <2>2. SubSeq(b, q + 1, r) \in Seq(DecodedByte)
    BY <1>4
  <2> QED
    BY <2>1, <2>2
<1>6. s \o t = SubSeq(b, p + 1, r)
  <2>1. IsSplit(b, p, q, r)
    BY <1>2, <1>3, <1>4, SubSeqSplit
  <2> QED
    BY <1>5, <2>1 DEF IsSplit
<1>7. (d \o s) \o t = d \o (s \o t)
  BY ConcatAssociative
<1>8. delivered' = d \o s /\ delivered' \in Seq(DecodedByte)
  BY <1>2, <1>3, <1>5
<1>9. NothingLostOrRepeated'
  <2>1. DecodedFrames' = DecodedFrames
    BY <1>1, DecodedFramesStay
  <2>2. Waiting(received)' = Waiting(received)
    BY <1>1 DEF Waiting
  <2>3. delivered' \o SubSeq(buffered', position' + 1, Len(buffered'))
          = delivered \o SubSeq(buffered, position + 1, Len(buffered))
    BY <1>1, <1>2, <1>3, <1>4, <1>5, <1>6, <1>7, <1>8
  <2> QED
    BY <1>0, <1>1, <2>1, <2>2, <2>3 DEF NothingLostOrRepeated
<1>10. ReaderTypeOK'
  BY <1>0, <1>1, <1>2, <1>8 DEF ReaderTypeOK
<1>11. FrontIsKept'
  BY <1>0, <1>1 DEF FrontIsKept, End, Fails, Refused, Waiting
<1>12. PushedOrRead'
  BY <1>1 DEF PushedOrRead
<1>13. EndsAreKnown'
  BY <1>0, <1>1 DEF EndsAreKnown, End
<1> QED
  BY <1>9, <1>10, <1>11, <1>12, <1>13 DEF ReaderInv

\* A piece, or the last frames: what is drained is buffered.
LEMMA BufferKeepsDelivery ==
  ASSUME ReaderInv, ~HasBytes, NEW bytes \in Nat, received <= bytes, bytes <= stream.length,
         DrainAway(bytes), buffered' = DrainedBytes(bytes), position' = 0,
         UNCHANGED <<stream, delivered>>
  PROVE  buffered' \in Seq(DecodedByte) /\ NothingLostOrRepeated'
<1>0. ReaderTypeOK /\ FrontIsKept
  BY DEF ReaderInv
<1>2. ~erred => delivered = DecodedFrames[drained]
  BY NoBytesLeft
<1>3. /\ DrainedBytes(bytes) \in Seq(DecodedByte)
      /\ DecodedFrames[drained] \o DrainedBytes(bytes) = DecodedFrames[LastDecoded(bytes)]
  BY <1>0, DrainedJoins
<1>4. ~erred' => ~erred /\ drained' = LastDecoded(bytes) /\ Waiting(received)' = {}
  BY <1>0, DrainKeepsTheFront
<1>5. SubSeq(buffered', position' + 1, Len(buffered')) = DrainedBytes(bytes)
  <2>1. PICK b \in Seq(DecodedByte) : b = DrainedBytes(bytes)
    BY <1>3
  <2>2. SubSeq(b, 0 + 1, Len(b)) = b
    BY WholeSubSeq
  <2> QED
    BY <2>1, <2>2
<1>6. DecodedFrames' = DecodedFrames
  BY DecodedFramesStay
<1> QED
  BY <1>2, <1>3, <1>4, <1>5, <1>6 DEF NothingLostOrRepeated

LEMMA FetchKeepsReaderInv ==
  ASSUME ReaderInv, NEW bytes, Fetch(bytes)
  PROVE  ReaderInv'
<1>0. ReaderTypeOK /\ FrontIsKept /\ PushedOrRead /\ EndsAreKnown
  BY DEF ReaderInv
<1>1. /\ Reading /\ ~HasBytes /\ ~finished /\ ~inputDone /\ inner = "source"
      /\ DrainAway(bytes) /\ buffered' = DrainedBytes(bytes) /\ position' = 0
      /\ UNCHANGED <<stream, inner, inputDone, finished, delivered>>
      /\ bytes \in Nat /\ received <= bytes /\ bytes <= stream.length
      /\ \/ room' = -1 /\ returned' = "error"
         \/ UNCHANGED <<room, returned>>
  BY <1>0, FrameTypes DEF Fetch, CanFetch, ReaderTypeOK, Return, PushedOrRead
<1>2. buffered' \in Seq(DecodedByte) /\ NothingLostOrRepeated'
  BY <1>1, BufferKeepsDelivery
<1>3. /\ received' = bytes /\ drained' \in Nat /\ drained' <= Len(stream.frames)
      /\ erred' \in BOOLEAN /\ FrontIsKept'
  BY <1>0, <1>1, DrainKeepsTheFront
<1>4. ReaderTypeOK'
  BY <1>0, <1>1, <1>2, <1>3 DEF ReaderTypeOK
<1>5. PushedOrRead'
  BY <1>1 DEF PushedOrRead
<1>6. EndsAreKnown'
  BY <1>0, <1>1 DEF EndsAreKnown
<1> QED
  BY <1>2, <1>3, <1>4, <1>5, <1>6 DEF ReaderInv

LEMMA FinishFramesKeepsReaderInv ==
  ASSUME ReaderInv, FinishFrames
  PROVE  ReaderInv'
<1>0. ReaderTypeOK /\ FrontIsKept /\ PushedOrRead /\ EndsAreKnown
  BY DEF ReaderInv
<1>1. /\ Reading /\ ~HasBytes /\ ~finished /\ inputDone /\ inner = "source"
      /\ DrainAway(received) /\ buffered' = DrainedBytes(received) /\ position' = 0
      /\ UNCHANGED <<stream, inner, inputDone, delivered>>
  BY <1>0 DEF FinishFrames, PushedOrRead
<1>2. buffered' \in Seq(DecodedByte) /\ NothingLostOrRepeated'
  <2>1. PICK bytes \in Nat : bytes = received /\ bytes <= stream.length
    BY <1>0 DEF ReaderTypeOK
  <2>2. received <= bytes
    BY <1>0, <2>1 DEF ReaderTypeOK
  <2>3. DrainAway(bytes) /\ buffered' = DrainedBytes(bytes)
    BY <1>1, <2>1
  <2> QED
    BY <1>1, <2>1, <2>2, <2>3, BufferKeepsDelivery
<1>3. /\ received' = received /\ drained' \in Nat /\ drained' <= Len(stream.frames)
      /\ erred' \in BOOLEAN /\ FrontIsKept' /\ (erred' <=> Fails(received))
  BY <1>0, <1>1, DrainKeepsTheFront DEF ReaderTypeOK
<1>4. /\ finished' \in BOOLEAN /\ room' \in Nat \cup {-1}
      /\ finished' => ~Fails(received) /\ PendingIsEmpty(received, drained')
      /\ returned' = "end" => returned = "end" \/ (finished' /\ buffered' = <<>>)
      /\ returned' = "truncated" => returned = "truncated" \/ ~PendingIsEmpty(received, drained')
  <2>1. CASE Fails(received) \/ ~PendingIsEmpty(received, drained')
    <3>1. room' = -1 /\ returned' = (IF Fails(received) THEN "error" ELSE "truncated") /\ finished' = finished
      BY <2>1 DEF FinishFrames, Return
    <3>2. finished' \in BOOLEAN /\ ~finished'
      BY <1>0, <1>1, <3>1 DEF ReaderTypeOK
    <3>3. CASE Fails(received)
      BY <3>1, <3>2, <3>3
    <3>4. CASE ~Fails(received)
      BY <2>1, <3>1, <3>2, <3>4
    <3> QED
      BY <3>3, <3>4
  <2>2. CASE ~(Fails(received) \/ ~PendingIsEmpty(received, drained'))
    <3>1. finished' = TRUE /\ IF buffered' = <<>> THEN room' = -1 /\ returned' = "end"
                              ELSE UNCHANGED <<room, returned>>
      BY <2>2 DEF FinishFrames, Return
    <3>2. CASE buffered' = <<>>
      <4>1. room' = -1 /\ returned' = "end"
        BY <3>1, <3>2
      <4> QED
        BY <2>2, <3>1, <3>2, <4>1
    <3>3. CASE buffered' # <<>>
      <4>1. room' = room /\ returned' = returned
        BY <3>1, <3>3
      <4>2. room' \in Nat \cup {-1}
        BY <1>0, <4>1 DEF ReaderTypeOK
      <4> QED
        BY <2>2, <3>1, <4>1, <4>2
    <3> QED
      BY <3>2, <3>3
  <2> QED
    BY <2>1, <2>2
<1>5. ReaderTypeOK'
  BY <1>0, <1>1, <1>2, <1>3, <1>4 DEF ReaderTypeOK
<1>6. PushedOrRead'
  BY <1>1 DEF PushedOrRead
<1>7. EndsAreKnown'
  <2>1. returned # "end"
    BY <1>0, <1>1 DEF EndsAreKnown
  <2>2. (End(drained) = received)' <=> PendingIsEmpty(received, drained')
    BY <1>1, <1>3 DEF PendingIsEmpty, End
  <2>3. finished' => ~erred' /\ (End(drained) = received)' /\ inputDone'
    BY <1>1, <1>3, <1>4, <2>2
  <2>4. returned' = "end" => ~HasBytes' /\ finished'
    <3>1. buffered' = <<>> => ~HasBytes'
      BY <1>1 DEF HasBytes
    <3> QED
      BY <1>4, <2>1, <3>1
  <2>5. returned' = "truncated" => (End(drained) # received)'
    <3>1. ASSUME returned = "truncated", PendingIsEmpty(received, drained') PROVE FALSE
      <4>1. End(drained) # received
        BY <1>0, <3>1 DEF EndsAreKnown
      <4>2. drained' # drained
        BY <3>1, <4>1 DEF PendingIsEmpty
      <4>3. ~Fails(received) /\ drained' = LastDecoded(received)
        BY <1>1, <4>2 DEF DrainAway
      <4>4. ~erred
        BY <1>0, <4>3 DEF FrontIsKept
      <4>5. Waiting(received) = {}
        BY <1>1, <4>4, NoBytesLeft
      <4>6. LastDecoded(received) = drained
        BY <4>3, <4>5 DEF LastDecoded
      <4> QED
        BY <4>2, <4>3, <4>6
    <3> QED
      BY <1>4, <2>2, <3>1
  <2>6. inputDone' => received' = stream.length'
    BY <1>0, <1>1, <1>3 DEF EndsAreKnown
  <2> QED
    BY <1>1, <2>3, <2>4, <2>5, <2>6 DEF EndsAreKnown
<1> QED
  BY <1>2, <1>3, <1>5, <1>6, <1>7 DEF ReaderInv

\* The source has an error or is at its end: what was buffered is handed out.
LEMMA EmptiedKeepsReaderInv ==
  ASSUME ReaderInv, CanFetch, buffered' = <<>>, position' = 0,
         UNCHANGED <<stream, received, drained, erred, inner, finished, delivered>>,
         inputDone' \in BOOLEAN, inputDone' => received = stream.length,
         room' \in Nat \cup {-1},
         UNCHANGED returned \/ returned' = "error"
  PROVE  ReaderInv'
<1>0. ReaderTypeOK /\ FrontIsKept /\ PushedOrRead /\ EndsAreKnown
  BY DEF ReaderInv
<1>1. ~HasBytes /\ ~finished /\ ~inputDone /\ inner = "source"
  BY <1>0 DEF CanFetch, PushedOrRead
<1>2. NothingLostOrRepeated'
  <2>1. ~erred => delivered = DecodedFrames[drained] /\ Waiting(received) = {}
    BY <1>1, NoBytesLeft
  <2>2. SubSeq(buffered', position' + 1, Len(buffered')) = <<>>
    OBVIOUS
  <2>3. delivered' \o <<>> = delivered
    BY <1>0 DEF ReaderTypeOK
  <2>4. DecodedFrames' = DecodedFrames /\ Waiting(received)' = Waiting(received)
    BY DecodedFramesStay DEF Waiting
  <2> QED
    BY <2>1, <2>2, <2>3, <2>4 DEF NothingLostOrRepeated
<1>3. ReaderTypeOK'
  <2>1. buffered' \in Seq(DecodedByte) /\ position' <= Len(buffered')
    OBVIOUS
  <2> QED
    BY <1>0, <2>1 DEF ReaderTypeOK
<1>4. FrontIsKept'
  BY <1>0 DEF FrontIsKept, End, Fails, Refused, Waiting
<1>5. PushedOrRead'
  BY <1>1 DEF PushedOrRead
<1>6. EndsAreKnown'
  BY <1>0, <1>1 DEF EndsAreKnown
<1> QED
  BY <1>2, <1>3, <1>4, <1>5, <1>6 DEF ReaderInv

\* The reader's invariant holds in every state, for every input and cut.
THEOREM AlwaysReaderInv == Spec => []ReaderInv
<1>1. Init => ReaderInv
  BY InitReaderInv
<1>2. ReaderInv /\ [Next]_vars => ReaderInv'
  <2> SUFFICES ASSUME ReaderInv, [Next]_vars PROVE ReaderInv'
    OBVIOUS
  <2>0. ReaderTypeOK
    BY DEF ReaderInv
  <2>1. ASSUME NEW bytes, Write(bytes) PROVE ReaderInv'
    BY <2>1, WriteKeepsReaderInv
  <2>2. CASE Finish
    BY <2>2, FinishKeepsReaderInv
  <2>3. ASSUME NEW size \in 0..MaxBuffer, Call(size) PROVE ReaderInv'
    <3>1. size \in Nat /\ room' = size
      BY <2>3, DecompressorAssumption DEF Call
    <3> QED
      BY <2>3, <3>1, RestKeepsReaderInv DEF Call, drainVars
  <2>4. CASE HandOut
    BY <2>4, HandOutKeepsReaderInv
  <2>5. CASE ReturnEnd
    BY <2>5, RestKeepsReaderInv DEF ReturnEnd, Return, drainVars
  <2>6. CASE FinishFrames
    BY <2>6, FinishFramesKeepsReaderInv
  <2>7. CASE Interrupted
    BY <2>0, <2>7, EmptiedKeepsReaderInv DEF Interrupted, Return, drainVars, ReaderTypeOK, CanFetch
  <2>8. CASE SourceEnds
    BY <2>0, <2>8, EmptiedKeepsReaderInv DEF SourceEnds, drainVars, ReaderTypeOK
  <2>9. ASSUME NEW bytes, Fetch(bytes) PROVE ReaderInv'
    BY <2>9, FetchKeepsReaderInv
  <2>10. CASE UNCHANGED vars
    BY <2>0, <2>10, RestKeepsReaderInv DEF vars, drainVars, readVars, ReaderTypeOK, ReaderInv, PushedOrRead, Reading
  <2> QED
    BY <2>1, <2>2, <2>3, <2>4, <2>5, <2>6, <2>7, <2>8, <2>9, <2>10 DEF Next, InsideACall, Stopped
<1> QED
  BY <1>1, <1>2, PTL DEF Spec

\* Until a call fails, what was delivered and what is buffered is what the
\* frames that came whole decode to, each byte once and in order, wherever the
\* input was cut.
THEOREM AlwaysNothingLostOrRepeated == Spec => []NothingLostOrRepeated
<1>1. ReaderInv => NothingLostOrRepeated
  BY DEF ReaderInv
<1> QED
  BY <1>1, AlwaysReaderInv, PTL

\* Whoever is told that the input has ended has every byte of every frame, and
\* a source is then at its end.
THEOREM AlwaysEndIsTheEnd == Spec => []EndIsTheEnd
<1>1. ReaderInv => EndIsTheEnd
  <2> SUFFICES ASSUME ReaderInv PROVE EndIsTheEnd
    OBVIOUS
  <2>0. ReaderTypeOK /\ FrontIsKept /\ EndsAreKnown
    BY DEF ReaderInv
  <2>1. ASSUME returned = "end"
        PROVE  /\ ~erred /\ End(drained) = received /\ delivered = DecodedFrames[drained]
               /\ inner = "source" => received = stream.length
    <3>1. ~HasBytes /\ ~erred /\ End(drained) = received /\ (inner = "source" => finished)
      BY <2>0, <2>1 DEF EndsAreKnown
    <3>2. delivered = DecodedFrames[drained]
      BY <3>1, NoBytesLeft
    <3> QED
      BY <2>0, <3>1, <3>2 DEF EndsAreKnown
  <2>2. ASSUME returned = "truncated" PROVE received > End(drained)
    <3>1. End(drained) # received /\ End(drained) <= received /\ received \in Nat
      BY <2>0, <2>2 DEF EndsAreKnown, FrontIsKept, ReaderTypeOK
    <3>2. End(drained) \in Nat
      BY <2>0, FrameTypes DEF End, ReaderTypeOK
    <3> QED
      BY <3>1, <3>2
  <2> QED
    BY <2>1, <2>2 DEF EndIsTheEnd
<1> QED
  BY <1>1, AlwaysReaderInv, PTL
=============================================================================
