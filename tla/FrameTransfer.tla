--------------------------- MODULE FrameTransfer ---------------------------
(***************************************************************************)
(* What the block layer promises, with no table, tree or workspace in it:  *)
(* the blocks of a frame are read as they were written, in order, none     *)
(* lost, none twice.  A block is whatever a reader must know to read it.   *)
(* A writer may give up, and what is damaged on the way promises nothing,  *)
(* but the next frame starts clean.                                        *)
(***************************************************************************)
EXTENDS Naturals, Sequences

VARIABLES
  sent,    \* the blocks of this frame, as they were written
  got,     \* the blocks of this frame, as they were read
  phase    \* "writing", "reading", "received", "given_up" or "damaged"

Init == sent = <<>> /\ got = <<>> /\ phase = "writing"

IsPrefixOf(s, t) == Len(s) <= Len(t) /\ s = SubSeq(t, 1, Len(s))

\* One block or, when it was split, several at once; never half a split.
Send ==
  /\ phase = "writing"
  /\ Len(sent') > Len(sent) /\ IsPrefixOf(sent, sent')
  /\ phase' \in {"writing", "reading"}
  /\ UNCHANGED got

GiveUp == phase = "writing" /\ phase' = "given_up" /\ UNCHANGED <<sent, got>>

\* One block or two.
Deliver ==
  /\ phase = "reading"
  /\ Len(got') \in {Len(got) + 1, Len(got) + 2}
  /\ IsPrefixOf(got, got') /\ IsPrefixOf(got', sent)
  /\ phase' = IF Len(got') = Len(sent) THEN "received" ELSE "reading"
  /\ UNCHANGED sent

Damage == phase = "reading" /\ phase' = "damaged" /\ UNCHANGED <<sent, got>>

ReadDamaged == phase = "damaged" /\ phase' = "damaged" /\ UNCHANGED sent

NewFrame ==
  /\ phase \in {"received", "given_up", "damaged"}
  /\ sent' = <<>> /\ got' = <<>> /\ phase' = "writing"

Next == Send \/ GiveUp \/ Deliver \/ Damage \/ ReadDamaged \/ NewFrame

Spec == Init /\ [][Next]_<<sent, got, phase>>
=============================================================================
