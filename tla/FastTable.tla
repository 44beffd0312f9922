----------------------------- MODULE FastTable -----------------------------
(***************************************************************************)
(* FastFinder's table of positions.  The table is not cleared between      *)
(* inputs: a position is stored with "firstIndex" added, and each input    *)
(* starts at a firstIndex past everything the last one stored, until that  *)
(* no longer fits a u32.  The test reused_workspace_matches_fresh_workspace*)
(* _output asks that a finder that has seen other inputs finds what a new  *)
(* one finds; here the two run side by side.                               *)
(*                                                                         *)
(* What is in the input is left open: any position may have any hash, and  *)
(* may be saved whenever search could save it.                             *)
(***************************************************************************)
EXTENDS Integers

CONSTANTS
  PositionSize,   \* 2^32: stored positions are u32
  UsizeSize,  \* 2^64, or 2^32 on wasm32: reset computes with usize
  Hashes,     \* hash values of the table
  Window,     \* 1 << window_log
  ReadSize,   \* READ_SIZE
  MaxLength   \* bound: length of an input

ASSUME FastTableAssumption ==
  /\ PositionSize \in Nat /\ PositionSize > ReadSize + 2
  /\ UsizeSize \in Nat /\ UsizeSize >= PositionSize
  /\ Window \in Nat /\ ReadSize \in Nat \ {0}
  /\ MaxLength \in Nat /\ 2 * MaxLength < UsizeSize

VARIABLES
  reused,   \* a FastFinder with a past
  fresh,    \* history: a FastFinder made for this input
  length    \* the length of this input

vars == <<reused, fresh, length>>

\* FastFinder::new.
NewFinder == [positions |-> [h \in Hashes |-> 0], firstIndex |-> 1, lastInputLength |-> 0]

\* One addition of two usizes, in a build without overflow checks.
WrapUsize(n) == IF n < UsizeSize THEN n ELSE n - UsizeSize

\* Broken: the next input starts one further, wherever the last one ended.
BrokenNextFirstIndex(finder) == WrapUsize(finder.firstIndex + 1)

NextFirstIndex(finder) ==
  WrapUsize(WrapUsize(finder.firstIndex + finder.lastInputLength) + 1)

\* MatchFinder::reset.
Reset(finder, n) ==
  IF WrapUsize(NextFirstIndex(finder) + n) >= PositionSize - 1
  THEN [positions |-> [h \in Hashes |-> 0], firstIndex |-> 1, lastInputLength |-> n]
  ELSE [positions |-> finder.positions, firstIndex |-> NextFirstIndex(finder),
        lastInputLength |-> n]

WrapPosition(n) == IF n < PositionSize THEN n ELSE n - PositionSize

\* save_position, whose u32 addition wraps in a build without overflow checks.
SavePosition(finder, h, position) ==
  [positions       |-> [g \in Hashes |-> IF g = h THEN WrapPosition(position + finder.firstIndex)
                                                  ELSE finder.positions[g]],
   firstIndex      |-> finder.firstIndex,
   lastInputLength |-> finder.lastInputLength]

\* get_candidate.
Candidate(finder, h) ==
  IF finder.positions[h] >= finder.firstIndex
  THEN finder.positions[h] - finder.firstIndex
  ELSE finder.positions[h] + PositionSize - finder.firstIndex

\* The window of a search in the input up to "end".
WindowStart(end) == IF end > Window THEN end - Window ELSE 0

\* is_match, for a candidate whose four bytes match.
IsMatch(position, candidate, end) == WindowStart(end) <= candidate /\ candidate < position

\* A search reads whole words, in inputs whose positions fit a u32.
Searched(position, end) ==
  position + ReadSize <= end /\ end <= length /\ end <= PositionSize - 1

Init ==
  /\ length \in 0..MaxLength
  /\ reused = Reset(NewFinder, length)
  /\ fresh = Reset(NewFinder, length)

\* The finder is reset for the next input.
NextInput(n) ==
  /\ reused' = Reset(reused, n)
  /\ fresh' = Reset(NewFinder, n)
  /\ length' = n

\* search saves a position of the input up to some block's end.
Save(h, position) ==
  /\ \E end \in 0..length : Searched(position, end)
  /\ reused' = SavePosition(reused, h, position)
  /\ fresh' = SavePosition(fresh, h, position)
  /\ UNCHANGED length

Next ==
  \/ \E n \in 0..MaxLength : NextInput(n)
  \/ \E h \in Hashes, position \in 0..MaxLength : Save(h, position)

Spec == Init /\ [][Next]_vars
-----------------------------------------------------------------------------
Finders ==
  [positions : [Hashes -> 0..PositionSize - 1], firstIndex : 1..PositionSize - 1,
   lastInputLength : 0..MaxLength]

TypeOK == reused \in Finders /\ fresh \in Finders /\ length \in 0..MaxLength

\* The match search takes at "position" from a table, or -1.
Match(finder, h, position, end) ==
  IF IsMatch(position, Candidate(finder, h), end) THEN Candidate(finder, h) ELSE -1

\* Wherever a search may look and whatever hash it finds there, a finder that
\* has seen other inputs takes the match a new one takes: no position of an
\* earlier input passes for one of this.
ReusedMatchesFresh ==
  \A h \in Hashes, position, end \in 0..length :
    Searched(position, end) => Match(reused, h, position, end) = Match(fresh, h, position, end)

-----------------------------------------------------------------------------
\* What makes it so: everything stored is below firstIndex or a position of
\* this input, the same in both tables; and what is below stays out of reach.
Stale(finder, h) == finder.positions[h] < finder.firstIndex

\* The positions of this input fit a u32 behind firstIndex, or start at 1.
Fitting(finder) ==
  /\ finder.lastInputLength = length
  /\ finder.firstIndex + length < PositionSize - 1 \/ finder.firstIndex = 1

SamePositions ==
  \A h \in Hashes :
    \/ Stale(reused, h) /\ Stale(fresh, h)
    \/ \E position \in 0..MaxLength :
         /\ position < length /\ position + ReadSize <= PositionSize - 1
         /\ reused.positions[h] = reused.firstIndex + position
         /\ fresh.positions[h] = fresh.firstIndex + position

IInv == TypeOK /\ Fitting(reused) /\ Fitting(fresh) /\ SamePositions
=============================================================================
