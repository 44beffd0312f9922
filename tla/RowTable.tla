----------------------------- MODULE RowTable ------------------------------
(***************************************************************************)
(* One row of Lazy2Finder's table.  A row is a ring of the positions last  *)
(* inserted with its hash, each with a tag, that is filled backwards: slot *)
(* 0 holds the index of the newest instead of a tag.  A search walks from  *)
(* the newest on and stops at the first position out of its reach, be it   *)
(* behind the window, from an earlier input, or never written.  As in      *)
(* FastTable an input does not clear the table but starts at a new base.   *)
(***************************************************************************)
EXTENDS Integers, Sequences, FiniteSets

CONSTANTS
  WordSize,      \* 2^32: stored positions are u32
  UsizeSize,     \* 2^64, or 2^32 on wasm32
  Mask,          \* row_mask: slots 1..Mask hold positions
  Tags,          \* tags; 0 is that of an empty slot
  TableLength,   \* positions.len(): entries of all rows together
  Window,        \* 1 << window_log
  Attempts,      \* search_attempts
  MaxLength      \* bound: length of an input

RowTableAssumption ==
  /\ WordSize \in Nat /\ UsizeSize >= WordSize
  /\ Mask \in Nat \ {0} /\ Tags \subseteq Nat /\ 0 \in Tags
  /\ TableLength \in Nat /\ Window \in Nat /\ Attempts \in Nat
  /\ MaxLength \in Nat /\ MaxLength < WordSize

VARIABLES
  head,        \* tags[row_base]
  tags,        \* the other tags of the row
  positions,   \* the positions of the row
  base,        \* base
  length,      \* the length of this input, last_input_length
  inserted     \* history: <<position, tag>> of this input, in their order

vars == <<head, tags, positions, base, length, inserted>>

Slots == 1..Mask

\* One addition of two usizes, or u32s, in a build without overflow checks.
WrapUsize(n) == n % UsizeSize
WrapWord(n) == n % WordSize

\* Tables over zeroed memory.
Init ==
  /\ head = 0 /\ tags = [s \in Slots |-> 0] /\ positions = [s \in Slots |-> 0]
  /\ base = 0 /\ length = 0 /\ inserted = <<>>

\* Broken: the base of the next input is that of the last position of this.
BrokenNextBase == WrapUsize(base + length)

NextBase == WrapUsize(WrapUsize(base + length) + 1)

MustClear(n) == n >= TableLength \/ WrapUsize(NextBase + n) >= WordSize - 1

\* MatchFinder::reset; tags.fill(0) clears the head as well.
Reset(n) ==
  /\ IF MustClear(n)
     THEN /\ positions' = [s \in Slots |-> WordSize - 1]
          /\ tags' = [s \in Slots |-> 0]
          /\ head' = 0 /\ base' = 0
     ELSE /\ base' = NextBase
          /\ UNCHANGED <<head, tags, positions>>
  /\ length' = n
  /\ inserted' = <<>>

\* The slot before the newest, leaving out slot 0.
Newest == IF head \in {0, 1} THEN Mask ELSE head - 1

\* insert_unchecked, of a position behind those inserted before.
Insert(position, tag) ==
  /\ position < length
  /\ \A i \in DOMAIN inserted : inserted[i][1] < position
  /\ head' = Newest
  /\ tags' = [tags EXCEPT ![Newest] = tag]
  /\ positions' = [positions EXCEPT ![Newest] = WrapWord(position + base)]
  /\ inserted' = Append(inserted, <<position, tag>>)
  /\ UNCHANGED <<base, length>>

Next ==
  \/ \E n \in 0..MaxLength : Reset(n)
  \/ \E position \in 0..MaxLength, tag \in Tags : Insert(position, tag)

Spec == Init /\ [][Next]_vars
-----------------------------------------------------------------------------
LowestValid(position) == IF position > Window THEN position - Window ELSE 0

Candidate(slot) == (positions[slot] + WordSize - base) % WordSize

IsValid(candidate, position) == LowestValid(position) <= candidate /\ candidate < position

\* The slots of the row from the head on, slot 0 left out.
FromHead ==
  [i \in Slots |-> LET from == IF head = 0 THEN 1 ELSE head
                   IN  ((from + i - 2) % Mask) + 1]

\* Of these places of the row, counted from the head, the first Attempts.
UpToAttempts(places) ==
  {i \in places : Cardinality({j \in places : j <= i}) <= Attempts}

\* The candidates search_unchecked collects for a tag, at their places.
Search(position, tag) ==
  LET tagged  == {i \in Slots : tags[FromHead[i]] = tag}
      reached == {i \in tagged : \A j \in tagged :
                    j <= i => IsValid(Candidate(FromHead[j]), position)}
  IN  [i \in UpToAttempts(reached) |-> Candidate(FromHead[i])]

\* The positions inserted last, newest first, as many as a row holds.
Recent ==
  [i \in {n \in Slots : n <= Len(inserted)} |-> inserted[Len(inserted) - i + 1]]

\* A search that comes behind everything inserted.
IsNext(position) == \A i \in DOMAIN inserted : inserted[i][1] < position

\* A search gets the newest positions of this input that have its tag and are
\* inside its window, in order, whatever earlier inputs have left in the row.
SearchFindsTheNewest ==
  \A position \in 0..length - 1, tag \in Tags :
    IsNext(position) =>
      LET wanted == {i \in DOMAIN Recent :
                       Recent[i][2] = tag /\ IsValid(Recent[i][1], position)}
      IN  Search(position, tag) = [i \in UpToAttempts(wanted) |-> Recent[i][1]]
=============================================================================
