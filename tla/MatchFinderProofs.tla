------------------------- MODULE MatchFinderProofs -------------------------
(***************************************************************************)
(* The match finders that keep state from one input to the next.           *)
(*                                                                         *)
(* A FastFinder with a past finds what a new one finds, for every table,   *)
(* window, word size and sequence of inputs, as long as reset adds up      *)
(* lengths without wrapping round.  The inductive invariant is IInv of     *)
(* FastTable.                                                              *)
(*                                                                         *)
(* Lazy2Finder takes no hash from its cache but that of the position it    *)
(* searches or inserts, for every cache, thresholds, inputs and matches.   *)
(* The inductive invariant is CacheInv: the cache has the hashes of the    *)
(* positions to come, but for a stretch searched with large steps.         *)
(*                                                                         *)
(* A search of a row of its table finds the newest positions of the input  *)
(* with its tag, for every size of a row, window and sequence of inputs,   *)
(* as long as reset's sums fit.  The inductive invariant is RowInv.        *)
(*                                                                         *)
(* And Ultra2Finder, which starts over with every block, stores sequences  *)
(* that a decoder follows, for every block, reserve, thresholds and length *)
(* of its table, however prices compare.  The inductive invariant is       *)
(* ParseInv: every node that a pass has come to is where a decoder of the  *)
(* sequences on its path would be, with the repeat offsets it would hold.  *)
(*                                                                         *)
(* What it chooses from are matches, and no walk of its binary trees goes  *)
(* to a position of a text that was forgotten or reads beyond the block,   *)
(* for every hash, ring of children, window and text.  The inductive       *)
(* invariant is TreesInv: behind the slots are trees, ordered by what      *)
(* stands at their positions, though the ring has overwritten some.        *)
(***************************************************************************)
EXTENDS MCMatchFinders, SequenceTheorems, WellFoundedInduction, TLAPS

\* What reset adds up fits a usize: any 64-bit build, and inputs that sum up
\* to less than usize::MAX - u32::MAX in two calls.
Wide == 2 * MaxLength + PositionSize + 1 < UsizeSize

\* Nothing stored is past the positions of the input stored last.
Bounded(finder) ==
  \A h \in Hashes : finder.positions[h] < NextFirstIndex(finder)

LEMMA NewFinderType == NewFinder \in Finders /\ Bounded(NewFinder)
  BY FastTableAssumption DEF NewFinder, Finders, Bounded, NextFirstIndex, WrapUsize

\* reset puts everything stored before out of reach.
LEMMA ResetMakesStale ==
  ASSUME Wide, NEW finder \in Finders, Bounded(finder), NEW n \in 0..MaxLength
  PROVE  /\ Reset(finder, n) \in Finders
         /\ Reset(finder, n).lastInputLength = n
         /\ Reset(finder, n).firstIndex + n < PositionSize - 1 \/ Reset(finder, n).firstIndex = 1
         /\ \A h \in Hashes : Stale(Reset(finder, n), h)
<1> DEFINE begin == finder.firstIndex + finder.lastInputLength + 1
           cleared == [positions |-> [h \in Hashes |-> 0], firstIndex |-> 1, lastInputLength |-> n]
           moved == [positions |-> finder.positions, firstIndex |-> begin, lastInputLength |-> n]
<1>1. /\ finder.firstIndex \in 1..PositionSize - 1
      /\ finder.lastInputLength \in 0..MaxLength
      /\ finder.positions \in [Hashes -> 0..PositionSize - 1]
  BY DEF Finders
<1>2. NextFirstIndex(finder) = begin
  BY <1>1, FastTableAssumption DEF Wide, NextFirstIndex, WrapUsize
<1>3. WrapUsize(begin + n) = begin + n
  BY <1>1, FastTableAssumption DEF Wide, WrapUsize
<1>4. CASE begin + n >= PositionSize - 1
  <2>1. Reset(finder, n) = cleared
    BY <1>2, <1>3, <1>4 DEF Reset
  <2>2. cleared \in Finders
    BY FastTableAssumption DEF Finders
  <2> QED
    BY <2>1, <2>2 DEF Stale
<1>5. CASE ~(begin + n >= PositionSize - 1)
  <2>1. Reset(finder, n) = moved
    BY <1>2, <1>3, <1>5 DEF Reset
  <2>2. begin \in 1..PositionSize - 1 /\ begin + n < PositionSize - 1
    BY <1>1, <1>5, FastTableAssumption
  <2>3. moved \in Finders
    BY <1>1, <2>2 DEF Finders
  <2> QED
    BY <1>2, <2>1, <2>2, <2>3 DEF Stale, Bounded
<1> QED
  BY <1>4, <1>5

\* In a table that fits, everything is below the first index of the next input.
LEMMA InvariantBounds ==
  ASSUME Wide, IInv
  PROVE  Bounded(reused)
<1>1. /\ reused.firstIndex \in 1..PositionSize - 1 /\ reused.lastInputLength = length
      /\ length \in 0..MaxLength /\ reused.positions \in [Hashes -> 0..PositionSize - 1]
  BY DEF IInv, TypeOK, Finders, Fitting
<1>2. NextFirstIndex(reused) = reused.firstIndex + length + 1
  BY <1>1, FastTableAssumption DEF Wide, NextFirstIndex, WrapUsize
<1>3. ASSUME NEW h \in Hashes
      PROVE  reused.positions[h] < reused.firstIndex + length + 1
  <2>1. CASE Stale(reused, h)
    BY <1>1, <2>1 DEF Stale
  <2>2. CASE ~Stale(reused, h)
    <3>1. PICK here \in 0..MaxLength :
            here < length /\ reused.positions[h] = reused.firstIndex + here
      BY <2>2 DEF IInv, SamePositions
    <3> QED
      BY <1>1, <3>1
  <2> QED
    BY <2>1, <2>2
<1> QED
  BY <1>2, <1>3 DEF Bounded

LEMMA TwoResets ==
  ASSUME Wide, NEW n \in 0..MaxLength,
         NEW before \in Finders, Bounded(before),
         reused' = Reset(before, n), fresh' = Reset(NewFinder, n), length' = n
  PROVE  IInv'
<1>1. /\ reused' \in Finders /\ reused'.lastInputLength = n
      /\ reused'.firstIndex + n < PositionSize - 1 \/ reused'.firstIndex = 1
      /\ \A h \in Hashes : reused'.positions[h] < reused'.firstIndex
  BY ResetMakesStale DEF Stale
<1>2. /\ fresh' \in Finders /\ fresh'.lastInputLength = n
      /\ fresh'.firstIndex + n < PositionSize - 1 \/ fresh'.firstIndex = 1
      /\ \A h \in Hashes : fresh'.positions[h] < fresh'.firstIndex
  BY ResetMakesStale, NewFinderType DEF Stale
<1>3. TypeOK'
  BY <1>1, <1>2 DEF TypeOK
<1>4. Fitting(reused)' /\ Fitting(fresh)'
  BY <1>1, <1>2 DEF Fitting
<1>5. SamePositions'
  BY <1>1, <1>2 DEF SamePositions, Stale
<1> QED
  BY <1>3, <1>4, <1>5 DEF IInv

\* save_position stores a position that fits, and nothing else changes.
LEMMA SavedPosition ==
  ASSUME NEW finder \in Finders, Fitting(finder), length \in 0..MaxLength,
         NEW h \in Hashes, NEW here \in 0..MaxLength,
         here < length, here + ReadSize <= PositionSize - 1
  PROVE  /\ SavePosition(finder, h, here) \in Finders
         /\ SavePosition(finder, h, here).firstIndex = finder.firstIndex
         /\ SavePosition(finder, h, here).lastInputLength = finder.lastInputLength
         /\ SavePosition(finder, h, here).positions =
              [g \in Hashes |-> IF g = h THEN finder.firstIndex + here
                                         ELSE finder.positions[g]]
<1>1. /\ finder.firstIndex \in 1..PositionSize - 1
      /\ finder.lastInputLength \in 0..MaxLength
      /\ finder.positions \in [Hashes -> 0..PositionSize - 1]
  BY DEF Finders
<1>2. here + finder.firstIndex \in 0..PositionSize - 1
  BY <1>1, FastTableAssumption DEF Fitting
<1>3. WrapPosition(here + finder.firstIndex) = finder.firstIndex + here
  BY <1>1, <1>2, FastTableAssumption DEF WrapPosition
<1> DEFINE table == [g \in Hashes |-> IF g = h THEN finder.firstIndex + here
                                              ELSE finder.positions[g]]
<1>4. SavePosition(finder, h, here) =
        [positions |-> table, firstIndex |-> finder.firstIndex,
         lastInputLength |-> finder.lastInputLength]
  BY <1>3 DEF SavePosition
<1>5. table \in [Hashes -> 0..PositionSize - 1]
  BY <1>1, <1>2
<1> HIDE DEF table
<1>6. [positions |-> table, firstIndex |-> finder.firstIndex,
       lastInputLength |-> finder.lastInputLength] \in Finders
  BY <1>1, <1>5 DEF Finders
<1> QED
  BY <1>4, <1>6 DEF table

LEMMA InitIInv == ASSUME Wide PROVE Init => IInv
<1> SUFFICES ASSUME Init PROVE IInv
  OBVIOUS
<1>1. /\ reused \in Finders /\ reused.lastInputLength = length
      /\ reused.firstIndex + length < PositionSize - 1 \/ reused.firstIndex = 1
      /\ \A h \in Hashes : Stale(reused, h)
  BY ResetMakesStale, NewFinderType DEF Init
<1>2. fresh = reused
  BY DEF Init
<1>3. length \in 0..MaxLength
  BY DEF Init
<1> QED
  BY <1>1, <1>2, <1>3 DEF IInv, TypeOK, Fitting, SamePositions

LEMMA NextIInv == ASSUME Wide PROVE IInv /\ [Next]_vars => IInv'
<1> SUFFICES ASSUME IInv, [Next]_vars PROVE IInv'
  OBVIOUS
<1>1. CASE UNCHANGED vars
  BY <1>1 DEF vars, IInv, TypeOK, Fitting, SamePositions, Stale
<1>2. ASSUME NEW n \in 0..MaxLength, NextInput(n) PROVE IInv'
  <2>1. reused \in Finders /\ Bounded(reused)
    BY InvariantBounds DEF IInv, TypeOK
  <2> QED
    BY <1>2, <2>1, TwoResets DEF NextInput
<1>3. ASSUME NEW h \in Hashes, NEW here \in 0..MaxLength, Save(h, here) PROVE IInv'
  <2>1. /\ reused \in Finders /\ fresh \in Finders /\ length \in 0..MaxLength
        /\ Fitting(reused) /\ Fitting(fresh)
    BY DEF IInv, TypeOK
  <2>2. here < length /\ here + ReadSize <= PositionSize - 1
    BY <1>3, <2>1, FastTableAssumption DEF Save, Searched
  <2>3. /\ reused' \in Finders /\ reused'.firstIndex = reused.firstIndex
        /\ reused'.lastInputLength = reused.lastInputLength
        /\ reused'.positions = [g \in Hashes |-> IF g = h THEN reused.firstIndex + here
                                                          ELSE reused.positions[g]]
    BY <1>3, <2>1, <2>2, SavedPosition DEF Save
  <2>4. /\ fresh' \in Finders /\ fresh'.firstIndex = fresh.firstIndex
        /\ fresh'.lastInputLength = fresh.lastInputLength
        /\ fresh'.positions = [g \in Hashes |-> IF g = h THEN fresh.firstIndex + here
                                                         ELSE fresh.positions[g]]
    BY <1>3, <2>1, <2>2, SavedPosition DEF Save
  <2>5. length' = length
    BY <1>3 DEF Save
  <2>6. TypeOK'
    BY <2>1, <2>3, <2>4, <2>5 DEF TypeOK
  <2>7. Fitting(reused)' /\ Fitting(fresh)'
    BY <2>1, <2>3, <2>4, <2>5 DEF Fitting
  <2>8. SamePositions'
    <3> SUFFICES ASSUME NEW g \in Hashes
                 PROVE  \/ Stale(reused, g)' /\ Stale(fresh, g)'
                        \/ \E p \in 0..MaxLength :
                             /\ p < length' /\ p + ReadSize <= PositionSize - 1
                             /\ reused'.positions[g] = reused'.firstIndex + p
                             /\ fresh'.positions[g] = fresh'.firstIndex + p
      BY DEF SamePositions
    <3>1. CASE g = h
      BY <2>2, <2>3, <2>4, <2>5, <3>1
    <3>2. CASE g # h
      <4>1. reused'.positions[g] = reused.positions[g] /\ fresh'.positions[g] = fresh.positions[g]
        BY <2>3, <2>4, <3>2
      <4>2. \/ Stale(reused, g) /\ Stale(fresh, g)
            \/ \E p \in 0..MaxLength :
                 /\ p < length /\ p + ReadSize <= PositionSize - 1
                 /\ reused.positions[g] = reused.firstIndex + p
                 /\ fresh.positions[g] = fresh.firstIndex + p
        BY DEF IInv, SamePositions
      <4> QED
        BY <2>3, <2>4, <2>5, <4>1, <4>2 DEF Stale
    <3> QED
      BY <3>1, <3>2
  <2> QED
    BY <2>6, <2>7, <2>8 DEF IInv
<1> QED
  BY <1>1, <1>2, <1>3 DEF Next

\* What is stale is no match, wherever a search looks.
LEMMA StaleIsNoMatch ==
  ASSUME NEW finder \in Finders, Fitting(finder), length \in 0..MaxLength,
         NEW h \in Hashes, Stale(finder, h),
         NEW here \in 0..MaxLength, NEW end \in 0..MaxLength, Searched(here, end)
  PROVE  Match(finder, h, here, end) = -1
<1>1. /\ finder.firstIndex \in 1..PositionSize - 1
      /\ finder.positions[h] \in 0..PositionSize - 1
  BY DEF Finders
<1>2. Candidate(finder, h) = finder.positions[h] + PositionSize - finder.firstIndex
  BY <1>1 DEF Stale, Candidate
<1>3. here + ReadSize <= length /\ here + ReadSize <= PositionSize - 1
  BY FastTableAssumption DEF Searched
<1>4. Candidate(finder, h) >= here
  BY <1>1, <1>2, <1>3, FastTableAssumption DEF Fitting
<1> QED
  BY <1>1, <1>2, <1>4, FastTableAssumption DEF Match, IsMatch

LEMMA IInvMatches == IInv => ReusedMatchesFresh
<1> SUFFICES ASSUME IInv, NEW h \in Hashes, NEW here \in 0..length,
                    NEW end \in 0..length, Searched(here, end)
             PROVE  Match(reused, h, here, end) = Match(fresh, h, here, end)
  BY DEF ReusedMatchesFresh
<1>1. /\ reused \in Finders /\ fresh \in Finders /\ length \in 0..MaxLength
      /\ Fitting(reused) /\ Fitting(fresh)
      /\ here \in 0..MaxLength /\ end \in 0..MaxLength
  BY FastTableAssumption DEF IInv, TypeOK
<1>2. CASE Stale(reused, h) /\ Stale(fresh, h)
  BY <1>1, <1>2, StaleIsNoMatch
<1>3. CASE \E p \in 0..MaxLength :
             /\ reused.positions[h] = reused.firstIndex + p
             /\ fresh.positions[h] = fresh.firstIndex + p
  <2>1. PICK p \in 0..MaxLength :
          /\ reused.positions[h] = reused.firstIndex + p
          /\ fresh.positions[h] = fresh.firstIndex + p
    BY <1>3
  <2>2. reused.firstIndex \in 1..PositionSize - 1 /\ fresh.firstIndex \in 1..PositionSize - 1
    BY <1>1 DEF Finders
  <2>3. Candidate(reused, h) = p /\ Candidate(fresh, h) = p
    BY <2>1, <2>2, FastTableAssumption DEF Candidate
  <2> QED
    BY <2>3 DEF Match
<1> QED
  BY <1>2, <1>3 DEF IInv, SamePositions

-----------------------------------------------------------------------------
\* The invariant holds in every state of every run.
THEOREM AlwaysIInv == ASSUME Wide PROVE Spec => []IInv
<1>1. Init => IInv
  BY InitIInv
<1>2. IInv /\ [Next]_vars => IInv'
  BY NextIInv
<1> QED
  BY <1>1, <1>2, PTL DEF Spec

\* A reused finder takes the matches a new one takes: what earlier inputs left
\* in the table is never taken for a position of this one (fast.rs, reset,
\* get_candidate and is_match).
THEOREM ReusedAlwaysMatchesFresh == ASSUME Wide PROVE Spec => []ReusedMatchesFresh
  BY AlwaysIInv, IInvMatches, PTL

-----------------------------------------------------------------------------
(***************************************************************************)
(* The cache of hashes of Lazy2Finder.                                     *)
(***************************************************************************)

\* Slots have the hashes of the next CacheSize positions, as far as positions
\* up to "last" are searched.
Ready(hashes, from, last) ==
  \A p \in from..from + CacheSize - 1 : p <= last => hashes[p % CacheSize] = Cache!Hash(p)

CacheTypeOK ==
  /\ input \in Nat /\ cacheLength \in Nat /\ next \in Nat
  /\ skipping \in BOOLEAN
  /\ stage \in {"idle", "search", "first", "second", "found"}
  /\ position \in Nat /\ anchor \in Nat /\ matchEnd \in Nat

\* How far the searches have come, and how far a match reaches beyond.
SearchesAdvance ==
  /\ next <= cacheLength /\ matchEnd <= cacheLength
  /\ stage = "search" => next <= position /\ anchor <= position
  /\ stage \in {"first", "second", "found"} => next = position + 1
  /\ stage = "first" => position + 4 <= matchEnd
  /\ stage = "second" => position + 3 <= matchEnd
  /\ stage = "found" => position + 2 <= matchEnd

\* Large steps stay large until a match is found, and from then on the cache
\* is ready again.
CacheIsReady ==
  /\ stage # "idle" /\ ~skipping => Ready(cache, next, Cache!Limit)
  /\ stage = "search" /\ skipping => (position - anchor) \div Strength + 1 > SkippingStep

CacheInv ==
  /\ CacheTypeOK /\ SearchesAdvance /\ CacheIsReady
  /\ faults = {}

LEMMA CacheSizes ==
  /\ CacheSize \in Nat /\ CacheSize > 0 /\ CacheReadSize \in Nat /\ CacheReadSize > 0
  /\ MatchStart \in Nat /\ MatchEnd \in Nat /\ MatchEnd >= CacheSize
  /\ Strength \in Nat /\ Strength > 0 /\ SkippingStep \in Nat
  /\ SkipThreshold \in Nat /\ SkipThreshold >= MatchStart + MatchEnd
  /\ MaxCacheLength \in Nat
BY CacheAssumption DEF Cache!HashCacheAssumption

LEMMA Division ==
  ASSUME NEW n \in Nat, NEW d \in Nat, d > 0
  PROVE  /\ n \div d \in Nat /\ n % d \in Nat /\ n % d < d
         /\ n = (n \div d) * d + (n % d)
OBVIOUS

LEMMA Products ==
  ASSUME NEW x \in Nat, NEW y \in Nat, NEW z \in Nat
  PROVE  /\ x * y \in Nat /\ (x + 1) * y = x * y + y /\ (x + z) * y = x * y + z * y
         /\ x <= z => x * y <= z * y
<1>1. x <= z => x * y <= z * y
  <2> SUFFICES ASSUME x <= z PROVE x * y <= z * y
    OBVIOUS
  <2>1. PICK d \in Nat : z = x + d
    <3>1. z - x \in Nat /\ z = x + (z - x)
      OBVIOUS
    <3> QED
      BY <3>1
  <2>2. z * y = x * y + d * y /\ d * y \in Nat /\ x * y \in Nat
    BY <2>1
  <2> QED
    BY <2>2
<1> QED
  BY <1>1

\* A quotient grows with what is divided.
LEMMA QuotientGrows ==
  ASSUME NEW m \in Nat, NEW n \in Nat, NEW d \in Nat, d > 0, m <= n
  PROVE  m \div d <= n \div d
<1>1. PICK q \in Nat, r \in Nat : q = m \div d /\ r < d /\ m = q * d + r
  BY Division
<1>2. PICK p \in Nat, t \in Nat : p = n \div d /\ t < d /\ n = p * d + t
  BY Division
<1>3. ASSUME p < q PROVE FALSE
  <2>1. (p + 1) * d = p * d + d /\ (p + 1) * d <= q * d /\ p * d \in Nat /\ q * d \in Nat
    BY <1>3, Products
  <2> QED
    BY <1>1, <1>2, <2>1
<1> QED
  BY <1>1, <1>2, <1>3

\* Fewer than CacheSize positions in a row have slots of their own.
LEMMA SameSlot ==
  ASSUME NEW p \in Nat, NEW q \in Nat, p <= q, q < p + CacheSize, p % CacheSize = q % CacheSize
  PROVE  p = q
<1> DEFINE C == CacheSize
<1>0. C \in Nat /\ C > 0
  BY CacheSizes
<1> HIDE DEF C
<1>1. PICK a \in Nat, r \in Nat : r = p % C /\ p = a * C + r
  BY <1>0, Division
<1>2. PICK b \in Nat, t \in Nat : t = q % C /\ q = b * C + t
  <2>1. q \div C \in Nat /\ q % C \in Nat /\ q = (q \div C) * C + (q % C)
    BY <1>0, Division
  <2> QED
    BY <2>1
<1>3. r = t
  BY <1>1, <1>2 DEF C
<1>4. q < p + C
  BY DEF C
<1>5. ASSUME a < b PROVE FALSE
  <2>1. (a + 1) * C = a * C + C /\ (a + 1) * C <= b * C /\ a * C \in Nat /\ b * C \in Nat
    BY <1>0, <1>5, Products
  <2> QED
    BY <1>0, <1>1, <1>2, <1>3, <1>4, <2>1
<1>6. ASSUME b < a PROVE FALSE
  <2>1. (b + 1) * C = b * C + C /\ (b + 1) * C <= a * C /\ a * C \in Nat /\ b * C \in Nat
    BY <1>0, <1>6, Products
  <2> QED
    BY <1>0, <1>1, <1>2, <1>3, <2>1
<1>7. a = b
  BY <1>5, <1>6
<1> QED
  BY <1>1, <1>2, <1>3, <1>7

LEMMA SlotOf ==
  ASSUME NEW p \in Nat
  PROVE  p % CacheSize \in Cache!Slots
<1>1. p % CacheSize \in Nat /\ p % CacheSize < CacheSize
  BY CacheSizes, Division
<1> QED
  BY <1>1, CacheSizes DEF Cache!Slots

\* What is stored last into a slot is what it has.
LEMMA StoredHash ==
  ASSUME NEW hashes, NEW from \in Nat, NEW to \in Nat, NEW p \in Nat,
         from <= p, p < to, to <= p + CacheSize
  PROVE  Cache!Store(hashes, from, to)[p % CacheSize] = Cache!Hash(p)
<1> DEFINE stored == {q \in from..to - 1 : q % CacheSize = p % CacheSize}
<1>0. CacheSize \in Nat
  BY CacheSizes
<1>1. p \in stored
  OBVIOUS
<1>2. ASSUME NEW q \in stored PROVE q <= p
  <2>1. q \in Nat /\ q < p + CacheSize /\ q % CacheSize = p % CacheSize
    BY <1>0
  <2>2. p <= q => p = q
    BY <2>1, SameSlot
  <2> QED
    BY <2>1, <2>2
<1>3. \A q \in stored : q \in Nat
  OBVIOUS
<1>4. Cache!Store(hashes, from, to)[p % CacheSize]
        = IF stored = {} THEN hashes[p % CacheSize] ELSE Cache!Hash(Cache!Max(stored))
  BY SlotOf DEF Cache!Store
<1> HIDE DEF stored
<1>5. Cache!Max(stored) = p
  <2>1. \A x \in stored : (\A y \in stored : x >= y) => x = p
    BY <1>1, <1>2, <1>3
  <2>2. \A y \in stored : p >= y
    BY <1>2, <1>3
  <2> QED
    BY <1>1, <2>1, <2>2 DEF Cache!Max
<1> QED
  BY <1>1, <1>4, <1>5

\* And a slot that nothing is stored into keeps what it has.
LEMMA KeptHash ==
  ASSUME NEW hashes, NEW from \in Nat, NEW to \in Nat, NEW p \in Nat,
         p < from, to <= p + CacheSize
  PROVE  Cache!Store(hashes, from, to)[p % CacheSize] = hashes[p % CacheSize]
<1>0. CacheSize \in Nat
  BY CacheSizes
<1>1. ASSUME NEW q \in from..to - 1 PROVE q % CacheSize # p % CacheSize
  <2>1. q \in Nat /\ p <= q /\ q < p + CacheSize /\ p # q
    BY <1>0
  <2> QED
    BY <2>1, SameSlot
<1>2. {q \in from..to - 1 : q % CacheSize = p % CacheSize} = {}
  BY <1>1
<1> QED
  BY <1>2, SlotOf DEF Cache!Store

\* A finder as the operators of HashCache pass it on, with nothing gone wrong.
FaultlessFinder(at, hashes) == [next |-> at, cache |-> hashes, faults |-> {}]

LEMMA MaxOf ==
  ASSUME NEW S \in SUBSET Int, NEW m \in S, \A x \in S : m >= x
  PROVE  Cache!Max(S) = m
<1>1. \A x \in S : (\A y \in S : x >= y) => x = m
  OBVIOUS
<1> QED
  BY <1>1 DEF Cache!Max

LEMMA MinOf ==
  ASSUME NEW a \in Int, NEW b \in Int
  PROVE  Cache!Min({a, b}) = IF a <= b THEN a ELSE b
<1> DEFINE m == IF a <= b THEN a ELSE b
<1>1. m \in {a, b} /\ \A y \in {a, b} : m <= y
  OBVIOUS
<1>2. \A x \in {a, b} : (\A y \in {a, b} : x <= y) => x = m
  OBVIOUS
<1> QED
  BY <1>1, <1>2 DEF Cache!Min

LEMMA MaxOfTwo ==
  ASSUME NEW a \in Int, NEW b \in Int
  PROVE  Cache!Max({a, b}) = IF a <= b THEN b ELSE a
<1> DEFINE m == IF a <= b THEN b ELSE a
<1>1. m \in {a, b} /\ \A y \in {a, b} : m >= y
  OBVIOUS
<1>2. \A x \in {a, b} : (\A y \in {a, b} : x >= y) => x = m
  OBVIOUS
<1> QED
  BY <1>1, <1>2 DEF Cache!Max

LEMMA LimitIs ==
  ASSUME cacheLength \in Nat
  PROVE  /\ Cache!Limit = cacheLength - (CacheReadSize + CacheSize)
         /\ Cache!Limit \in Int /\ Cache!Limit < cacheLength
         /\ \A p \in Int : p <= Cache!Limit => Cache!Outside(p) = {}
<1>1. Cache!Limit = cacheLength - (CacheReadSize + CacheSize)
  BY DEF Cache!Limit, Cache!TailReserve
<1>2. Cache!Limit \in Int /\ Cache!Limit < cacheLength
  BY <1>1, CacheSizes
<1>3. ASSUME NEW p \in Int, p <= Cache!Limit PROVE Cache!Outside(p) = {}
  <2>1. ~(p + Cache!TailReserve > cacheLength)
    BY <1>1, <1>3, CacheSizes DEF Cache!TailReserve
  <2> QED
    BY <2>1 DEF Cache!Outside
<1> QED
  BY <1>1, <1>2, <1>3

\* fill_hash_cache_unchecked makes the cache ready.
LEMMA FillIs ==
  ASSUME NEW at, NEW hashes, NEW start \in Nat, NEW last \in Int
  PROVE  \E filled :
           /\ Cache!Fill(FaultlessFinder(at, hashes), start, last) = FaultlessFinder(at, filled)
           /\ Ready(filled, start, last)
<1> DEFINE to == Cache!Min({start + CacheSize, last + 1})
           filled == Cache!Store(hashes, start, to)
<1>0. CacheSize \in Nat
  BY CacheSizes
<1>1. to = IF start + CacheSize <= last + 1 THEN start + CacheSize ELSE last + 1
  BY <1>0, MinOf
<1>2. Cache!Fill(FaultlessFinder(at, hashes), start, last) = FaultlessFinder(at, filled)
  BY DEF Cache!Fill, FaultlessFinder
<1>3. ASSUME NEW p \in start..start + CacheSize - 1, p <= last
      PROVE  filled[p % CacheSize] = Cache!Hash(p)
  <2>1. p \in Nat /\ start <= p /\ p < start + CacheSize
    BY <1>0
  <2>2. to \in Nat /\ p < to /\ to <= p + CacheSize
    BY <1>0, <1>1, <1>3, <2>1
  <2> HIDE DEF to
  <2> QED
    BY <2>1, <2>2, StoredHash
<1>4. Ready(filled, start, last)
  BY <1>3 DEF Ready
<1> QED
  BY <1>2, <1>4

\* Insertions one after the other keep it ready, and find what they take.
LEMMA InsertIs ==
  ASSUME cacheLength \in Nat, NEW at, NEW hashes, NEW from \in Nat, NEW to \in Nat,
         from <= to, to <= Cache!Limit + 1, Ready(hashes, from, Cache!Limit)
  PROVE  \E kept :
           /\ Cache!Insert(FaultlessFinder(at, hashes), from, to) = FaultlessFinder(at, kept)
           /\ Ready(kept, to, Cache!Limit)
<1>0. CacheSize \in Nat /\ Cache!Limit \in Int
  BY CacheSizes, LimitIs
<1>1. CASE from >= to
  <2>1. from = to
    BY <1>1
  <2>2. Cache!Insert(FaultlessFinder(at, hashes), from, to) = FaultlessFinder(at, hashes)
    BY <1>1 DEF Cache!Insert
  <2> QED
    BY <2>1, <2>2
<1>2. CASE ~(from >= to)
  <2> DEFINE kept == Cache!Store(hashes, from + CacheSize, to + CacheSize)
             until == Cache!Min({to, from + CacheSize})
             stale == \E p \in from..until - 1 : hashes[p % CacheSize] # Cache!Hash(p)
  <2>1. Cache!Insert(FaultlessFinder(at, hashes), from, to)
          = [next |-> at, cache |-> kept,
             faults |-> {} \cup (IF stale THEN {"stale"} ELSE {}) \cup Cache!Outside(to - 1)]
    BY <1>2 DEF Cache!Insert, FaultlessFinder
  <2>2. ~stale
    <3>1. until <= to /\ until <= from + CacheSize /\ until \in Int
      BY <1>0, MinOf
    <3> HIDE DEF until
    <3>2. ASSUME NEW p \in from..until - 1
          PROVE  p \in from..from + CacheSize - 1 /\ p <= Cache!Limit
      BY <1>0, <3>1
    <3> QED
      BY <3>2 DEF Ready
  <2>3. Cache!Outside(to - 1) = {}
    BY <1>0, LimitIs
  <2>4. Cache!Insert(FaultlessFinder(at, hashes), from, to) = FaultlessFinder(at, kept)
    BY <2>1, <2>2, <2>3 DEF FaultlessFinder
  <2>5. ASSUME NEW p \in to..to + CacheSize - 1, p <= Cache!Limit
        PROVE  kept[p % CacheSize] = Cache!Hash(p)
    <3>1. p \in Nat /\ to <= p /\ p < to + CacheSize /\ from + CacheSize \in Nat
          /\ to + CacheSize \in Nat /\ to + CacheSize <= p + CacheSize
      BY <1>0
    <3>2. CASE from + CacheSize <= p
      BY <3>1, <3>2, StoredHash
    <3>3. CASE p < from + CacheSize
      <4>1. p \in from..from + CacheSize - 1
        BY <1>0, <3>1, <3>3
      <4>2. hashes[p % CacheSize] = Cache!Hash(p)
        BY <2>5, <4>1 DEF Ready
      <4>3. kept[p % CacheSize] = hashes[p % CacheSize]
        BY <3>1, <3>3, KeptHash
      <4> QED
        BY <4>2, <4>3
    <3> QED
      BY <1>0, <3>1, <3>2, <3>3
  <2>6. Ready(kept, to, Cache!Limit)
    BY <2>5 DEF Ready
  <2> QED
    BY <2>4, <2>6
<1> QED
  BY <1>1, <1>2

\* update_up_to_unchecked: up to the target, the inside of a long match left
\* out or not.
LEMMA UpdateIs ==
  ASSUME cacheLength \in Nat, NEW at \in Nat, NEW hashes, NEW until \in Nat,
         at <= until, until <= Cache!Limit, Ready(hashes, at, Cache!Limit)
  PROVE  \E kept :
           /\ Cache!UpdateUpTo(FaultlessFinder(at, hashes), until) = FaultlessFinder(until, kept)
           /\ Ready(kept, until, Cache!Limit)
<1> DEFINE f == FaultlessFinder(at, hashes)
<1>0. CacheSize \in Nat /\ MatchStart \in Nat /\ MatchEnd \in Nat /\ MatchEnd >= CacheSize
      /\ SkipThreshold \in Nat /\ SkipThreshold >= MatchStart + MatchEnd /\ Cache!Limit \in Int
  BY CacheSizes, LimitIs
<1>1. f.next = at
  BY DEF FaultlessFinder
<1>2. Cache!Max({at, until}) = until
  BY MaxOfTwo
<1>3. \E kept : /\ (IF until > f.next + SkipThreshold THEN Cache!Jump(f, until)
                                                       ELSE Cache!Insert(f, f.next, until))
                     = FaultlessFinder(at, kept)
                /\ Ready(kept, until, Cache!Limit)
  <2>1. CASE until > at + SkipThreshold
    <3>1. at + MatchStart \in Nat /\ at <= at + MatchStart /\ at + MatchStart <= Cache!Limit + 1
      BY <1>0, <2>1
    <3>2. PICK begun : /\ Cache!Insert(f, at, at + MatchStart) = FaultlessFinder(at, begun)
                       /\ Ready(begun, at + MatchStart, Cache!Limit)
      BY <3>1, InsertIs
    <3>3. until - MatchEnd \in Nat /\ until - MatchEnd <= until /\ until \in Int
      BY <1>0, <2>1
    <3>4. PICK filled : /\ Cache!Fill(FaultlessFinder(at, begun), until - MatchEnd, until)
                             = FaultlessFinder(at, filled)
                        /\ Ready(filled, until - MatchEnd, until)
      <4> DEFINE start == until - MatchEnd
      <4>1. start \in Nat
        BY <3>3
      <4> HIDE DEF start
      <4>2. \E filled : /\ Cache!Fill(FaultlessFinder(at, begun), start, until)
                             = FaultlessFinder(at, filled)
                        /\ Ready(filled, start, until)
        BY <3>3, <4>1, FillIs
      <4> QED
        BY <4>2 DEF start
    <3>5. Ready(filled, until - MatchEnd, Cache!Limit)
      <4>1. ASSUME NEW p \in until - MatchEnd..until - MatchEnd + CacheSize - 1
            PROVE  p <= until
        BY <1>0, <3>3
      <4> QED
        BY <3>4, <4>1 DEF Ready
    <3>6. PICK kept : /\ Cache!Insert(FaultlessFinder(at, filled), until - MatchEnd, until)
                           = FaultlessFinder(at, kept)
                      /\ Ready(kept, until, Cache!Limit)
      <4>1. until <= Cache!Limit + 1
        BY <1>0
      <4> QED
        BY <3>3, <3>5, <4>1, InsertIs
    <3>7. Cache!Jump(f, until) = FaultlessFinder(at, kept)
      BY <1>1, <3>2, <3>4, <3>6 DEF Cache!Jump
    <3> QED
      BY <1>1, <2>1, <3>6, <3>7
  <2>2. CASE ~(until > at + SkipThreshold)
    <3>1. until <= Cache!Limit + 1
      BY <1>0
    <3> QED
      BY <1>1, <2>2, <3>1, InsertIs
  <2> QED
    BY <2>1, <2>2
<1>4. PICK kept : /\ (IF until > f.next + SkipThreshold THEN Cache!Jump(f, until)
                                                         ELSE Cache!Insert(f, f.next, until))
                       = FaultlessFinder(at, kept)
                  /\ Ready(kept, until, Cache!Limit)
  BY <1>3
<1>5. Cache!UpdateUpTo(f, until) = [FaultlessFinder(at, kept) EXCEPT !.next = Cache!Max({@, until})]
  BY <1>4 DEF Cache!UpdateUpTo
<1>6. [FaultlessFinder(at, kept) EXCEPT !.next = Cache!Max({@, until})] = FaultlessFinder(until, kept)
  BY <1>2 DEF FaultlessFinder
<1> QED
  BY <1>4, <1>5, <1>6

\* search_unchecked, for a position that was not inserted before.
LEMMA SearchIs ==
  ASSUME cacheLength \in Nat, NEW at \in Nat, NEW hashes, NEW p \in Nat,
         at <= p, p <= Cache!Limit, ~skipping => Ready(hashes, at, Cache!Limit)
  PROVE  \E kept :
           /\ Cache!Search(FaultlessFinder(at, hashes), p) = FaultlessFinder(p + 1, kept)
           /\ ~skipping => Ready(kept, p + 1, Cache!Limit)
<1> DEFINE f == FaultlessFinder(at, hashes)
           searched == IF skipping THEN [f EXCEPT !.faults = @ \cup Cache!Outside(p)]
                                ELSE Cache!Insert(Cache!UpdateUpTo(f, p), p, p + 1)
<1>1. ~(p < f.next)
  BY DEF FaultlessFinder
<1>2. \E reached, kept : /\ searched = FaultlessFinder(reached, kept)
                         /\ ~skipping => Ready(kept, p + 1, Cache!Limit)
  <2>1. CASE skipping
    <3>1. Cache!Outside(p) = {}
      BY LimitIs
    <3>2. searched = FaultlessFinder(at, hashes)
      BY <2>1, <3>1 DEF FaultlessFinder
    <3> QED
      BY <2>1, <3>2
  <2>2. CASE ~skipping
    <3>1. PICK updated : /\ Cache!UpdateUpTo(f, p) = FaultlessFinder(p, updated)
                         /\ Ready(updated, p, Cache!Limit)
      BY <2>2, UpdateIs
    <3>2. p + 1 \in Nat /\ p <= p + 1 /\ p + 1 <= Cache!Limit + 1
      BY LimitIs
    <3>3. PICK kept : /\ Cache!Insert(FaultlessFinder(p, updated), p, p + 1) = FaultlessFinder(p, kept)
                      /\ Ready(kept, p + 1, Cache!Limit)
      BY <3>1, <3>2, InsertIs
    <3>4. searched = FaultlessFinder(p, kept)
      BY <2>2, <3>1, <3>3
    <3> QED
      BY <3>3, <3>4
  <2> QED
    BY <2>1, <2>2
<1>3. PICK reached, kept : /\ searched = FaultlessFinder(reached, kept)
                           /\ ~skipping => Ready(kept, p + 1, Cache!Limit)
  BY <1>2
<1>4. Cache!Search(f, p)
        = [FaultlessFinder(reached, kept) EXCEPT
             !.next = p + 1, !.faults = @ \cup (IF p < f.next THEN {"again"} ELSE {})]
  BY <1>3 DEF Cache!Search
<1>5. Cache!Search(f, p) = FaultlessFinder(p + 1, kept)
  BY <1>1, <1>4 DEF FaultlessFinder
<1> QED
  BY <1>3, <1>5

LEMMA FinderIs ==
  ASSUME faults = {}
  PROVE  Cache!finder = FaultlessFinder(next, cache)
BY DEF Cache!finder, FaultlessFinder

LEMMA SetFinderIs ==
  ASSUME NEW at, NEW hashes, Cache!SetFinder(FaultlessFinder(at, hashes))
  PROVE  next' = at /\ cache' = hashes /\ faults' = {}
BY DEF Cache!SetFinder, FaultlessFinder

\* What is ready for this input is ready in the next state.
LEMMA ReadyNext ==
  ASSUME input' = input, NEW last, Cache!Limit' = last,
         Ready(cache', next', last)
  PROVE  Ready(cache, next, Cache!Limit)'
<1>1. \A p \in next'..next' + CacheSize - 1 : p <= last => cache'[p % CacheSize] = Cache!Hash(p)
  BY DEF Ready
<1>2. \A p : Cache!Hash(p)' = Cache!Hash(p)
  BY DEF Cache!Hash
<1> QED
  BY <1>1, <1>2 DEF Ready

LEMMA LimitNext ==
  ASSUME cacheLength' = cacheLength
  PROVE  Cache!Limit' = Cache!Limit
BY DEF Cache!Limit, Cache!TailReserve

\* A search leaves the cache in order.
LEMMA SearchStep ==
  ASSUME CacheInv, stage # "idle", NEW p \in Nat, next <= p, p <= Cache!Limit,
         Cache!SetFinder(Cache!Search(Cache!finder, p)),
         input' = input, cacheLength' = cacheLength
  PROVE  /\ next' = p + 1 /\ faults' = {} /\ next' <= cacheLength'
         /\ ~skipping => Ready(cache, next, Cache!Limit)'
<1>1. cacheLength \in Nat /\ next \in Nat /\ faults = {}
      /\ (~skipping => Ready(cache, next, Cache!Limit))
  BY DEF CacheInv, CacheTypeOK, CacheIsReady
<1>2. PICK kept : /\ Cache!Search(FaultlessFinder(next, cache), p) = FaultlessFinder(p + 1, kept)
                  /\ ~skipping => Ready(kept, p + 1, Cache!Limit)
  BY <1>1, SearchIs
<1>3. Cache!SetFinder(FaultlessFinder(p + 1, kept))
  BY <1>1, <1>2, FinderIs
<1>4. next' = p + 1 /\ cache' = kept /\ faults' = {}
  BY <1>3, SetFinderIs
<1>5. next' <= cacheLength'
  BY <1>1, <1>4, LimitIs
<1>6. ASSUME ~skipping PROVE Ready(cache, next, Cache!Limit)'
  <2>1. Ready(cache', next', Cache!Limit)
    BY <1>2, <1>4, <1>6
  <2> QED
    BY <2>1, LimitNext, ReadyNext
<1> QED
  BY <1>4, <1>5, <1>6

LEMMA CacheInitially == ASSUME Cache!Init PROVE CacheInv
<1>1. CacheTypeOK /\ faults = {} /\ stage = "idle"
  BY DEF Cache!Init, CacheTypeOK
<1>2. next = 0 /\ cacheLength = 0 /\ matchEnd = 0
  BY DEF Cache!Init
<1>3. SearchesAdvance
  BY <1>1, <1>2 DEF SearchesAdvance
<1> QED
  BY <1>1, <1>3 DEF CacheInv, CacheIsReady

LEMMA ResetKeeps == ASSUME CacheInv, Cache!Reset PROVE CacheInv'
<1>1. /\ CacheTypeOK' /\ faults' = {} /\ stage' = "idle"
      /\ next' = 0 /\ matchEnd' = 0 /\ cacheLength' = 0
  <2>1. /\ input' = input + 1 /\ next' = 0 /\ cacheLength' = 0 /\ position' = 0
        /\ anchor' = 0 /\ matchEnd' = 0 /\ skipping' = FALSE
        /\ stage' = stage /\ faults' = faults /\ stage = "idle"
    BY DEF Cache!Reset
  <2>2. input \in Nat /\ faults = {}
    BY DEF CacheInv, CacheTypeOK
  <2>3. input' \in Nat
    BY <2>1, <2>2
  <2> QED
    BY <2>1, <2>2, <2>3 DEF CacheTypeOK
<1>2. SearchesAdvance'
  BY <1>1 DEF SearchesAdvance
<1> QED
  BY <1>1, <1>2 DEF CacheInv, CacheIsReady

LEMMA ShortBlockKeeps ==
  ASSUME CacheInv, NEW end \in Nat, end > cacheLength, Cache!ShortBlock(end)
  PROVE  CacheInv'
<1>1. /\ CacheTypeOK' /\ faults' = {} /\ stage' = "idle"
      /\ next' = next /\ matchEnd' = matchEnd /\ cacheLength' = end
  BY DEF CacheInv, CacheTypeOK, Cache!ShortBlock
<1>2. SearchesAdvance'
  BY <1>1 DEF CacheInv, CacheTypeOK, SearchesAdvance
<1> QED
  BY <1>1, <1>2 DEF CacheInv, CacheIsReady

LEMMA EndBlockKeeps == ASSUME CacheInv, Cache!EndBlock PROVE CacheInv'
<1>1. /\ CacheTypeOK' /\ faults' = {} /\ stage' = "idle"
      /\ next' = next /\ matchEnd' = 0 /\ cacheLength' = cacheLength
  BY DEF CacheInv, CacheTypeOK, Cache!EndBlock
<1>2. SearchesAdvance'
  BY <1>1 DEF CacheInv, CacheTypeOK, SearchesAdvance
<1> QED
  BY <1>1, <1>2 DEF CacheInv, CacheIsReady

LEMMA BeginBlockKeeps ==
  ASSUME CacheInv, NEW end \in Nat, end > cacheLength, Cache!BeginBlock(end)
  PROVE  CacheInv'
<1> DEFINE first == Cache!FirstToInsert(cacheLength)
           last == end - Cache!TailReserve
<1>1. /\ input \in Nat /\ cacheLength \in Nat /\ next \in Nat /\ next <= cacheLength
      /\ matchEnd \in Nat /\ matchEnd <= cacheLength /\ faults = {}
  BY DEF CacheInv, CacheTypeOK, SearchesAdvance
<1>2. first \in Nat /\ first <= cacheLength
  <2>1. Cache!Max({cacheLength - MatchEnd, 0}) \in Nat
        /\ Cache!Max({cacheLength - MatchEnd, 0}) <= cacheLength
    <3>1. cacheLength - MatchEnd \in Int /\ cacheLength - MatchEnd <= cacheLength
      BY <1>1, CacheSizes
    <3>2. Cache!Max({cacheLength - MatchEnd, 0})
            = IF cacheLength - MatchEnd <= 0 THEN 0 ELSE cacheLength - MatchEnd
      BY <3>1, MaxOfTwo
    <3> QED
      BY <1>1, <3>1, <3>2
  <2> QED
    BY <1>1, <2>1 DEF Cache!FirstToInsert
<1>3. last \in Int
  BY CacheSizes DEF Cache!TailReserve
<1>4. Cache!SetFinder(Cache!Prepared([Cache!finder EXCEPT !.next = first], last))
  BY DEF Cache!BeginBlock
<1>5. [Cache!finder EXCEPT !.next = first] = FaultlessFinder(first, cache)
  BY <1>1 DEF Cache!finder, FaultlessFinder
<1>6. FaultlessFinder(first, cache).next = first
  BY DEF FaultlessFinder
<1> HIDE DEF first, last
<1>7. PICK filled : /\ Cache!Fill(FaultlessFinder(first, cache), first, last)
                         = FaultlessFinder(first, filled)
                    /\ Ready(filled, first, last)
  BY <1>2, <1>3, FillIs
<1>8. Cache!SetFinder(FaultlessFinder(first, filled))
  BY <1>4, <1>5, <1>6, <1>7 DEF Cache!Prepared
<1>9. next' = first /\ cache' = filled /\ faults' = {}
  BY <1>8, SetFinderIs
<1>10. /\ cacheLength' = end /\ skipping' = FALSE /\ stage' = "search"
       /\ position' = cacheLength /\ anchor' = cacheLength
       /\ input' = input /\ matchEnd' = matchEnd
  BY DEF Cache!BeginBlock
<1>11. CacheTypeOK'
  BY <1>1, <1>2, <1>9, <1>10 DEF CacheTypeOK
<1>12. SearchesAdvance'
  BY <1>1, <1>2, <1>9, <1>10 DEF SearchesAdvance
<1>13. Cache!Limit' = last
  BY <1>10 DEF Cache!Limit, Cache!TailReserve, last
<1>14. Ready(cache', next', last)
  BY <1>7, <1>9
<1>15. Ready(cache, next, Cache!Limit)'
  BY <1>10, <1>13, <1>14, ReadyNext
<1>16. CacheIsReady'
  BY <1>10, <1>15 DEF CacheIsReady
<1> QED
  BY <1>9, <1>11, <1>12, <1>16 DEF CacheInv

\* The step grows with the distance from the last match, so that large steps
\* stay large.
LEMMA MissKeeps == ASSUME CacheInv, Cache!Miss PROVE CacheInv'
<1> DEFINE step == (position - anchor) \div Strength + 1
<1>1. /\ input \in Nat /\ cacheLength \in Nat /\ next \in Nat /\ skipping \in BOOLEAN
      /\ position \in Nat /\ anchor \in Nat /\ matchEnd \in Nat
  BY DEF CacheInv, CacheTypeOK
<1>2. /\ stage = "search" /\ position < Cache!Limit /\ skipping' = (step > SkippingStep)
      /\ position' = position + step
      /\ input' = input /\ cacheLength' = cacheLength /\ stage' = stage
      /\ anchor' = anchor /\ matchEnd' = matchEnd
      /\ Cache!SetFinder(Cache!Search(Cache!finder, position))
  BY DEF Cache!Miss
<1>3. next <= position /\ anchor <= position /\ matchEnd <= cacheLength
  BY <1>2 DEF CacheInv, SearchesAdvance
<1>4. position <= Cache!Limit
  BY <1>1, <1>2, LimitIs
<1>5. /\ next' = position + 1 /\ faults' = {} /\ next' <= cacheLength'
      /\ ~skipping => Ready(cache, next, Cache!Limit)'
  BY <1>1, <1>2, <1>3, <1>4, SearchStep
<1>6. position - anchor \in Nat /\ Strength \in Nat /\ Strength > 0 /\ SkippingStep \in Nat
  BY <1>1, <1>3, CacheSizes
<1>7. step \in Nat /\ step >= 1
  BY <1>6, Division
<1>8. (position' - anchor') \div Strength + 1 >= step
  <2>1. position' - anchor' \in Nat /\ position - anchor <= position' - anchor'
    <3> HIDE DEF step
    <3> QED
      BY <1>1, <1>2, <1>3, <1>7
  <2>2. PICK m \in Nat, n \in Nat : m = position - anchor /\ n = position' - anchor' /\ m <= n
    BY <1>6, <2>1
  <2>3. m \div Strength <= n \div Strength /\ m \div Strength \in Nat /\ n \div Strength \in Nat
    BY <1>6, <2>2, QuotientGrows, Division
  <2> QED
    BY <2>2, <2>3
<1>9. CacheTypeOK'
  <2>1. next' \in Nat /\ position' \in Nat
    <3> HIDE DEF step
    <3> QED
      BY <1>1, <1>2, <1>5, <1>7
  <2>2. skipping' \in BOOLEAN
    BY <1>2
  <2>3. stage' = "search"
    BY <1>2
  <2> QED
    BY <1>1, <1>2, <2>1, <2>2, <2>3 DEF CacheTypeOK
<1>10. SearchesAdvance'
  <2>1. next' <= position' /\ anchor' <= position'
    <3> HIDE DEF step
    <3> QED
      BY <1>1, <1>2, <1>3, <1>5, <1>7
  <2>2. stage' = "search" /\ matchEnd' <= cacheLength'
    BY <1>2, <1>3
  <2> QED
    BY <1>5, <2>1, <2>2 DEF SearchesAdvance
<1>11. ~skipping' => Ready(cache, next, Cache!Limit)'
  <2>1. skipping => step > SkippingStep
    BY <1>2 DEF CacheInv, CacheIsReady
  <2> QED
    BY <1>2, <1>5, <2>1
<1>12. skipping' => (position' - anchor') \div Strength + 1 > SkippingStep
  <2> SUFFICES ASSUME skipping' PROVE (position' - anchor') \div Strength + 1 > SkippingStep
    OBVIOUS
  <2>1. step > SkippingStep
    BY <1>2
  <2>2. (position' - anchor') \div Strength \in Nat
    <3>1. position' - anchor' \in Nat
      <4> HIDE DEF step
      <4> QED
        BY <1>1, <1>2, <1>3, <1>7
    <3> QED
      BY <1>6, <3>1, Division
  <2> HIDE DEF step
  <2> QED
    BY <1>6, <1>7, <1>8, <2>1, <2>2
<1>13. CacheIsReady'
  BY <1>2, <1>11, <1>12 DEF CacheIsReady
<1> QED
  BY <1>5, <1>9, <1>10, <1>13 DEF CacheInv

\* Behind a search at a position that is followed by a match.
LEMMA FoundStep ==
  ASSUME CacheInv, stage # "idle", NEW p \in Nat, next <= p, p <= Cache!Limit,
         Cache!SetFinder(Cache!Search(Cache!finder, p)),
         input' = input, cacheLength' = cacheLength, skipping' = skipping, anchor' = anchor,
         position' = p, matchEnd' \in Nat, matchEnd' <= cacheLength,
         stage' \in {"first", "second", "found"},
         stage' = "first" => p + 4 <= matchEnd',
         stage' = "second" => p + 3 <= matchEnd',
         stage' = "found" => p + 2 <= matchEnd'
  PROVE  CacheInv'
<1>1. input \in Nat /\ cacheLength \in Nat /\ skipping \in BOOLEAN /\ anchor \in Nat
  BY DEF CacheInv, CacheTypeOK
<1>2. /\ next' = p + 1 /\ faults' = {} /\ next' <= cacheLength'
      /\ ~skipping => Ready(cache, next, Cache!Limit)'
  BY SearchStep
<1>3. CacheTypeOK'
  <2>1. next' \in Nat
    BY <1>2
  <2> QED
    BY <1>1, <2>1 DEF CacheTypeOK
<1>4. SearchesAdvance'
  BY <1>2 DEF SearchesAdvance
<1>5. CacheIsReady'
  BY <1>2 DEF CacheIsReady
<1> QED
  BY <1>2, <1>3, <1>4, <1>5 DEF CacheInv

LEMMA MatchKeeps == ASSUME CacheInv, Cache!Match PROVE CacheInv'
<1>1. cacheLength \in Nat /\ next \in Nat /\ position \in Nat
  BY DEF CacheInv, CacheTypeOK
<1>2. /\ stage = "search" /\ position < Cache!Limit
      /\ Cache!SetFinder(Cache!Search(Cache!finder, position))
      /\ \E start \in {position, position + 1} : matchEnd' \in Cache!BestEnds(start)
      /\ stage' = "first"
      /\ input' = input /\ cacheLength' = cacheLength /\ skipping' = skipping
      /\ position' = position /\ anchor' = anchor
  BY DEF Cache!Match
<1>3. next <= position /\ position <= Cache!Limit
  BY <1>1, <1>2, LimitIs DEF CacheInv, SearchesAdvance
<1>4. matchEnd' \in Nat /\ matchEnd' <= cacheLength /\ position + 4 <= matchEnd'
  <2>1. PICK start \in {position, position + 1} : matchEnd' \in start + 4..cacheLength
    BY <1>2 DEF Cache!BestEnds, Cache!ShortestMatch
  <2> QED
    BY <1>1, <2>1
<1> QED
  BY <1>1, <1>2, <1>3, <1>4, FoundStep

LEMMA LookAheadKeeps ==
  ASSUME CacheInv, NEW here, NEW after, Cache!LookAhead(here, after),
         <<here, after>> \in {<<"first", "second">>, <<"second", "found">>}
  PROVE  CacheInv'
<1>1. cacheLength \in Nat /\ next \in Nat /\ position \in Nat /\ matchEnd \in Nat
  BY DEF CacheInv, CacheTypeOK
<1>2. \/ here = "first" /\ after = "second"
      \/ here = "second" /\ after = "found"
  OBVIOUS
<1>3. /\ stage = here /\ position < Cache!Limit /\ position' = position + 1
      /\ Cache!SetFinder(Cache!Search(Cache!finder, position + 1))
      /\ \/ matchEnd' = matchEnd /\ stage' = after
         \/ matchEnd' \in Cache!BestEnds(position + 1) /\ stage' \in {after, "first"}
      /\ input' = input /\ cacheLength' = cacheLength /\ skipping' = skipping
      /\ anchor' = anchor
  BY DEF Cache!LookAhead
<1>4. /\ next = position + 1 /\ matchEnd <= cacheLength
      /\ stage = "first" => position + 4 <= matchEnd
      /\ stage = "second" => position + 3 <= matchEnd
  BY <1>2, <1>3 DEF CacheInv, SearchesAdvance
<1>5. position + 1 \in Nat /\ next <= position + 1 /\ position + 1 <= Cache!Limit
  BY <1>1, <1>3, <1>4, LimitIs
<1>6. stage # "idle" /\ stage' \in {"first", "second", "found"}
  BY <1>2, <1>3
<1>7. /\ matchEnd' \in Nat /\ matchEnd' <= cacheLength
      /\ stage' = "first" => position + 1 + 4 <= matchEnd'
      /\ stage' = "second" => position + 1 + 3 <= matchEnd'
      /\ stage' = "found" => position + 1 + 2 <= matchEnd'
  <2>1. CASE matchEnd' = matchEnd /\ stage' = after
    BY <1>1, <1>2, <1>3, <1>4, <2>1
  <2>2. CASE matchEnd' \in Cache!BestEnds(position + 1) /\ stage' \in {after, "first"}
    <3>1. matchEnd' \in position + 1 + 4..cacheLength
      BY <2>2 DEF Cache!BestEnds, Cache!ShortestMatch
    <3> QED
      BY <1>1, <3>1
  <2> QED
    BY <1>3, <2>1, <2>2
<1> QED
  BY <1>3, <1>5, <1>6, <1>7, FoundStep

LEMMA StoreMatchKeeps == ASSUME CacheInv, Cache!StoreMatch PROVE CacheInv'
<1>1. /\ input \in Nat /\ cacheLength \in Nat /\ next \in Nat /\ position \in Nat
      /\ matchEnd \in Nat /\ faults = {} /\ next <= cacheLength /\ matchEnd <= cacheLength
  BY DEF CacheInv, CacheTypeOK, SearchesAdvance
<1>2. /\ stage \in {"first", "second", "found"}
      /\ Cache!SetFinder(Cache!AfterSkipping(Cache!finder))
      /\ skipping' = FALSE /\ anchor' = position' /\ stage' = "search"
      /\ position' \in {matchEnd}
           \cup (IF matchEnd <= Cache!Limit THEN matchEnd + 4..cacheLength ELSE {})
      /\ input' = input /\ cacheLength' = cacheLength /\ matchEnd' = matchEnd
  BY DEF Cache!StoreMatch, Cache!ShortestMatch
<1>3. next <= matchEnd
  BY <1>1, <1>2 DEF CacheInv, SearchesAdvance
<1>4. position' \in Nat /\ next <= position'
  BY <1>1, <1>2, <1>3
<1>5. \E filled : /\ Cache!AfterSkipping(FaultlessFinder(next, cache)) = FaultlessFinder(next, filled)
                  /\ Ready(filled, next, Cache!Limit)
  <2>1. CASE skipping
    <3>1. FaultlessFinder(next, cache).next = next
      BY DEF FaultlessFinder
    <3>2. Cache!AfterSkipping(FaultlessFinder(next, cache))
            = Cache!Fill(FaultlessFinder(next, cache), next, Cache!Limit)
      BY <2>1, <3>1 DEF Cache!AfterSkipping
    <3>3. Cache!Limit \in Int
      BY <1>1, LimitIs
    <3> QED
      BY <1>1, <3>2, <3>3, FillIs
  <2>2. CASE ~skipping
    <3>1. Ready(cache, next, Cache!Limit)
      BY <1>2, <2>2 DEF CacheInv, CacheIsReady
    <3> QED
      BY <2>2, <3>1 DEF Cache!AfterSkipping
  <2> QED
    BY <2>1, <2>2
<1>6. PICK filled : /\ Cache!AfterSkipping(FaultlessFinder(next, cache)) = FaultlessFinder(next, filled)
                    /\ Ready(filled, next, Cache!Limit)
  BY <1>5
<1>7. Cache!SetFinder(FaultlessFinder(next, filled))
  BY <1>1, <1>2, <1>6, FinderIs
<1>8. next' = next /\ cache' = filled /\ faults' = {}
  BY <1>7, SetFinderIs
<1>9. CacheTypeOK'
  BY <1>1, <1>2, <1>4, <1>8 DEF CacheTypeOK
<1>10. SearchesAdvance'
  BY <1>1, <1>2, <1>4, <1>8 DEF SearchesAdvance
<1>11. Ready(cache, next, Cache!Limit)'
  <2>1. Ready(cache', next', Cache!Limit)
    BY <1>6, <1>8
  <2> QED
    BY <1>2, <2>1, LimitNext, ReadyNext
<1>12. CacheIsReady'
  BY <1>2, <1>11 DEF CacheIsReady
<1> QED
  BY <1>8, <1>9, <1>10, <1>12 DEF CacheInv

LEMMA CacheStep ==
  ASSUME CacheInv, [Cache!Next]_cacheVars
  PROVE  CacheInv'
<1>1. CASE Cache!Reset
  BY <1>1, ResetKeeps
<1>2. ASSUME NEW end \in cacheLength + 1..MaxCacheLength,
             Cache!ShortBlock(end) \/ Cache!BeginBlock(end)
      PROVE  CacheInv'
  <2>1. end \in Nat /\ end > cacheLength
    BY DEF CacheInv, CacheTypeOK
  <2> QED
    BY <1>2, <2>1, ShortBlockKeeps, BeginBlockKeeps
<1>3. CASE Cache!Miss
  BY <1>3, MissKeeps
<1>4. CASE Cache!Match
  BY <1>4, MatchKeeps
<1>5. CASE Cache!LookAhead("first", "second")
  BY <1>5, LookAheadKeeps
<1>6. CASE Cache!LookAhead("second", "found")
  BY <1>6, LookAheadKeeps
<1>7. CASE Cache!StoreMatch
  BY <1>7, StoreMatchKeeps
<1>8. CASE Cache!EndBlock
  BY <1>8, EndBlockKeeps
<1>9. CASE UNCHANGED cacheVars
  <2>1. CacheTypeOK' /\ SearchesAdvance' /\ faults' = {}
    BY <1>9 DEF cacheVars, CacheInv, CacheTypeOK, SearchesAdvance
  <2>2. CacheIsReady'
    BY <1>9 DEF cacheVars, CacheInv, CacheIsReady, Ready, Cache!Hash, Cache!Limit, Cache!TailReserve
  <2> QED
    BY <2>1, <2>2 DEF CacheInv
<1> QED
  BY <1>1, <1>2, <1>3, <1>4, <1>5, <1>6, <1>7, <1>8, <1>9 DEF Cache!Next

\* In every behaviour of the finder's cache, alone or beside the other parts.
THEOREM CacheAlwaysReady == MCSpec => []CacheInv
<1>1. MCInit => CacheInv
  BY CacheInitially DEF MCInit
<1>2. CacheInv /\ [MCNext]_<<vars, cacheVars, rowVars, treeVars, parseVars, part>> => CacheInv'
  <2>1. [MCNext]_<<vars, cacheVars, rowVars, treeVars, parseVars, part>> => [Cache!Next]_cacheVars
    BY DEF MCNext
  <2> QED
    BY <2>1, CacheStep
<1> QED
  BY <1>1, <1>2, PTL DEF MCSpec

THEOREM CachedHashesAreAlwaysSound == MCSpec => []CachedHashesAreSound
<1>1. CacheInv => CachedHashesAreSound
  BY DEF CacheInv, CachedHashesAreSound, Cache!CachedHashesAreSound
<1> QED
  BY <1>1, CacheAlwaysReady, PTL

THEOREM AlwaysInsertedInOrder == MCSpec => []InsertedInOrder
<1>1. CacheInv => InsertedInOrder
  BY DEF CacheInv, InsertedInOrder, Cache!InsertedInOrder
<1> QED
  BY <1>1, CacheAlwaysReady, PTL
-----------------------------------------------------------------------------
(***************************************************************************)
(* A row of Lazy2Finder's table.                                           *)
(***************************************************************************)

\* What reset adds up fits a usize.
RowWide == 2 * MaxRowLength + WordSize < UsizeSize

RowTypeOK ==
  /\ head \in 0..Mask
  /\ tags \in [Row!Slots -> Tags]
  /\ positions \in [Row!Slots -> 0..WordSize - 1]
  /\ base \in Nat /\ rowLength \in 0..MaxRowLength
  /\ inserted \in Seq(Nat \X Tags)

\* Every position of the input fits a word.
BaseFits == base = 0 \/ base + rowLength < WordSize - 1

\* So another input begins behind everything that was stored.
NoneAhead ==
  \A s \in Row!Slots : positions[s] <= base + rowLength \/ positions[s] = WordSize - 1

\* Inserted in order, inside the input.
InOrder ==
  /\ \A i \in 1..Len(inserted) : inserted[i][1] < rowLength
  /\ \A i, j \in 1..Len(inserted) : i < j => inserted[i][1] < inserted[j][1]

\* What an earlier input, or nobody, has left at a slot.
IsLeftOver(slot) == positions[slot] < base \/ positions[slot] = WordSize - 1

\* From the head on the row has what was inserted last, and behind it what
\* earlier inputs have left.
RowHolds ==
  \A i \in Row!Slots :
    /\ i <= Len(inserted) =>
         /\ tags[Row!FromHead[i]] = inserted[Len(inserted) - i + 1][2]
         /\ positions[Row!FromHead[i]] = inserted[Len(inserted) - i + 1][1] + base
    /\ i > Len(inserted) /\ rowLength > 0 => IsLeftOver(Row!FromHead[i])

RowInv == RowTypeOK /\ BaseFits /\ NoneAhead /\ InOrder /\ RowHolds

LEMMA RowSizes ==
  /\ WordSize \in Nat /\ UsizeSize \in Nat /\ UsizeSize >= WordSize
  /\ Mask \in Nat /\ Mask > 0 /\ Tags \subseteq Nat /\ 0 \in Tags
  /\ TableLength \in Nat /\ RowWindow \in Nat
  /\ MaxRowLength \in Nat /\ MaxRowLength < WordSize
BY RowAssumption, FastTableAssumption DEF Row!RowTableAssumption

\* A remainder of what is less than two moduli.
LEMMA Remainder ==
  ASSUME NEW x \in Nat, NEW m \in Nat, x < 2 * m
  PROVE  x % m = IF x < m THEN x ELSE x - m
<1>1. CASE x < m
  BY <1>1
<1>2. CASE ~(x < m)
  <2>1. PICK q \in Nat, r \in Nat : q = x \div m /\ r = x % m /\ x = q * m + r /\ r < m
    <3>1. m > 0
      BY <1>2
    <3> QED
      BY <3>1, Division
  <2>2. ASSUME q = 0 PROVE FALSE
    BY <1>2, <2>1, <2>2
  <2>3. ASSUME q >= 2 PROVE FALSE
    <3>1. PICK d \in Nat : q = 2 + d
      <4>1. q - 2 \in Nat /\ q = 2 + (q - 2)
        BY <2>3
      <4> QED
        BY <4>1
    <3>2. q * m = 2 * m + d * m /\ d * m \in Nat
      BY <3>1
    <3> QED
      BY <2>1, <3>2
  <2>4. q = 1
    BY <2>2, <2>3
  <2>5. x = m + r
    BY <2>1, <2>4
  <2> QED
    BY <1>2, <2>1, <2>5
<1> QED
  BY <1>1, <1>2

\* The slot of the newest, that of a new row included.
RowStart == IF head = 0 THEN 1 ELSE head

\* The slot of a place.
LEMMA FromHeadIs ==
  ASSUME NEW i \in Row!Slots, head \in 0..Mask
  PROVE  /\ RowStart \in 1..Mask
         /\ Row!FromHead[i] = IF RowStart + i - 1 <= Mask THEN RowStart + i - 1
                                                         ELSE RowStart + i - 1 - Mask
         /\ Row!FromHead[i] \in Row!Slots
<1>1. i \in 1..Mask /\ Mask \in Nat /\ Mask > 0
  BY RowSizes DEF Row!Slots
<1>2. RowStart \in 1..Mask
  BY <1>1 DEF RowStart
<1>3. Row!FromHead[i] = ((RowStart + i - 2) % Mask) + 1
  BY DEF Row!FromHead, RowStart
<1>4. PICK x \in Nat : x = RowStart + i - 2
  BY <1>1, <1>2
<1>5. x % Mask = IF x < Mask THEN x ELSE x - Mask
  <2>1. x < 2 * Mask
    BY <1>1, <1>2, <1>4
  <2> QED
    BY <1>1, <2>1, Remainder
<1>6. Row!FromHead[i] = (x % Mask) + 1
  BY <1>3, <1>4
<1>7. Row!FromHead[i] = IF x < Mask THEN x + 1 ELSE x - Mask + 1
  BY <1>1, <1>5, <1>6
<1>8. Row!FromHead[i] = IF RowStart + i - 1 <= Mask THEN RowStart + i - 1
                                                  ELSE RowStart + i - 1 - Mask
  BY <1>1, <1>2, <1>4, <1>7
<1>9. Row!FromHead[i] \in Row!Slots
  BY <1>1, <1>2, <1>8 DEF Row!Slots
<1> QED
  BY <1>2, <1>8, <1>9

LEMMA RowInitially == ASSUME Row!Init PROVE RowInv
<1>1. RowTypeOK
  BY RowSizes DEF Row!Init, RowTypeOK
<1>2. BaseFits
  BY DEF Row!Init, BaseFits
<1>3. NoneAhead
  BY DEF Row!Init, NoneAhead
<1>4. InOrder
  BY DEF Row!Init, InOrder
<1>5. RowHolds
  <2>1. Len(inserted) = 0 /\ rowLength = 0
    BY DEF Row!Init
  <2>2. \A i \in Row!Slots : i \in Nat /\ i >= 1
    BY RowSizes DEF Row!Slots
  <2> QED
    BY <2>1, <2>2 DEF RowHolds
<1> QED
  BY <1>1, <1>2, <1>3, <1>4, <1>5 DEF RowInv

\* What is there after a reset is either wiped out or left over.
LEMMA RowResetKeeps ==
  ASSUME RowWide, RowInv, NEW n \in 0..MaxRowLength, Row!Reset(n)
  PROVE  RowInv'
<1>1. /\ WordSize \in Nat /\ UsizeSize \in Nat /\ UsizeSize >= WordSize
      /\ Mask \in Nat /\ MaxRowLength \in Nat /\ MaxRowLength < WordSize /\ 0 \in Tags
      /\ n \in Nat /\ n <= MaxRowLength
  BY RowSizes
<1>2. /\ head \in 0..Mask /\ tags \in [Row!Slots -> Tags]
      /\ positions \in [Row!Slots -> 0..WordSize - 1]
      /\ base \in Nat /\ rowLength \in Nat /\ rowLength <= MaxRowLength
  BY <1>1 DEF RowInv, RowTypeOK
<1>3. rowLength' = n /\ inserted' = <<>>
  BY DEF Row!Reset
<1>4. Len(inserted') = 0
  BY <1>3
<1>5. InOrder'
  BY <1>4 DEF InOrder
<1>6. CASE Row!MustClear(n)
  <2>1. /\ positions' = [s \in Row!Slots |-> WordSize - 1]
        /\ tags' = [s \in Row!Slots |-> 0] /\ head' = 0 /\ base' = 0
    BY <1>6 DEF Row!Reset
  <2>2. RowTypeOK'
    <3>1. positions' \in [Row!Slots -> 0..WordSize - 1]
      BY <1>1, <2>1
    <3>2. tags' \in [Row!Slots -> Tags]
      BY <1>1, <2>1
    <3>3. head' \in 0..Mask
      BY <1>1, <2>1
    <3> QED
      BY <1>3, <2>1, <3>1, <3>2, <3>3 DEF RowTypeOK
  <2>3. BaseFits' /\ NoneAhead'
    BY <2>1 DEF BaseFits, NoneAhead
  <2>4. RowHolds'
    <3>1. ASSUME NEW i \in Row!Slots PROVE IsLeftOver(Row!FromHead[i])'
      <4>1. head' \in 0..Mask
        BY <1>1, <2>1
      <4>2. (Row!FromHead[i])' \in Row!Slots
        <5>1. (head \in 0..Mask => Row!FromHead[i] \in Row!Slots)'
          BY FromHeadIs, PTL
        <5> QED
          BY <4>1, <5>1
      <4> QED
        BY <2>1, <4>2 DEF IsLeftOver
    <3>2. \A i \in Row!Slots : i \in Nat /\ i >= 1
      BY RowSizes DEF Row!Slots
    <3> QED
      BY <1>4, <3>1, <3>2 DEF RowHolds
  <2> QED
    BY <1>5, <2>2, <2>3, <2>4 DEF RowInv
<1>7. CASE ~Row!MustClear(n)
  <2>1. base' = Row!NextBase /\ head' = head /\ tags' = tags /\ positions' = positions
    BY <1>7 DEF Row!Reset
  <2>2. base <= WordSize /\ base + rowLength + 1 <= WordSize
    BY <1>1, <1>2 DEF RowInv, BaseFits
  <2>3. Row!NextBase = base + rowLength + 1
    <3>1. base + rowLength + 1 \in Nat /\ base + rowLength + 1 < UsizeSize
      BY <1>1, <1>2, <2>2 DEF RowWide
    <3>2. (base + rowLength) % UsizeSize = base + rowLength
      BY <1>1, <1>2, <3>1
    <3>3. (base + rowLength + 1) % UsizeSize = base + rowLength + 1
      BY <1>1, <1>2, <3>1
    <3> QED
      BY <3>2, <3>3 DEF Row!NextBase, Row!WrapUsize
  <2>4. base' + n < WordSize - 1
    <3>1. ~(Row!WrapUsize(Row!NextBase + n) >= WordSize - 1)
      BY <1>7 DEF Row!MustClear
    <3>2. base + rowLength + 1 + n \in Nat /\ base + rowLength + 1 + n < UsizeSize
      BY <1>1, <1>2, <2>2 DEF RowWide, RowInv, BaseFits
    <3>3. (base + rowLength + 1 + n) % UsizeSize = base + rowLength + 1 + n
      BY <1>1, <3>2
    <3> QED
      BY <1>1, <1>2, <2>1, <2>3, <3>1, <3>3 DEF Row!WrapUsize
  <2>5. base' \in Nat /\ base' = base + rowLength + 1
    BY <1>2, <2>1, <2>3
  <2>6. \A s \in Row!Slots : positions'[s] < base' \/ positions'[s] = WordSize - 1
    <3> SUFFICES ASSUME NEW s \in Row!Slots
                 PROVE  positions'[s] < base' \/ positions'[s] = WordSize - 1
      OBVIOUS
    <3>1. positions[s] <= base + rowLength \/ positions[s] = WordSize - 1
      BY DEF RowInv, NoneAhead
    <3>2. positions[s] \in Nat
      BY <1>1, <1>2
    <3> QED
      BY <1>2, <2>1, <2>5, <3>1, <3>2
  <2>7. RowTypeOK'
    BY <1>2, <1>3, <2>1, <2>5 DEF RowTypeOK
  <2>8. BaseFits'
    BY <1>3, <2>4 DEF BaseFits
  <2>9. NoneAhead'
    <3> SUFFICES ASSUME NEW s \in Row!Slots
                 PROVE  positions'[s] <= base' + n \/ positions'[s] = WordSize - 1
      BY <1>3 DEF NoneAhead
    <3>1. positions'[s] \in Nat
      BY <1>1, <1>2, <2>1
    <3> QED
      BY <1>1, <2>5, <2>6, <3>1
  <2>10. RowHolds'
    <3>1. ASSUME NEW i \in Row!Slots PROVE IsLeftOver(Row!FromHead[i])'
      <4>1. Row!FromHead[i] \in Row!Slots
        BY <1>2, FromHeadIs
      <4>2. Row!FromHead' = Row!FromHead
        BY <2>1 DEF Row!FromHead
      <4> QED
        BY <2>6, <4>1, <4>2 DEF IsLeftOver
    <3>2. \A i \in Row!Slots : i \in Nat /\ i >= 1
      BY RowSizes DEF Row!Slots
    <3> QED
      BY <1>4, <3>1, <3>2 DEF RowHolds
  <2> QED
    BY <1>5, <2>7, <2>8, <2>9, <2>10 DEF RowInv
<1> QED
  BY <1>6, <1>7

\* The slot before the head becomes the head, and every place moves on by one.
LEMMA PlacesMove ==
  ASSUME head \in 0..Mask, head' = Row!Newest
  PROVE  /\ Row!Newest \in Row!Slots /\ head' \in 0..Mask
         /\ \A i \in Row!Slots :
              /\ i = 1 => Row!FromHead'[i] = Row!Newest
              /\ i > 1 => /\ i - 1 \in Row!Slots
                         /\ Row!FromHead'[i] = Row!FromHead[i - 1]
                         /\ Row!FromHead'[i] # Row!Newest
<1>1. Mask \in Nat /\ Mask > 0
  BY RowSizes
<1>2. /\ Row!Newest \in 1..Mask
      /\ Row!Newest = IF RowStart = 1 THEN Mask ELSE RowStart - 1
  BY <1>1 DEF Row!Newest, RowStart
<1>3. RowStart \in 1..Mask
  BY <1>1 DEF RowStart
<1>4. head' \in 0..Mask
  BY <1>1, <1>2
<1>5. RowStart' = Row!Newest
  BY <1>1, <1>2 DEF RowStart
<1>6. ASSUME NEW i \in Row!Slots
      PROVE  Row!FromHead'[i] = IF Row!Newest + i - 1 <= Mask THEN Row!Newest + i - 1
                                                            ELSE Row!Newest + i - 1 - Mask
  <2>1. (head \in 0..Mask =>
           Row!FromHead[i] = IF RowStart + i - 1 <= Mask THEN RowStart + i - 1
                                                         ELSE RowStart + i - 1 - Mask)'
    BY FromHeadIs, PTL
  <2> QED
    BY <1>4, <1>5, <2>1
<1>7. ASSUME NEW i \in Row!Slots, i = 1 PROVE Row!FromHead'[i] = Row!Newest
  BY <1>1, <1>2, <1>6, <1>7
<1>8. ASSUME NEW i \in Row!Slots, i > 1
      PROVE  /\ i - 1 \in Row!Slots
             /\ Row!FromHead'[i] = Row!FromHead[i - 1]
             /\ Row!FromHead'[i] # Row!Newest
  <2>1. i \in 2..Mask
    BY <1>1, <1>8 DEF Row!Slots
  <2>2. i - 1 \in Row!Slots
    BY <1>1, <2>1 DEF Row!Slots
  <2>3. PICK j \in Row!Slots : j = i - 1
    BY <2>2
  <2>4. Row!FromHead[j] = IF RowStart + j - 1 <= Mask THEN RowStart + j - 1
                                                      ELSE RowStart + j - 1 - Mask
    BY FromHeadIs
  <2>5. Row!FromHead'[i] = Row!FromHead[j]
    BY <1>1, <1>2, <1>3, <1>6, <2>1, <2>3, <2>4
  <2>6. Row!FromHead'[i] # Row!Newest
    BY <1>1, <1>2, <1>6, <2>1
  <2> QED
    BY <2>2, <2>3, <2>5, <2>6
<1> QED
  BY <1>2, <1>4, <1>7, <1>8 DEF Row!Slots

LEMMA RowInsertKeeps ==
  ASSUME RowInv, NEW p \in 0..MaxRowLength, NEW tag \in Tags, Row!Insert(p, tag)
  PROVE  RowInv'
<1> DEFINE entry == <<p, tag>>
           n == Len(inserted)
<1>1. /\ WordSize \in Nat /\ Mask \in Nat /\ Mask > 0
      /\ MaxRowLength \in Nat /\ MaxRowLength < WordSize /\ p \in Nat /\ p < rowLength
  BY RowSizes DEF Row!Insert
<1>2. /\ head \in 0..Mask /\ tags \in [Row!Slots -> Tags]
      /\ positions \in [Row!Slots -> 0..WordSize - 1]
      /\ base \in Nat /\ rowLength \in Nat /\ rowLength <= MaxRowLength
      /\ inserted \in Seq(Nat \X Tags) /\ n \in Nat
  BY <1>1 DEF RowInv, RowTypeOK
<1>3. /\ \A i \in DOMAIN inserted : inserted[i][1] < p
      /\ head' = Row!Newest
      /\ tags' = [tags EXCEPT ![Row!Newest] = tag]
      /\ positions' = [positions EXCEPT ![Row!Newest] = Row!WrapWord(p + base)]
      /\ inserted' = Append(inserted, entry)
      /\ base' = base /\ rowLength' = rowLength
  BY DEF Row!Insert
<1>4. Row!WrapWord(p + base) = p + base /\ p + base \in 0..WordSize - 1
  <2>1. p + base < WordSize /\ p + base \in Nat
    BY <1>1, <1>2 DEF RowInv, BaseFits
  <2>2. (p + base) % WordSize = p + base
    BY <1>1, <2>1
  <2> QED
    BY <1>1, <2>1, <2>2 DEF Row!WrapWord
<1>5. Row!Newest \in Row!Slots /\ head' \in 0..Mask
  BY <1>2, <1>3, PlacesMove
<1>6. /\ Len(inserted') = n + 1 /\ inserted'[n + 1] = entry
      /\ \A i \in 1..n : inserted'[i] = inserted[i]
      /\ inserted' \in Seq(Nat \X Tags)
  <2>1. entry \in Nat \X Tags
    BY <1>1
  <2> HIDE DEF entry
  <2> QED
    BY <1>2, <1>3, <2>1
<1>7. entry[1] = p /\ entry[2] = tag
  OBVIOUS
<1> HIDE DEF entry
<1>8. RowTypeOK'
  <2>1. positions' \in [Row!Slots -> 0..WordSize - 1]
    BY <1>2, <1>3, <1>4, <1>5
  <2>2. tags' \in [Row!Slots -> Tags]
    BY <1>2, <1>3, <1>5
  <2> QED
    BY <1>2, <1>3, <1>5, <1>6, <2>1, <2>2 DEF RowInv, RowTypeOK
<1>9. BaseFits'
  BY <1>3 DEF RowInv, BaseFits
<1>10. NoneAhead'
  <2> SUFFICES ASSUME NEW s \in Row!Slots
               PROVE  positions'[s] <= base + rowLength \/ positions'[s] = WordSize - 1
    BY <1>3 DEF NoneAhead
  <2>1. CASE s = Row!Newest
    <3>1. positions'[s] = p + base
      BY <1>2, <1>3, <1>4, <2>1
    <3> QED
      BY <1>1, <1>2, <3>1
  <2>2. CASE s # Row!Newest
    <3>1. positions'[s] = positions[s]
      BY <1>2, <1>3, <2>2
    <3> QED
      BY <3>1 DEF RowInv, NoneAhead
  <2> QED
    BY <2>1, <2>2
<1>11. InOrder'
  <2>1. \A i \in 1..n : inserted[i][1] < rowLength /\ inserted[i][1] < p /\ i \in DOMAIN inserted
    BY <1>2, <1>3 DEF RowInv, InOrder
  <2>2. ASSUME NEW i \in 1..n + 1 PROVE inserted'[i][1] < rowLength'
    <3>1. i = n + 1 \/ i \in 1..n
      BY <1>2
    <3> QED
      BY <1>1, <1>3, <1>6, <1>7, <2>1, <3>1
  <2>3. ASSUME NEW i \in 1..n + 1, NEW j \in 1..n + 1, i < j
        PROVE  inserted'[i][1] < inserted'[j][1]
    <3>1. i \in 1..n /\ (j = n + 1 \/ j \in 1..n)
      <4> HIDE DEF n
      <4> QED
        BY ONLY <1>2, <2>3, i \in 1..n + 1, j \in 1..n + 1
    <3>2. inserted'[i] = inserted[i]
      BY <1>6, <3>1
    <3>3. CASE j = n + 1
      BY <1>6, <1>7, <2>1, <3>1, <3>2, <3>3
    <3>4. CASE j \in 1..n
      BY <1>6, <2>3, <3>1, <3>2, <3>4 DEF RowInv, InOrder
    <3> QED
      BY <3>1, <3>3, <3>4
  <2> QED
    BY <1>6, <2>2, <2>3 DEF InOrder
<1>12. RowHolds'
  <2> DEFINE Held(i, m, b) ==
        /\ i <= m => /\ tags'[Row!FromHead'[i]] = inserted'[m - i + 1][2]
                     /\ positions'[Row!FromHead'[i]] = inserted'[m - i + 1][1] + b
        /\ i > m => \/ positions'[Row!FromHead'[i]] < b
                    \/ positions'[Row!FromHead'[i]] = WordSize - 1
  <2>1. ASSUME NEW i \in Row!Slots PROVE Held(i, n + 1, base)
    <3>1. i \in Nat /\ i >= 1
      BY <1>1 DEF Row!Slots
    <3>2. CASE i = 1
      <4>1. Row!FromHead'[i] = Row!Newest
        BY <1>2, <1>3, <3>2, PlacesMove
      <4>2. tags'[Row!Newest] = tag /\ positions'[Row!Newest] = p + base
        BY <1>2, <1>3, <1>4, <1>5
      <4>3. (n + 1) - i + 1 = n + 1 /\ ~(i > n + 1)
        BY <1>2, <3>2
      <4>4. inserted'[(n + 1) - i + 1] = entry
        BY <1>6, <4>3
      <4> QED
        BY <1>7, <4>1, <4>2, <4>3, <4>4
    <3>3. CASE i > 1
      <4>1. /\ i - 1 \in Row!Slots /\ Row!FromHead'[i] = Row!FromHead[i - 1]
            /\ Row!FromHead'[i] # Row!Newest
        BY <1>2, <1>3, <3>3, PlacesMove
      <4>2. PICK j \in Row!Slots : j = i - 1
        BY <4>1
      <4>3. Row!FromHead[j] \in Row!Slots
        BY <1>2, FromHeadIs
      <4>4. /\ tags'[Row!FromHead'[i]] = tags[Row!FromHead[j]]
            /\ positions'[Row!FromHead'[i]] = positions[Row!FromHead[j]]
        BY <1>2, <1>3, <4>1, <4>2, <4>3
      <4>5. CASE i <= n + 1
        <5>1. j <= n /\ n - j + 1 \in 1..n /\ (n + 1) - i + 1 = n - j + 1 /\ ~(i > n + 1)
          BY <1>2, <3>1, <3>3, <4>2, <4>5
        <5>2. /\ tags[Row!FromHead[j]] = inserted[n - j + 1][2]
              /\ positions[Row!FromHead[j]] = inserted[n - j + 1][1] + base
          BY <5>1 DEF RowInv, RowHolds
        <5>3. inserted'[(n + 1) - i + 1] = inserted[n - j + 1]
          BY <1>6, <5>1
        <5>4. /\ tags'[Row!FromHead'[i]] = inserted'[(n + 1) - i + 1][2]
              /\ positions'[Row!FromHead'[i]] = inserted'[(n + 1) - i + 1][1] + base
          BY <4>4, <5>2, <5>3, Zenon
        <5>5. ~(i > n + 1)
          BY <5>1
        <5> HIDE DEF n
        <5> QED
          BY <5>4, <5>5
      <4>6. CASE i > n + 1
        <5>1. j > n /\ rowLength > 0 /\ ~(i <= n + 1)
          BY <1>1, <1>2, <3>1, <4>2, <4>6
        <5>2. IsLeftOver(Row!FromHead[j])
          BY <5>1 DEF RowInv, RowHolds
        <5> QED
          BY <4>4, <5>1, <5>2 DEF IsLeftOver
      <4> QED
        BY <1>2, <3>1, <4>5, <4>6
    <3> QED
      BY <3>1, <3>2, <3>3
  <2>2. Len(inserted') = n + 1 /\ base' = base
    BY <1>3, <1>6
  <2>3. ASSUME NEW i \in Row!Slots PROVE Held(i, Len(inserted'), base')
    <3> HIDE DEF n, Held
    <3> QED
      BY <2>1, <2>2
  <2> HIDE DEF n
  <2> QED
    BY <2>3, Zenon DEF RowHolds, IsLeftOver
<1> QED
  BY <1>8, <1>9, <1>10, <1>11, <1>12 DEF RowInv

LEMMA RowStep ==
  ASSUME RowWide, RowInv, Row!Next \/ UNCHANGED rowVars
  PROVE  RowInv'
<1>1. ASSUME NEW n \in 0..MaxRowLength, Row!Reset(n) PROVE RowInv'
  BY <1>1, RowResetKeeps
<1>2. ASSUME NEW p \in 0..MaxRowLength, NEW tag \in Tags, Row!Insert(p, tag) PROVE RowInv'
  BY <1>2, RowInsertKeeps
<1>3. CASE UNCHANGED rowVars
  <2>1. /\ head' = head /\ tags' = tags /\ positions' = positions
        /\ base' = base /\ rowLength' = rowLength /\ inserted' = inserted
    BY <1>3 DEF rowVars
  <2>2. Row!FromHead' = Row!FromHead
    BY <2>1 DEF Row!FromHead
  <2>3. RowTypeOK' /\ BaseFits' /\ NoneAhead' /\ InOrder'
    BY <2>1 DEF RowInv, RowTypeOK, BaseFits, NoneAhead, InOrder
  <2>4. RowHolds'
    BY <2>1, <2>2, Zenon DEF RowInv, RowHolds, IsLeftOver
  <2> QED
    BY <2>3, <2>4 DEF RowInv
<1> QED
  BY <1>1, <1>2, <1>3 DEF Row!Next

\* What a place of the row offers to a search.
LEMMA RowCandidate ==
  ASSUME RowInv, NEW i \in Row!Slots, i <= Len(inserted)
  PROVE  /\ i \in DOMAIN Row!Recent
         /\ Row!Recent[i] = inserted[Len(inserted) - i + 1]
         /\ tags[Row!FromHead[i]] = Row!Recent[i][2]
         /\ Row!Candidate(Row!FromHead[i]) = Row!Recent[i][1]
<1>1. WordSize \in Nat /\ base \in Nat /\ rowLength \in Nat /\ rowLength < WordSize
  BY RowSizes DEF RowInv, RowTypeOK
<1>2. i \in Nat /\ i >= 1 /\ Len(inserted) \in Nat
  BY RowSizes DEF RowInv, RowTypeOK, Row!Slots
<1>3. i \in DOMAIN Row!Recent /\ Row!Recent[i] = inserted[Len(inserted) - i + 1]
  BY DEF Row!Recent
<1>4. /\ tags[Row!FromHead[i]] = inserted[Len(inserted) - i + 1][2]
      /\ positions[Row!FromHead[i]] = inserted[Len(inserted) - i + 1][1] + base
  BY DEF RowInv, RowHolds
<1>5. PICK j \in 1..Len(inserted) : j = Len(inserted) - i + 1
  BY <1>2
<1>6. PICK p \in Nat : p = inserted[j][1] /\ p < rowLength
  <2>1. inserted[j] \in Nat \X Tags
    BY <1>5 DEF RowInv, RowTypeOK
  <2>2. inserted[j][1] \in Nat
    BY <2>1
  <2> QED
    BY <1>5, <2>2 DEF RowInv, InOrder
<1>7. Row!Candidate(Row!FromHead[i]) = (p + base + WordSize - base) % WordSize
  BY <1>4, <1>5, <1>6 DEF Row!Candidate
<1>8. PICK x \in Nat : x = p + WordSize /\ x = p + base + WordSize - base
  BY <1>1
<1>9. x % WordSize = p
  <2>1. x < 2 * WordSize /\ ~(x < WordSize) /\ x - WordSize = p
    <3>1. WordSize \in Nat /\ p < WordSize
      BY <1>1, <1>6
    <3> QED
      BY <1>8, <3>1
  <2> QED
    BY <1>1, <2>1, Remainder
<1> QED
  BY <1>3, <1>4, <1>5, <1>6, <1>7, <1>8, <1>9

\* What earlier inputs have left is out of the reach of every search.
LEMMA LeftOverIsOut ==
  ASSUME RowInv, NEW i \in Row!Slots, i > Len(inserted),
         NEW p \in 0..rowLength - 1
  PROVE  ~Row!IsValid(Row!Candidate(Row!FromHead[i]), p)
<1>1. /\ WordSize \in Nat /\ base \in Nat /\ rowLength \in Nat /\ rowLength < WordSize
      /\ p \in Nat /\ p < rowLength
  BY RowSizes DEF RowInv, RowTypeOK
<1>2. IsLeftOver(Row!FromHead[i])
  BY <1>1 DEF RowInv, RowHolds
<1>3. Row!FromHead[i] \in Row!Slots
  BY FromHeadIs DEF RowInv, RowTypeOK
<1>4. PICK x \in 0..WordSize - 1 : x = positions[Row!FromHead[i]]
  BY <1>3 DEF RowInv, RowTypeOK
<1>5. x < base \/ x = WordSize - 1
  BY <1>2, <1>4 DEF IsLeftOver
<1>6. base = 0 \/ base + rowLength < WordSize - 1
  BY DEF RowInv, BaseFits
<1>7. PICK y \in Nat : y = x + WordSize - base /\ y < 2 * WordSize
  BY <1>1, <1>4, <1>6
<1>8. y % WordSize >= rowLength /\ y % WordSize \in Nat
  <2>1. y % WordSize = IF y < WordSize THEN y ELSE y - WordSize
    BY <1>1, <1>7, Remainder
  <2>2. CASE y < WordSize
    <3>1. y % WordSize = y
      BY <2>1, <2>2
    <3>2. y >= rowLength
      BY <1>1, <1>4, <1>5, <1>6, <1>7, <2>2
    <3> QED
      BY <3>1, <3>2
  <2>3. CASE ~(y < WordSize)
    <3>1. y % WordSize = y - WordSize /\ y - WordSize \in Nat
      BY <1>1, <2>1, <2>3
    <3>2. x = WordSize - 1
      BY <1>1, <1>4, <1>5, <1>7, <2>3
    <3>3. y - WordSize = WordSize - 1 - base
      BY <1>1, <1>7, <3>2
    <3> QED
      BY <1>1, <1>6, <3>1, <3>3
  <2> QED
    BY <2>2, <2>3
<1>9. Row!Candidate(Row!FromHead[i]) = y % WordSize
  BY <1>4, <1>7 DEF Row!Candidate
<1> QED
  BY <1>1, <1>8, <1>9 DEF Row!IsValid

\* A row that holds what was inserted last answers as if only that existed.
LEMMA RowFinds == ASSUME RowInv PROVE Row!SearchFindsTheNewest
<1> SUFFICES ASSUME NEW p \in 0..rowLength - 1, NEW tag \in Tags, Row!IsNext(p)
             PROVE  LET wanted == {i \in DOMAIN Row!Recent :
                                     /\ Row!Recent[i][2] = tag
                                     /\ Row!IsValid(Row!Recent[i][1], p)}
                    IN  Row!Search(p, tag)
                          = [i \in Row!UpToAttempts(wanted) |-> Row!Recent[i][1]]
  BY DEF Row!SearchFindsTheNewest
<1> DEFINE wanted  == {i \in DOMAIN Row!Recent : Row!Recent[i][2] = tag
                                                /\ Row!IsValid(Row!Recent[i][1], p)}
           tagged  == {i \in Row!Slots : tags[Row!FromHead[i]] = tag}
           reached == {i \in tagged : \A j \in tagged :
                         j <= i => Row!IsValid(Row!Candidate(Row!FromHead[j]), p)}
<1>1. \A i \in Row!Slots : i \in Nat /\ i >= 1
  BY RowSizes DEF Row!Slots
<1>2. inserted \in Seq(Nat \X Tags) /\ Len(inserted) \in Nat /\ rowLength \in Nat
  BY RowSizes DEF RowInv, RowTypeOK
<1>3. DOMAIN Row!Recent = {i \in Row!Slots : i <= Len(inserted)}
  BY DEF Row!Recent
<1>4. ASSUME NEW i \in reached PROVE i \in wanted
  <2>1. i \in Row!Slots /\ tags[Row!FromHead[i]] = tag /\ i <= i
    BY <1>1
  <2>2. Row!IsValid(Row!Candidate(Row!FromHead[i]), p)
    BY <2>1
  <2>3. i <= Len(inserted)
    BY <1>1, <1>2, <2>1, <2>2, LeftOverIsOut
  <2> QED
    BY <2>1, <2>2, <2>3, RowCandidate
<1>5. ASSUME NEW i \in wanted PROVE i \in reached
  <2>1. i \in Row!Slots /\ i <= Len(inserted)
    BY <1>3
  <2>2. /\ Row!Recent[i] = inserted[Len(inserted) - i + 1]
        /\ tags[Row!FromHead[i]] = Row!Recent[i][2]
        /\ Row!Recent[i][2] = tag /\ Row!IsValid(Row!Recent[i][1], p)
    BY <2>1, RowCandidate
  <2>3. i \in tagged
    BY <2>1, <2>2
  <2>4. ASSUME NEW j \in tagged, j <= i
        PROVE  Row!IsValid(Row!Candidate(Row!FromHead[j]), p)
    <3>1. j \in Row!Slots /\ j <= Len(inserted)
      BY <1>1, <1>2, <2>1, <2>4
    <3>2. /\ Row!Recent[j] = inserted[Len(inserted) - j + 1]
          /\ Row!Candidate(Row!FromHead[j]) = Row!Recent[j][1]
      BY <3>1, RowCandidate
    <3>3. PICK k \in 1..Len(inserted) : k = Len(inserted) - i + 1
      BY <1>1, <1>2, <2>1
    <3>4. PICK l \in 1..Len(inserted) : l = Len(inserted) - j + 1
      BY <1>1, <1>2, <3>1
    <3>5. k = l \/ k < l
      BY <1>1, <1>2, <2>1, <2>4, <3>1, <3>3, <3>4
    <3>6. PICK m \in Nat : m = inserted[k][1]
      <4>1. inserted[k] \in Nat \X Tags
        BY <1>2, <3>3
      <4> QED
        BY <4>1
    <3>7. PICK o \in Nat : o = inserted[l][1]
      <4>1. inserted[l] \in Nat \X Tags
        BY <1>2, <3>4
      <4> QED
        BY <4>1
    <3>8. m <= o
      <4>1. CASE k = l
        BY <3>6, <3>7, <4>1
      <4>2. CASE k < l
        BY <3>3, <3>4, <3>6, <3>7, <4>2 DEF RowInv, InOrder
      <4> QED
        BY <3>5, <4>1, <4>2
    <3>9. o < p
      BY <1>2, <3>4, <3>7 DEF Row!IsNext
    <3>10. Row!IsValid(m, p)
      BY <2>2, <3>3, <3>6
    <3>11. Row!IsValid(o, p)
      <4>1. Row!LowestValid(p) \in Int
        BY <1>2, RowSizes DEF Row!LowestValid
      <4> QED
        BY <3>8, <3>9, <3>10, <4>1 DEF Row!IsValid
    <3> QED
      BY <3>2, <3>4, <3>7, <3>11
  <2> QED
    BY <2>3, <2>4
<1>6. reached = wanted
  BY <1>4, <1>5
<1>7. Row!Search(p, tag)
        = [i \in Row!UpToAttempts(reached) |-> Row!Candidate(Row!FromHead[i])]
  BY DEF Row!Search
<1>8. \A i \in Row!UpToAttempts(wanted) : i \in wanted
  BY DEF Row!UpToAttempts
<1>9. \A i \in wanted : Row!Candidate(Row!FromHead[i]) = Row!Recent[i][1]
  BY <1>3, RowCandidate
<1> QED
  <2>1. [i \in Row!UpToAttempts(wanted) |-> Row!Candidate(Row!FromHead[i])]
          = [i \in Row!UpToAttempts(wanted) |-> Row!Recent[i][1]]
    <3> HIDE DEF wanted
    <3> QED
      BY <1>8, <1>9
  <2>2. Row!Search(p, tag) = [i \in Row!UpToAttempts(wanted) |-> Row!Recent[i][1]]
    <3> HIDE DEF wanted, reached
    <3> QED
      BY <1>6, <1>7, <2>1
  <2> QED
    BY <2>2

\* For every width of the stored positions, size of a row, window and number of
\* attempts, as long as reset's sums fit a usize: a row of Lazy2Finder's table
\* has what was inserted last from its head on and what earlier inputs left
\* behind it, where no search can take it for a position of this input.
THEOREM RowAlwaysHolds == RowWide => (MCSpec => []RowInv)
<1> SUFFICES ASSUME RowWide PROVE MCSpec => []RowInv
  OBVIOUS
<1>1. MCInit => RowInv
  BY RowInitially DEF MCInit
<1>2. RowInv /\ [MCNext]_<<vars, cacheVars, rowVars, treeVars, parseVars, part>> => RowInv'
  BY RowStep DEF MCNext
<1> QED
  BY <1>1, <1>2, PTL DEF MCSpec

\* Under the same condition a search behind everything inserted gets, newest
\* first, the positions of this input that have its tag and lie in its window,
\* up to the attempts it has, and nothing else.
THEOREM SearchAlwaysFindsTheNewest == RowWide => (MCSpec => []SearchFindsTheNewest)
<1> SUFFICES ASSUME RowWide PROVE MCSpec => []SearchFindsTheNewest
  OBVIOUS
<1>1. RowInv => SearchFindsTheNewest
  BY RowFinds DEF SearchFindsTheNewest
<1> QED
  BY <1>1, RowAlwaysHolds, PTL
-----------------------------------------------------------------------------
(* The parser of Ultra2Finder                                              *)

\* Repeat offsets that a decoder may hold.
Offsets == {r \in Triple : NonZero(r)}

ParseNodes == [priced : BOOLEAN, match : Int, value : Int, literals : Int,
               repeats : [first : Int, second : Int, third : Int]]

ParseTypeOK ==
  /\ parseText \in ParseTexts
  /\ parsePosition \in Nat /\ parseAnchor \in Nat
  /\ parseRepeats \in Offsets /\ decoder \in Offsets
  /\ nodes \in [0..NodeCount - 1 -> ParseNodes]
  /\ current \in Nat /\ lastPosition \in Nat /\ lastStretch \in ParseNodes
  /\ storeStart \in Nat /\ stretchAt \in Nat
  /\ parsePhase \in {"parse", "forward", "store", "back", "write"}
  /\ faithful = TRUE

\* Where the stretch that ends at position i of the pass begins.
StretchBegin(node, i) == i - node.literals - node.match

\* The repeat offsets of a decoder behind the stretch that ends at i.
HeldBehind(table, node, i) ==
  LET before == table[StretchBegin(node, i)]
  IN  GetOffset(before.repeats, node.value, before.literals = 0)

\* The match of a stretch that ends at i is one, for a decoder that has come to
\* where the stretch begins.
IsReached(table, node, i) ==
  /\ node.match \in Nat \ {0} /\ node.value \in Nat \ {0} /\ node.literals \in Nat
  /\ StretchBegin(node, i) >= 0
  /\ Copies(parsePosition + StretchBegin(node, i), node.match, HeldBehind(table, node, i).first)

\* A node that the pass has come to: its path begins with the literals behind
\* the anchor, and it has the repeat offsets behind that path.
IsSettled(table, i) ==
  /\ table[i].literals \in Nat /\ table[i].repeats \in Offsets
  /\ IF table[i].match = 0
     THEN table[i].literals = i + (parsePosition - parseAnchor) /\ table[i].repeats = decoder
     ELSE IsReached(table, table[i], i) /\ table[i].repeats = HeldBehind(table, table[i], i)

\* A node that the pass has not come to.
IsTried(table, i, n) ==
  \/ ~table[i].priced /\ table[i].literals # 0
  \/ /\ table[i].priced /\ IsReached(table, table[i], i) /\ StretchBegin(table[i], i) < n
     /\ table[i].literals # 0 =>
          table[i].repeats \in Offsets /\ table[i].repeats = HeldBehind(table, table[i], i)

\* A pass over a table up to position last has settled the nodes before n.
PassIs(table, last, n) ==
  /\ table \in [0..NodeCount - 1 -> ParseNodes] /\ last \in Nat
  /\ last < ParseLongest \/ (last = ParseLongest /\ table[last].literals # 0)
  /\ parsePosition + last <= End
  /\ \A i \in 0..n - 1 : IsSettled(table, i)
  /\ \A i \in n..last : IsTried(table, i, n)

\* While a pass goes forward; behind its last position it only ends.
ForwardInv == current \in 1..lastPosition + 1 /\ PassIs(nodes, lastPosition, current)

\* When a pass has ended: its last stretch, and what lies in front of it.
StoreInv ==
  /\ parsePosition + lastPosition <= End
  /\ lastStretch.match # 0 =>
       /\ IsReached(nodes, lastStretch, lastPosition)
       /\ current = lastPosition - lastStretch.match /\ current <= ParseLongest
       /\ \A i \in 0..PathEnd : IsSettled(nodes, i)
       /\ lastStretch.literals # 0 =>
            lastStretch.repeats \in Offsets /\ lastStretch.repeats = HeldBehind(nodes, lastStretch, lastPosition)

\* A decoder at `start' that holds `offsets' can write this sequence.
IsSequence(node, start, offsets) ==
  /\ node.literals \in Nat /\ node.match \in Nat \ {0} /\ node.value \in Nat \ {0}
  /\ Copies(start + node.literals, node.match,
            GetOffset(offsets, node.value, node.literals = 0).first)

\* Sequences in nodes from..to, one behind the other, take a decoder that has
\* written the text up to `start' and holds `offsets' to where it holds `final'.
IsChain(table, from, to, start, offsets, final) ==
  \E at \in [from..to + 1 -> Int], held \in [from..to + 1 -> Offsets] :
    /\ at[from] = start /\ held[from] = offsets /\ held[to + 1] = final
    /\ \A j \in from..to :
         /\ IsSequence(table[j], at[j], held[j])
         /\ at[j + 1] = at[j] + table[j].literals + table[j].match
         /\ held[j + 1] = GetOffset(held[j], table[j].value, table[j].literals = 0)

\* The facts of a state that the pass rests on.
PassStarts ==
  /\ parsePosition \in Nat /\ parseAnchor \in Nat /\ End \in Nat
  /\ parseAnchor <= parsePosition /\ parsePosition <= End
  /\ decoder \in Offsets /\ parseRepeats = decoder

Slots == 0..NodeCount - 1
NodeTables == [Slots -> ParseNodes]

\* The table that a store into one node leaves.
WithNode(table, n, node) == [table EXCEPT ![n] = node]

WithLiterals(table, n, count) == [table EXCEPT ![n].literals = count]

\* On the way back at a stretch that ends at `last': the first sequence has yet
\* to get its literals.
BackIs(table, from, last, to, final) ==
  /\ from \in last + 2..to + 2 /\ to <= ParseLongest
  /\ \A i \in 0..last : IsSettled(table, i)
  /\ IsChain(WithLiterals(table, from, table[last].literals), from, to + 2,
             parsePosition + last - table[last].literals, table[last].repeats, final)

BackInv ==
  /\ parseAnchor <= parsePosition
  /\ BackIs(nodes, storeStart, stretchAt, current, parseRepeats)

\* On the way forward again the sequences left to store begin at the anchor.
WriteInv ==
  /\ storeStart \in 1..current + 2 /\ current <= ParseLongest
  /\ IsChain(nodes, storeStart, current + 2, parseAnchor, decoder, parseRepeats)

\* What holds between any two steps of the parser.
ParseInv ==
  /\ ParseTypeOK
  /\ parsePosition <= End
  /\ parsePhase \in {"parse", "forward", "store"} => PassStarts
  /\ parsePhase = "forward" => ForwardInv
  /\ parsePhase = "store" => StoreInv
  /\ parsePhase = "back" => BackInv
  /\ parsePhase = "write" => WriteInv

\* What CHOOSE finds by counting up.
LEMMA LeastNatural ==
  ASSUME NEW D, D \subseteq Nat, D # {}
  PROVE  \E d \in D : \A e \in D : d <= e
<1> DEFINE R == OpToRel(<, Nat)
<1>1. R = {ss \in Nat \X Nat : ss[1] < ss[2]}
  BY DEF OpToRel
<1>2. IsWellFoundedOn(R, Nat)
  BY NatLessThanWellFounded
<1> HIDE DEF R
<1>3. PICK d \in D : \A e \in D : ~(<<e, d>> \in R)
  BY <1>2, WFMin
<1>4. \A e, c \in Nat : e < c => <<e, c>> \in R
  BY <1>1
<1>5. ASSUME NEW e \in D PROVE d <= e
  <2>1. d \in Nat /\ e \in Nat
    OBVIOUS
  <2>2. ~(e < d)
    BY <1>3, <1>4, <2>1, Zenon
  <2> QED
    BY <2>1, <2>2
<1> QED
  BY <1>5

\* What the code's constants promise, one by one.
LEMMA ParseSizes ==
  /\ ParseMinMatch \in Nat \ {0} /\ ParseReserve \in Nat /\ ParseReserve >= ParseMinMatch
  /\ ParseSufficient \in Nat /\ ParseSufficient >= ParseMinMatch
  /\ ParseLongest \in Nat /\ ParseLongest > ParseSufficient
  /\ NodeCount = ParseLongest + 3
  BY ParseAssumption DEF NodeCount

\* The decoder holds distances again behind a match that it can copy.
LEMMA OffsetsStay ==
  ASSUME NEW r \in Offsets, NEW value \in Nat \ {0}, NEW none \in BOOLEAN,
         GetOffset(r, value, none).first \in Nat \ {0}
  PROVE  GetOffset(r, value, none) \in Offsets
<1> USE DEF GetOffset, Push, SwapFirstTwo, Offsets, Triple, NonZero
<1>1. value > 3 \/ value = 1 \/ value = 2 \/ value = 3
  OBVIOUS
<1>2. CASE value > 3
  BY <1>2
<1>3. CASE value = 1
  BY <1>3
<1>4. CASE value = 2
  BY <1>4
<1>5. CASE value = 3
  BY <1>5
<1> QED
  BY <1>1, <1>2, <1>3, <1>4, <1>5

\* What Ultra2 carries along a parse is what the decoder will hold.
LEMMA UpdatedIsHeld ==
  ASSUME NEW r \in Offsets, NEW value \in Nat \ {0}, NEW none \in BOOLEAN
  PROVE  GetUpdatedRepeats(r, value, none) = GetOffset(r, value, none)
<1> USE DEF GetUpdatedRepeats, GetOffset, Push, SwapFirstTwo, Offsets, Triple, NonZero
<1>1. value > 3 \/ value = 1 \/ value = 2 \/ value = 3
  OBVIOUS
<1>2. CASE value > 3
  BY <1>2
<1>3. CASE value = 1
  BY <1>3
<1>4. CASE value = 2
  BY <1>4
<1>5. CASE value = 3
  BY <1>5
<1> QED
  BY <1>1, <1>2, <1>3, <1>4, <1>5

\* The candidate that was compared is the distance the decoder resolves.
LEMMA CandidateIsHeld ==
  ASSUME NEW r \in Offsets, NEW value \in 1..3, NEW none \in BOOLEAN
  PROVE  RepeatCandidate(r, value, none) = GetOffset(r, value, none).first
<1> USE DEF GetOffset, RepeatCandidate, WrappingDecrement, Push, SwapFirstTwo, Offsets, Triple,
            NonZero
<1>1. value = 1 \/ value = 2 \/ value = 3
  OBVIOUS
<1>2. CASE value = 1
  BY <1>2
<1>3. CASE value = 2
  BY <1>3
<1>4. CASE value = 3
  BY <1>4
<1> QED
  BY <1>1, <1>2, <1>3, <1>4

\* A distance that is written out is the one the decoder uses.
LEMMA DistanceIsHeld ==
  ASSUME NEW r \in Offsets, NEW d \in Nat \ {0}, NEW none \in BOOLEAN
  PROVE  GetOffset(r, d + 3, none).first = d
  BY DEF GetOffset, Push, Offsets, Triple, NonZero

\* A match that was counted is one.
LEMMA MatchAtIs ==
  ASSUME End \in Nat, NEW here \in 0..End, NEW d \in 1..here
  PROVE  /\ MatchAt(here, d) \in 0..End - here
         /\ \A i \in 1..MatchAt(here, d) : parseText[here + i] = parseText[here - d + i]
<1> DEFINE Ends(n) == here + n = End \/ parseText[here + n + 1] # parseText[here - d + n + 1]
           D == {n \in 0..End - here : Ends(n)}
<1>1. End - here \in D
  OBVIOUS
<1>2. D \subseteq Nat
  OBVIOUS
<1>3. PICK m \in D : \A e \in D : m <= e
  <2> HIDE DEF D
  <2> QED
    BY <1>1, <1>2, LeastNatural
<1>4. m \in 0..End - here /\ Ends(m)
  BY <1>3
<1>5. ASSUME NEW i \in 1..m PROVE parseText[here + i] = parseText[here - d + i]
  <2>1. i - 1 \in 0..End - here /\ ~(m <= i - 1) /\ here + (i - 1) # End
    BY <1>4
  <2>2. i - 1 \notin D
    BY <1>3, <2>1
  <2>3. ~Ends(i - 1)
    BY <2>1, <2>2
  <2>4. parseText[here + (i - 1) + 1] = parseText[here - d + (i - 1) + 1]
    BY <2>1, <2>3
  <2>5. here + (i - 1) + 1 = here + i /\ here - d + (i - 1) + 1 = here - d + i
    OBVIOUS
  <2> QED
    BY <2>4, <2>5, Zenon
<1>6. \E n \in 0..End - here :
        /\ \A i \in 1..n : parseText[here + i] = parseText[here - d + i]
        /\ here + n = End \/ parseText[here + n + 1] # parseText[here - d + n + 1]
  BY <1>4, <1>5
<1> QED
  BY <1>6 DEF MatchAt

\* Every candidate is a match for a decoder with these repeat offsets.
AreMatches(answer, here, offsets, none) ==
  /\ Len(answer) \in Nat \ {0}
  /\ \A i \in 1..Len(answer) :
       /\ answer[i].value \in Nat \ {0} /\ answer[i].length \in ParseMinMatch..End - here
       /\ Copies(here, answer[i].length, GetOffset(offsets, answer[i].value, none).first)

\* The matcher's answers are matches for a decoder with the same offsets.
LEMMA MatchesAreMatches ==
  ASSUME End \in Nat, NEW here \in 0..End, NEW offsets \in Offsets, NEW none \in BOOLEAN,
         NEW m \in Matches(here, offsets, none)
  PROVE  /\ m.value \in Nat \ {0} /\ m.length \in ParseMinMatch..End - here
         /\ Copies(here, m.length, GetOffset(offsets, m.value, none).first)
<1> DEFINE Of(value, d) == [value |-> value, length |-> MatchAt(here, d)]
<1>1. m.length >= ParseMinMatch
  BY DEF Matches
<1>2. \/ \E v \in {u \in 1..3 : RepeatCandidate(offsets, u, none) \in 1..here} :
           m = Of(v, RepeatCandidate(offsets, v, none))
      \/ \E d \in 1..here : m = Of(d + 3, d)
  BY DEF Matches
<1>3. ASSUME NEW v \in Nat \ {0}, NEW d \in 1..here, m = Of(v, d),
             GetOffset(offsets, v, none).first = d
      PROVE  /\ m.value \in Nat \ {0} /\ m.length \in ParseMinMatch..End - here
             /\ Copies(here, m.length, GetOffset(offsets, m.value, none).first)
  <2>1. m.value = v /\ m.length = MatchAt(here, d)
    BY <1>3
  <2>2. /\ m.length \in 0..End - here
        /\ \A i \in 1..m.length : parseText[here + i] = parseText[here - d + i]
    BY <2>1, MatchAtIs
  <2>3. m.length \in ParseMinMatch..End - here
    BY <1>1, <2>2, ParseSizes
  <2>4. Copies(here, m.length, d)
    BY <2>2 DEF Copies
  <2> QED
    BY <1>3, <2>1, <2>3, <2>4
<1>4. CASE \E v \in {u \in 1..3 : RepeatCandidate(offsets, u, none) \in 1..here} :
             m = Of(v, RepeatCandidate(offsets, v, none))
  <2>1. PICK v \in 1..3 : /\ RepeatCandidate(offsets, v, none) \in 1..here
                          /\ m = Of(v, RepeatCandidate(offsets, v, none))
    BY <1>4
  <2>2. GetOffset(offsets, v, none).first = RepeatCandidate(offsets, v, none)
    BY CandidateIsHeld
  <2> QED
    BY <1>3, <2>1, <2>2
<1>5. CASE \E d \in 1..here : m = Of(d + 3, d)
  <2>1. PICK d \in 1..here : m = Of(d + 3, d)
    BY <1>5
  <2>2. d \in Nat \ {0} /\ d + 3 \in Nat \ {0}
    OBVIOUS
  <2>3. GetOffset(offsets, d + 3, none).first = d
    BY <2>2, DistanceIsHeld
  <2> QED
    BY <1>3, <2>1, <2>2, <2>3
<1> QED
  BY <1>2, <1>4, <1>5

LEMMA AnswerIs ==
  ASSUME End \in Nat, NEW here \in 0..End, NEW offsets \in Offsets, NEW none \in BOOLEAN,
         NEW answer \in Answers(here, offsets, none), answer # <<>>
  PROVE  AreMatches(answer, here, offsets, none)
<1> DEFINE matches == Matches(here, offsets, none)
<1>1. PICK n \in 1..MaxCandidates : answer \in [1..n -> matches]
  BY DEF Answers
<1>2. n \in Nat /\ n > 0
  BY <1>1, ParseAssumption
<1>3. answer \in Seq(matches)
  BY <1>1, <1>2, SeqDef
<1>4. Len(answer) \in Nat /\ DOMAIN answer = 1..Len(answer)
  BY <1>3, LenProperties
<1>5. Len(answer) = n
  BY <1>1, <1>2, <1>4
<1>6. \A i \in 1..Len(answer) : answer[i] \in Matches(here, offsets, none)
  BY <1>1, <1>5
<1> QED
  <2> HIDE DEF matches
  <2> QED
    BY <1>2, <1>5, <1>6, MatchesAreMatches DEF AreMatches

\* A shorter match than one of the candidates is one too.
LEMMA CandidateForIs ==
  ASSUME End \in Nat, NEW here \in 0..End, NEW offsets, NEW none,
         NEW answer, AreMatches(answer, here, offsets, none),
         NEW size \in ParseMinMatch..Longest(answer)
  PROVE  /\ CandidateFor(answer, size).value \in Nat \ {0}
         /\ Copies(here, size, GetOffset(offsets, CandidateFor(answer, size).value, none).first)
<1> DEFINE D == {i \in 1..Len(answer) : answer[i].length >= size}
<1>1. /\ Len(answer) \in Nat \ {0} /\ Longest(answer) \in Int
      /\ \A i \in 1..Len(answer) : answer[i].length \in Nat
  BY ParseSizes DEF AreMatches, Longest
<1>2. size \in Nat
  BY ParseSizes
<1>3. Len(answer) \in D /\ D \subseteq Nat
  BY <1>1, <1>2 DEF Longest
<1>4. PICK k \in D : \A e \in D : k <= e
  <2> HIDE DEF D
  <2> QED
    BY <1>3, LeastNatural
<1>5. k \in 1..Len(answer) /\ answer[k].length >= size
  BY <1>4
<1>6. ASSUME NEW j \in 1..k - 1 PROVE answer[j].length < size
  <2>1. j \in 1..Len(answer) /\ ~(k <= j)
    BY <1>1, <1>5
  <2>2. j \notin D
    BY <1>4, <2>1
  <2> QED
    BY <1>1, <1>2, <2>1, <2>2
<1>7. \E i \in 1..Len(answer) :
           answer[i].length >= size /\ \A j \in 1..i - 1 : answer[j].length < size
  BY <1>5, <1>6
<1>8. PICK i \in 1..Len(answer) :
           answer[i].length >= size /\ CandidateFor(answer, size) = answer[i]
  BY <1>7 DEF CandidateFor
<1>9. /\ answer[i].value \in Nat \ {0} /\ answer[i].length \in Nat
      /\ Copies(here, answer[i].length, GetOffset(offsets, answer[i].value, none).first)
  BY <1>1 DEF AreMatches
<1>10. Copies(here, size, GetOffset(offsets, answer[i].value, none).first)
  BY <1>2, <1>8, <1>9 DEF Copies
<1> QED
  BY <1>8, <1>9, <1>10

\* What is known of a stretch rests on the node that it begins behind.
LEMMA ReachedStays ==
  ASSUME NEW table, NEW other, NEW node, NEW i, IsReached(table, node, i),
         other[StretchBegin(node, i)] = table[StretchBegin(node, i)]
  PROVE  IsReached(other, node, i) /\ HeldBehind(other, node, i) = HeldBehind(table, node, i)
<1>1. HeldBehind(other, node, i) = HeldBehind(table, node, i)
  BY DEF HeldBehind
<1> QED
  BY <1>1 DEF IsReached

LEMMA BeginIsBefore ==
  ASSUME NEW table, NEW node, NEW i \in Int, IsReached(table, node, i)
  PROVE  StretchBegin(node, i) \in 0..i - 1
  BY DEF IsReached, StretchBegin

\* A node stays settled while the nodes up to it stay as they are.
LEMMA SettledStays ==
  ASSUME NEW table, NEW other, NEW i \in Nat, IsSettled(table, i),
         \A j \in 0..i : other[j] = table[j]
  PROVE  IsSettled(other, i)
<1>1. other[i] = table[i]
  OBVIOUS
<1>2. CASE table[i].match = 0
  BY <1>1, <1>2, Zenon DEF IsSettled
<1>3. CASE table[i].match # 0
  <2>1. IsReached(table, table[i], i) /\ table[i].repeats = HeldBehind(table, table[i], i)
    BY <1>3, Zenon DEF IsSettled
  <2>2. StretchBegin(table[i], i) \in 0..i
    BY <2>1, BeginIsBefore
  <2>3. IsReached(other, table[i], i) /\ HeldBehind(other, table[i], i) = HeldBehind(table, table[i], i)
    BY <2>1, <2>2, ReachedStays
  <2> QED
    BY <1>1, <1>3, <2>1, <2>3, Zenon DEF IsSettled
<1> QED
  BY <1>2, <1>3

LEMMA TriedStays ==
  ASSUME NEW table, NEW other, NEW i \in Nat, NEW n \in Nat, IsTried(table, i, n),
         other[i] = table[i], \A j \in 0..n - 1 : other[j] = table[j]
  PROVE  IsTried(other, i, n)
<1>1. CASE ~table[i].priced /\ table[i].literals # 0
  BY <1>1, Zenon DEF IsTried
<1>2. CASE ~(~table[i].priced /\ table[i].literals # 0)
  <2>1. /\ table[i].priced /\ IsReached(table, table[i], i) /\ StretchBegin(table[i], i) < n
        /\ table[i].literals # 0 =>
             table[i].repeats \in Offsets /\ table[i].repeats = HeldBehind(table, table[i], i)
    BY <1>2, Zenon DEF IsTried
  <2>2. StretchBegin(table[i], i) \in 0..n - 1
    BY <2>1, BeginIsBefore
  <2>3. IsReached(other, table[i], i) /\ HeldBehind(other, table[i], i) = HeldBehind(table, table[i], i)
    BY <2>1, <2>2, ReachedStays
  <2> QED
    BY <2>1, <2>3, Zenon DEF IsTried
<1> QED
  BY <1>1, <1>2

LEMMA TriedLater ==
  ASSUME NEW table, NEW i \in Nat, NEW n \in Nat, IsTried(table, i, n)
  PROVE  IsTried(table, i, n + 1)
<1>1. CASE ~table[i].priced /\ table[i].literals # 0
  BY <1>1, Zenon DEF IsTried
<1>2. CASE ~(~table[i].priced /\ table[i].literals # 0)
  <2>1. /\ table[i].priced /\ IsReached(table, table[i], i) /\ StretchBegin(table[i], i) < n
        /\ table[i].literals # 0 =>
             table[i].repeats \in Offsets /\ table[i].repeats = HeldBehind(table, table[i], i)
    BY <1>2, Zenon DEF IsTried
  <2>2. StretchBegin(table[i], i) < n + 1
    BY <2>1, BeginIsBefore
  <2> QED
    BY <2>1, <2>2, Zenon DEF IsTried
<1> QED
  BY <1>1, <1>2

\* Behind a stretch that begins where everything is settled, the decoder holds
\* distances, and RepeatsOver foresees them.
LEMMA HeldIsOffsets ==
  ASSUME PassStarts, NEW table, NEW node, NEW i \in Int, IsReached(table, node, i),
         table[StretchBegin(node, i)].repeats \in Offsets
  PROVE  /\ HeldBehind(table, node, i) \in Offsets
         /\ GetUpdatedRepeats(table[StretchBegin(node, i)].repeats, node.value,
                              table[StretchBegin(node, i)].literals = 0)
              = HeldBehind(table, node, i)
<1> DEFINE before == table[StretchBegin(node, i)]
<1>1. node.value \in Nat \ {0} /\ before.repeats \in Offsets /\ (before.literals = 0) \in BOOLEAN
  BY DEF IsReached
<1>2. HeldBehind(table, node, i) = GetOffset(before.repeats, node.value, before.literals = 0)
  BY DEF HeldBehind
<1>3. HeldBehind(table, node, i).first \in 1..parsePosition + StretchBegin(node, i)
  BY DEF IsReached, Copies
<1>4. HeldBehind(table, node, i).first \in Nat \ {0}
  BY <1>3, BeginIsBefore DEF PassStarts
<1> HIDE DEF before
<1>5. HeldBehind(table, node, i) \in Offsets
  BY <1>1, <1>2, <1>4, OffsetsStay
<1>6. GetUpdatedRepeats(before.repeats, node.value, before.literals = 0)
        = GetOffset(before.repeats, node.value, before.literals = 0)
  BY <1>1, UpdatedIsHeld
<1> QED
  BY <1>2, <1>5, <1>6 DEF before

\* The table after the literal was tried: what ends at `current' may still lack
\* its repeat offsets.
IsHalf(table, last) ==
  /\ table \in [0..NodeCount - 1 -> ParseNodes] /\ last \in Nat /\ current \in 1..last
  /\ last < ParseLongest \/ (last = ParseLongest /\ table[last].literals # 0)
  /\ parsePosition + last <= End
  /\ \A i \in 0..current - 1 : IsSettled(table, i)
  /\ IF table[current].literals = 0 THEN IsReached(table, table[current], current)
                                    ELSE IsSettled(table, current)
  /\ \A i \in current + 1..last : IsTried(table, i, current)

\* What a settled node tells about the types of its parts.
LEMMA SettledTypes ==
  ASSUME NEW table, NEW i \in Nat, table[i] \in ParseNodes, IsSettled(table, i), PassStarts
  PROVE  /\ table[i].literals \in Nat /\ table[i].match \in Nat /\ table[i].repeats \in Offsets
         /\ table[i].match # 0 => table[i].value \in Nat \ {0}
  BY DEF IsSettled, IsReached, ParseNodes

LEMMA NodeParts ==
  ASSUME NEW node \in ParseNodes
  PROVE  /\ node.priced \in BOOLEAN /\ node.match \in Int /\ node.value \in Int
         /\ node.literals \in Int /\ node.repeats \in [first : Int, second : Int, third : Int]
  BY DEF ParseNodes

LEMMA NodeWithLiteral ==
  ASSUME NEW node \in ParseNodes, NEW changed,
         changed = [node EXCEPT !.literals = @ + 1, !.priced = TRUE]
  PROVE  /\ changed \in ParseNodes /\ changed.match = node.match /\ changed.value = node.value
         /\ changed.literals = node.literals + 1 /\ changed.repeats = node.repeats
<1>1. /\ changed.match = node.match /\ changed.value = node.value
      /\ changed.literals = node.literals + 1 /\ changed.repeats = node.repeats
  BY DEF ParseNodes
<1>2. node.literals + 1 \in Int
  BY NodeParts
<1>3. changed \in ParseNodes
  BY <1>2, Zenon DEF ParseNodes
<1> QED
  BY <1>1, <1>3

LEMMA NodeWithOnePriced ==
  ASSUME NEW node \in ParseNodes, node.priced, NEW r,
         NEW changed, changed = [node EXCEPT !.literals = 1, !.repeats = r]
  PROVE  changed.priced
  BY Zenon DEF ParseNodes

\* A literal more behind a settled node.
LEMMA OneMoreSettled ==
  ASSUME PassStarts, NEW table, NEW other, NEW i \in Nat, NEW h \in Nat, i = h + 1,
         table[h] \in ParseNodes, IsSettled(table, h),
         \A j \in 0..h : other[j] = table[j],
         other[i].match = table[h].match, other[i].value = table[h].value,
         other[i].literals = table[h].literals + 1, other[i].repeats = table[h].repeats
  PROVE  IsSettled(other, i) /\ other[i].literals # 0
<1> DEFINE before == table[h]
           node == other[i]
<1>2. /\ before.literals \in Nat /\ before.match \in Nat /\ before.repeats \in Offsets
      /\ before \in ParseNodes
  BY SettledTypes
<1>3. /\ node.literals = before.literals + 1 /\ node.match = before.match
      /\ node.value = before.value /\ node.repeats = before.repeats
  OBVIOUS
<1>4. node.literals \in Nat /\ node.literals # 0
  BY <1>2, <1>3
<1>5. StretchBegin(node, i) = StretchBegin(before, h)
  BY <1>2, <1>3 DEF StretchBegin
<1>6. ASSUME before.match = 0 PROVE IsSettled(other, i)
  <2>1. before.literals = h + (parsePosition - parseAnchor) /\ before.repeats = decoder
    BY <1>6, Zenon DEF IsSettled
  <2>2. node.literals = i + (parsePosition - parseAnchor)
    BY <1>3, <2>1 DEF PassStarts
  <2>3. node.match = 0 /\ node.repeats \in Offsets /\ node.repeats = decoder
    BY <1>2, <1>3, <1>6, <2>1
  <2> QED
    BY <1>3, <1>4, <2>2, <2>3, Zenon DEF IsSettled
<1>7. ASSUME before.match # 0 PROVE IsSettled(other, i)
  <2>1. IsReached(table, before, h) /\ before.repeats = HeldBehind(table, before, h)
    BY <1>7, Zenon DEF IsSettled
  <2>2. StretchBegin(before, h) \in 0..h
    BY <2>1, BeginIsBefore
  <2>3. HeldBehind(other, node, i) = HeldBehind(table, before, h)
    <3>1. other[StretchBegin(node, i)] = table[StretchBegin(before, h)]
      BY <1>5, <2>2
    <3> QED
      BY <1>3, <3>1, Zenon DEF HeldBehind
  <2>4. IsReached(other, node, i)
    <3> HIDE DEF before, node
    <3> QED
      BY <1>3, <1>4, <1>5, <2>1, <2>3 DEF IsReached
  <2>5. node.match # 0 /\ node.repeats \in Offsets /\ node.repeats = HeldBehind(other, node, i)
    BY <1>2, <1>3, <1>7, <2>1, <2>3
  <2>6. node.literals \in Nat /\ node.repeats \in Offsets
    BY <1>4, <2>5
  <2> QED
    BY <2>4, <2>5, <2>6, Zenon DEF IsSettled
<1> QED
  BY <1>3, <1>4, <1>6, <1>7

\* RepeatsOver is what the decoder holds behind a match without literals.
LEMMA OverIsHeld ==
  ASSUME PassStarts, NEW table, NEW node, NEW i \in Int, IsReached(table, node, i),
         node.literals = 0, table[StretchBegin(node, i)].repeats \in Offsets
  PROVE  RepeatsOver(table, i, node) = HeldBehind(table, node, i)
         /\ RepeatsOver(table, i, node) \in Offsets
<1>1. /\ HeldBehind(table, node, i) \in Offsets
      /\ GetUpdatedRepeats(table[StretchBegin(node, i)].repeats, node.value,
                           table[StretchBegin(node, i)].literals = 0)
           = HeldBehind(table, node, i)
  BY HeldIsOffsets
<1>2. StretchBegin(node, i) = i - node.match
  BY DEF StretchBegin, IsReached
<1> QED
  BY <1>1, <1>2, Zenon DEF RepeatsOver

\* A match that ends at i, with one literal behind it.
LEMMA MatchAndLiteral ==
  ASSUME PassStarts, NEW table, NEW other, NEW i \in Nat \ {0},
         table[i] \in ParseNodes, table[i].priced,
         IsReached(table, table[i], i), table[i].literals = 0,
         table[StretchBegin(table[i], i)].repeats \in Offsets,
         \A j \in 0..i - 1 : other[j] = table[j],
         other[i + 1].literals = 1, other[i + 1].match = table[i].match,
         other[i + 1].value = table[i].value, other[i + 1].priced,
         other[i + 1].repeats = RepeatsOver(table, i, table[i])
  PROVE  IsTried(other, i + 1, i)
<1> DEFINE before == table[i]
           node == other[i + 1]
<1>1. before.literals = 0 /\ before.match \in Nat \ {0} /\ before.value \in Nat \ {0}
  BY DEF IsReached
<1>2. StretchBegin(before, i) = i - before.match /\ StretchBegin(before, i) \in 0..i - 1
  <2>1. StretchBegin(before, i) \in 0..i - 1
    BY BeginIsBefore
  <2> QED
    BY <1>1, <2>1 DEF StretchBegin
<1>3. RepeatsOver(table, i, before) = HeldBehind(table, before, i)
      /\ RepeatsOver(table, i, before) \in Offsets
  BY OverIsHeld
<1>8. /\ node.literals = 1 /\ node.match = before.match /\ node.value = before.value
      /\ node.repeats \in Offsets /\ node.repeats = HeldBehind(table, before, i)
  BY <1>3
<1>9. StretchBegin(node, i + 1) = StretchBegin(before, i)
  BY <1>1, <1>8 DEF StretchBegin
<1>10. HeldBehind(other, node, i + 1) = HeldBehind(table, before, i)
  <2>1. other[StretchBegin(node, i + 1)] = table[StretchBegin(before, i)]
    BY <1>2, <1>9
  <2> QED
    BY <1>8, <2>1, Zenon DEF HeldBehind
<1>11. IsReached(other, node, i + 1)
  <2>1. IsReached(table, before, i) /\ node.literals \in Nat
    BY <1>8
  <2> HIDE DEF before, node
  <2> QED
    BY <1>8, <1>9, <1>10, <2>1 DEF IsReached
<1>12. StretchBegin(node, i + 1) < i
  BY <1>2, <1>9
<1>13. node.repeats \in Offsets /\ node.repeats = HeldBehind(other, node, i + 1)
  BY <1>8, <1>10
<1> QED
  BY <1>11, <1>12, <1>13, Zenon DEF IsTried

\* A node that the pass comes to and no literal replaces is a match.
LEMMA TriedIsMatch ==
  ASSUME NEW table, NEW i \in Nat, NEW n \in Nat, IsTried(table, i, n),
         table[i].priced \/ table[i].literals = 0
  PROVE  /\ table[i].priced /\ IsReached(table, table[i], i)
         /\ StretchBegin(table[i], i) \in 0..n - 1
         /\ table[i].literals # 0 =>
              table[i].repeats \in Offsets /\ table[i].repeats = HeldBehind(table, table[i], i)
<1>1. /\ table[i].priced /\ IsReached(table, table[i], i) /\ StretchBegin(table[i], i) < n
      /\ table[i].literals # 0 =>
           table[i].repeats \in Offsets /\ table[i].repeats = HeldBehind(table, table[i], i)
  BY Zenon DEF IsTried
<1>2. StretchBegin(table[i], i) \in 0..n - 1
  BY <1>1, BeginIsBefore
<1> QED
  BY <1>1, <1>2, Zenon

LEMMA MatchIsHalf ==
  ASSUME PassStarts, NEW table, NEW i \in Nat, NEW n \in Nat, IsTried(table, i, n),
         table[i].priced \/ table[i].literals = 0
  PROVE  IF table[i].literals = 0 THEN IsReached(table, table[i], i) ELSE IsSettled(table, i)
<1>1. /\ IsReached(table, table[i], i)
      /\ table[i].literals # 0 =>
           table[i].repeats \in Offsets /\ table[i].repeats = HeldBehind(table, table[i], i)
  BY TriedIsMatch, Zenon
<1>2. table[i].match # 0 /\ table[i].literals \in Nat
  BY <1>1 DEF IsReached
<1> QED
  BY <1>1, <1>2, Zenon DEF IsSettled

\* What the pass knows of its table before it tries the literal.
LEMMA PassAtCurrent ==
  ASSUME PassStarts, ForwardInv, current <= lastPosition
  PROVE  /\ nodes \in [0..NodeCount - 1 -> ParseNodes] /\ lastPosition \in Nat
         /\ current \in 1..lastPosition /\ current + 1 \in 0..NodeCount - 1
         /\ lastPosition < ParseLongest \/ (lastPosition = ParseLongest /\ nodes[lastPosition].literals # 0)
         /\ lastPosition + 1 \in 0..NodeCount - 1
         /\ parsePosition + lastPosition <= End
         /\ \A i \in 0..current - 1 : IsSettled(nodes, i)
         /\ \A i \in current..lastPosition : IsTried(nodes, i, current)
  BY ParseSizes DEF ForwardInv, PassIs

\* The literal in front of `current' is cheaper than the match, or is not.
LEMMA LiteralIsHalf ==
  ASSUME PassStarts, ForwardInv, current <= lastPosition
  PROVE  IsHalf(WithLiteral(nodes), lastPosition)
<1> PICK table : table = WithLiteral(nodes)
  OBVIOUS
<1>1. /\ nodes \in [0..NodeCount - 1 -> ParseNodes] /\ lastPosition \in Nat
      /\ current \in 1..lastPosition /\ lastPosition + 1 \in 0..NodeCount - 1
      /\ lastPosition < ParseLongest \/ (lastPosition = ParseLongest /\ nodes[lastPosition].literals # 0)
      /\ parsePosition + lastPosition <= End
      /\ \A i \in 0..current - 1 : IsSettled(nodes, i)
      /\ \A i \in current..lastPosition : IsTried(nodes, i, current)
  BY PassAtCurrent
<1>2. /\ NodeCount \in Nat /\ current \in Nat \ {0} /\ current - 1 \in 0..NodeCount - 1
      /\ current \in 0..NodeCount - 1 /\ current - 1 \in 0..current - 1
  BY <1>1, ParseSizes
<1>3. /\ \A i \in 0..NodeCount - 1 : i # current => table[i] = nodes[i]
      /\ table[current] = [nodes[current - 1] EXCEPT !.literals = @ + 1, !.priced = TRUE]
      /\ table = [nodes EXCEPT ![current] = table[current]]
  BY <1>1, <1>2, Zenon DEF WithLiteral
<1>4. \A i \in 0..current - 1 : table[i] = nodes[i]
  BY <1>1, <1>2, <1>3
<1>5. nodes[current - 1] \in ParseNodes /\ IsSettled(nodes, current - 1)
  BY <1>1, <1>2
<1>6. IsSettled(table, current) /\ table[current] \in ParseNodes /\ table[current].literals # 0
  <2>1. /\ current \in Nat \ {0}
        /\ table[current] = [nodes[current - 1] EXCEPT !.literals = @ + 1, !.priced = TRUE]
    BY <1>2, <1>3, Zenon
  <2> QED
    <3>1. PICK node : node = nodes[current - 1]
      OBVIOUS
    <3>2. PICK changed : changed = table[current]
      OBVIOUS
    <3>3. node \in ParseNodes /\ changed = [node EXCEPT !.literals = @ + 1, !.priced = TRUE]
      BY <1>5, <2>1, <3>1, <3>2, Zenon
    <3>4. /\ changed \in ParseNodes /\ changed.match = node.match /\ changed.value = node.value
          /\ changed.literals = node.literals + 1 /\ changed.repeats = node.repeats
      BY <3>3, NodeWithLiteral
    <3>5. /\ table[current] \in ParseNodes /\ table[current].match = nodes[current - 1].match
          /\ table[current].value = nodes[current - 1].value
          /\ table[current].literals = nodes[current - 1].literals + 1
          /\ table[current].repeats = nodes[current - 1].repeats
      BY <3>1, <3>2, <3>4, Zenon
    <3>6. current \in Nat \ {0}
      BY <1>2
    <3>7. IsSettled(table, current) /\ table[current].literals # 0
      <4>1. PICK h \in Nat : current = h + 1 /\ h = current - 1
        BY <3>6
      <4>2. PICK i \in Nat : i = current
        BY <3>6
      <4>3. PICK old : old = nodes
        OBVIOUS
      <4>4. /\ old[h] \in ParseNodes /\ IsSettled(old, h) /\ i = h + 1
            /\ \A j \in 0..h : table[j] = old[j]
            /\ table[i].match = old[h].match /\ table[i].value = old[h].value
            /\ table[i].literals = old[h].literals + 1
            /\ table[i].repeats = old[h].repeats
        BY <1>4, <1>5, <3>5, <4>1, <4>2, <4>3
      <4>5. IsSettled(table, i) /\ table[i].literals # 0
        BY <4>4, OneMoreSettled
      <4> QED
        BY <4>2, <4>5
    <3> QED
      BY <3>5, <3>7
<1>7. table \in [0..NodeCount - 1 -> ParseNodes]
  BY <1>1, <1>3, <1>6, Zenon
<1>8. \A i \in 0..current - 1 : IsSettled(table, i)
  <2> TAKE i \in 0..current - 1
  <2>1. i \in Nat /\ IsSettled(nodes, i) /\ \A j \in 0..i : table[j] = nodes[j]
    BY <1>1, <1>2, <1>4
  <2> QED
    BY <2>1, SettledStays
<1>9. \A i \in current + 1..lastPosition : IsTried(table, i, current)
  <2> TAKE i \in current + 1..lastPosition
  <2>1. i \in Nat /\ current \in Nat /\ IsTried(nodes, i, current) /\ table[i] = nodes[i]
    BY <1>1, <1>2, <1>3
  <2> QED
    BY <1>4, <2>1, TriedStays
<1>10. lastPosition < ParseLongest \/ (lastPosition = ParseLongest /\ table[lastPosition].literals # 0)
  <2>1. lastPosition = current \/ table[lastPosition] = nodes[lastPosition]
    BY <1>1, <1>2, <1>3
  <2> QED
    BY <1>1, <1>6, <2>1
<1> QED
  BY <1>1, <1>6, <1>7, <1>8, <1>9, <1>10 DEF IsHalf

LEMMA MatchStaysHalf ==
  ASSUME PassStarts, ForwardInv, current <= lastPosition, nodes[current].priced
  PROVE  IsHalf(nodes, lastPosition)
<1>1. /\ nodes \in [0..NodeCount - 1 -> ParseNodes] /\ lastPosition \in Nat
      /\ current \in 1..lastPosition
      /\ lastPosition < ParseLongest \/ (lastPosition = ParseLongest /\ nodes[lastPosition].literals # 0)
      /\ parsePosition + lastPosition <= End
      /\ \A i \in 0..current - 1 : IsSettled(nodes, i)
      /\ \A i \in current..lastPosition : IsTried(nodes, i, current)
  BY PassAtCurrent
<1>2. current \in Nat /\ IsTried(nodes, current, current)
  BY <1>1
<1>3. IF nodes[current].literals = 0 THEN IsReached(nodes, nodes[current], current)
                                     ELSE IsSettled(nodes, current)
  BY <1>2, MatchIsHalf
<1>4. \A i \in current + 1..lastPosition : IsTried(nodes, i, current)
  BY <1>1
<1> QED
  BY <1>1, <1>3, <1>4 DEF IsHalf

LEMMA OneLiteralIsHalf ==
  ASSUME PassStarts, ForwardInv, current <= lastPosition,
         nodes[current].literals = 0, parsePosition + current < End
  PROVE  IsHalf(WithOneLiteral(nodes, nodes[current]), Later(lastPosition, current + 1))
<1> PICK before : before = WithLiteral(nodes)
  OBVIOUS
<1> PICK table : table = WithOneLiteral(nodes, nodes[current])
  OBVIOUS
<1> PICK c : c = current
  OBVIOUS
<1> PICK last : last = Later(lastPosition, current + 1)
  OBVIOUS
<1> PICK old : old = nodes
  OBVIOUS
<1>1. /\ old \in [0..NodeCount - 1 -> ParseNodes] /\ lastPosition \in Nat
      /\ c \in 1..lastPosition /\ c + 1 \in 0..NodeCount - 1
      /\ lastPosition < ParseLongest \/ (lastPosition = ParseLongest /\ old[lastPosition].literals # 0)
      /\ \A i \in 0..c - 1 : IsSettled(old, i)
      /\ \A i \in c..lastPosition : IsTried(old, i, c)
  BY PassAtCurrent
<1>2. IsHalf(before, lastPosition)
  BY LiteralIsHalf
<1>3. /\ before \in [0..NodeCount - 1 -> ParseNodes] /\ parsePosition + lastPosition <= End
      /\ \A i \in 0..c - 1 : IsSettled(before, i)
      /\ IF before[c].literals = 0 THEN IsReached(before, before[c], c) ELSE IsSettled(before, c)
      /\ \A i \in c + 1..lastPosition : IsTried(before, i, c)
  BY <1>2, Zenon DEF IsHalf
<1>4. NodeCount \in Nat /\ c \in Nat \ {0} /\ c \in 0..NodeCount - 1
  BY <1>1, ParseSizes
<1>5. before = [old EXCEPT ![c] = before[c]]
  BY <1>1, <1>4, Zenon DEF WithLiteral
<1>6. table = [before EXCEPT ![c + 1] =
                 [old[c] EXCEPT !.literals = 1, !.repeats = RepeatsOver(old, c, old[c])]]
  BY Zenon DEF WithOneLiteral
<1>7. \A i \in 0..c - 1 : before[i] = old[i]
  BY <1>1, <1>4, <1>5
<1>8. \A i \in 0..NodeCount - 1 : i # c + 1 => table[i] = before[i]
  BY <1>3, <1>6
<1>9. table[c + 1] = [old[c] EXCEPT !.literals = 1, !.repeats = RepeatsOver(old, c, old[c])]
  BY <1>1, <1>3, <1>6, Zenon
<1>10. /\ old[c].priced /\ IsReached(old, old[c], c) /\ old[c].literals = 0
       /\ StretchBegin(old[c], c) \in 0..c - 1
  <2>1. IsTried(old, c, c) /\ c \in Nat /\ old[c].literals = 0
    BY <1>1, <1>4
  <2> QED
    BY <2>1, TriedIsMatch, Zenon
<1>11. old[c] \in ParseNodes /\ old[StretchBegin(old[c], c)].repeats \in Offsets
  <2>1. IsSettled(old, StretchBegin(old[c], c))
    BY <1>1, <1>10
  <2> QED
    BY <1>1, <1>4, <2>1 DEF IsSettled
<1>12. PICK held : held = RepeatsOver(old, c, old[c])
  OBVIOUS
<1>13. held \in Offsets
  <2>1. c \in Int
    BY <1>4
  <2>2. RepeatsOver(old, c, old[c]) \in Offsets
    BY <1>10, <1>11, <2>1, OverIsHeld
  <2> QED
    BY <1>12, <2>2
<1>14. /\ table[c + 1] \in ParseNodes /\ table[c + 1].literals = 1
       /\ table[c + 1].match = old[c].match /\ table[c + 1].value = old[c].value
       /\ table[c + 1].repeats = RepeatsOver(old, c, old[c])
  <2>1. PICK node : node = old[c]
    OBVIOUS
  <2>2. PICK changed : changed = table[c + 1]
    OBVIOUS
  <2>3. held \in [first : Int, second : Int, third : Int]
    BY <1>13 DEF Offsets, Triple
  <2>4. node \in ParseNodes /\ changed = [node EXCEPT !.literals = 1, !.repeats = held]
    BY <1>9, <1>11, <1>12, <2>1, <2>2, Zenon
  <2>5. /\ changed \in ParseNodes /\ changed.match = node.match /\ changed.value = node.value
        /\ changed.literals = 1 /\ changed.repeats = held
    <3>1. /\ changed.match = node.match /\ changed.value = node.value
          /\ changed.literals = 1 /\ changed.repeats = held
      BY <2>4 DEF ParseNodes
    <3>2. 1 \in Int
      OBVIOUS
    <3>3. changed \in ParseNodes
      BY <2>3, <2>4, <3>2, Zenon DEF ParseNodes
    <3> QED
      BY <3>1, <3>3
  <2> QED
    BY <1>12, <2>1, <2>2, <2>5, Zenon
<1>15. table[c + 1].priced
  <2>1. PICK node : node = old[c]
    OBVIOUS
  <2>2. PICK changed : changed = table[c + 1]
    OBVIOUS
  <2>3. /\ node \in ParseNodes /\ node.priced
        /\ changed = [node EXCEPT !.literals = 1, !.repeats = held]
    BY <1>9, <1>10, <1>11, <1>12, <2>1, <2>2, Zenon
  <2>4. changed.priced
    BY <2>3, NodeWithOnePriced, Zenon
  <2> QED
    BY <2>2, <2>4, Zenon
<1>16. \A j \in 0..c - 1 : table[j] = old[j]
  BY <1>1, <1>4, <1>7, <1>8
<1>17. IsTried(table, c + 1, c)
  BY <1>4, <1>10, <1>11, <1>14, <1>15, <1>16, MatchAndLiteral, Zenon
<1>18. table \in [0..NodeCount - 1 -> ParseNodes]
  BY <1>3, <1>6, <1>9, <1>14, Zenon
<1>19. /\ \A j \in 0..c : table[j] = before[j]
       /\ \A j \in c + 2..lastPosition : table[j] = before[j]
  BY <1>1, <1>4, <1>8, ParseSizes
<1>20. \A i \in 0..c - 1 : IsSettled(table, i)
  <2> TAKE i \in 0..c - 1
  <2>1. i \in Nat /\ IsSettled(before, i) /\ \A j \in 0..i : table[j] = before[j]
    BY <1>3, <1>4, <1>19
  <2> QED
    BY <2>1, SettledStays
<1>21. IF table[c].literals = 0 THEN IsReached(table, table[c], c) ELSE IsSettled(table, c)
  <2>1. c \in 0..c /\ c \in Int /\ table[c] = before[c]
    BY <1>4, <1>19
  <2>2. ASSUME before[c].literals = 0 PROVE IsReached(table, table[c], c)
    <3>1. IsReached(before, before[c], c)
      BY <1>3, <2>2
    <3>2. StretchBegin(before[c], c) \in 0..c - 1
      BY <2>1, <3>1, BeginIsBefore
    <3>3. table[StretchBegin(before[c], c)] = before[StretchBegin(before[c], c)]
      BY <1>4, <1>19, <3>2
    <3>4. IsReached(table, before[c], c)
      BY <3>1, <3>3, ReachedStays
    <3> QED
      BY <2>1, <3>4, Zenon
  <2>3. ASSUME before[c].literals # 0 PROVE IsSettled(table, c)
    <3>1. IsSettled(before, c) /\ c \in Nat
      BY <1>3, <1>4, <2>3
    <3> QED
      BY <1>19, <3>1, SettledStays
  <2> QED
    BY <2>1, <2>2, <2>3
<1>22. last \in Nat /\ c + 1 <= last /\ last \in {lastPosition, c + 1}
  BY <1>1, <1>4 DEF Later
<1>23. \A i \in c + 1..last : IsTried(table, i, c)
  <2> TAKE i \in c + 1..last
  <2>1. CASE i = c + 1
    BY <1>17, <2>1
  <2>2. CASE i # c + 1
    <3>1. i \in c + 2..lastPosition /\ i \in Nat /\ c \in Nat
      BY <1>1, <1>4, <1>22, <2>2
    <3>2. IsTried(before, i, c) /\ table[i] = before[i] /\ \A j \in 0..c - 1 : table[j] = before[j]
      BY <1>3, <1>4, <1>19, <3>1
    <3> QED
      BY <3>1, <3>2, TriedStays
  <2> QED
    BY <2>1, <2>2
<1>24. last < ParseLongest \/ (last = ParseLongest /\ table[last].literals # 0)
  <2>1. CASE last = c + 1
    <3>1. lastPosition < ParseLongest \/ c # lastPosition
      BY <1>1, <1>10
    <3>2. last <= ParseLongest
      BY <1>1, <1>4, <2>1, <3>1, ParseSizes
    <3> QED
      BY <1>14, <1>22, <2>1, <3>2, ParseSizes
  <2>2. CASE last # c + 1
    <3>1. last = lastPosition /\ last \in c + 2..lastPosition
      BY <1>1, <1>4, <1>22, <2>2
    <3>2. table[last] = old[last]
      BY <1>1, <1>4, <1>5, <1>19, <3>1, ParseSizes
    <3> QED
      BY <1>1, <3>1, <3>2
  <2> QED
    BY <2>1, <2>2
<1>25. parsePosition + last <= End
  BY <1>1, <1>3, <1>4, <1>22 DEF PassStarts
<1>26. current \in 1..last
  BY <1>4, <1>22
<1>27. IsHalf(table, last)
  BY <1>18, <1>20, <1>21, <1>22, <1>23, <1>24, <1>25, <1>26, Zenon DEF IsHalf
<1> QED
  BY <1>27

\* Whatever the prices say of the literal.
LEMMA TriedIsHalf ==
  ASSUME PassStarts, ForwardInv, current <= lastPosition, NEW tried \in LiteralTried
  PROVE  IsHalf(tried[1], tried[2])
<1>1. \/ tried = <<WithLiteral(nodes), lastPosition>>
      \/ nodes[current].priced /\ tried = <<nodes, lastPosition>>
      \/ /\ nodes[current].literals = 0 /\ parsePosition + current < End
         /\ tried = <<WithOneLiteral(nodes, nodes[current]), Later(lastPosition, current + 1)>>
  BY Zenon DEF LiteralTried
<1>2. ASSUME tried = <<WithLiteral(nodes), lastPosition>> PROVE IsHalf(tried[1], tried[2])
  <2>1. tried[1] = WithLiteral(nodes) /\ tried[2] = lastPosition
    BY <1>2
  <2> QED
    BY <2>1, LiteralIsHalf, Zenon
<1>3. ASSUME nodes[current].priced, tried = <<nodes, lastPosition>> PROVE IsHalf(tried[1], tried[2])
  <2>1. tried[1] = nodes /\ tried[2] = lastPosition
    BY <1>3, Zenon
  <2> QED
    BY <1>3, <2>1, MatchStaysHalf, Zenon
<1>4. ASSUME nodes[current].literals = 0, parsePosition + current < End,
             tried = <<WithOneLiteral(nodes, nodes[current]), Later(lastPosition, current + 1)>>
      PROVE  IsHalf(tried[1], tried[2])
  <2>1. /\ tried[1] = WithOneLiteral(nodes, nodes[current])
        /\ tried[2] = Later(lastPosition, current + 1)
    BY <1>4
  <2> QED
    BY <1>4, <2>1, OneLiteralIsHalf, Zenon
<1> QED
  BY <1>1, <1>2, <1>3, <1>4, Zenon

\* Once its repeat offsets are there, the node at `current' is settled.
LEMMA HalfIsSettled ==
  ASSUME PassStarts, NEW half, NEW last, IsHalf(half, last)
  PROVE  PassIs(RepeatsSettled(half), last, current + 1) /\ current \in 1..last
<1> PICK c : c = current
  OBVIOUS
<1> PICK table : table = RepeatsSettled(half)
  OBVIOUS
<1>1. /\ half \in [0..NodeCount - 1 -> ParseNodes] /\ last \in Nat /\ c \in 1..last
      /\ last < ParseLongest \/ (last = ParseLongest /\ half[last].literals # 0)
      /\ parsePosition + last <= End
      /\ \A i \in 0..c - 1 : IsSettled(half, i)
      /\ IF half[c].literals = 0 THEN IsReached(half, half[c], c) ELSE IsSettled(half, c)
      /\ \A i \in c + 1..last : IsTried(half, i, c)
  BY Zenon DEF IsHalf
<1>2. NodeCount \in Nat /\ c \in Nat \ {0} /\ c \in 0..NodeCount - 1 /\ c \in 1..last
  BY <1>1, ParseSizes
<1>3. ASSUME half[c].literals # 0 PROVE PassIs(table, last, c + 1)
  <2>1. table = half
    BY <1>3, Zenon DEF RepeatsSettled
  <2>2. IsSettled(half, c)
    BY <1>1, <1>3
  <2>3. \A i \in 0..(c + 1) - 1 : IsSettled(half, i)
    BY <1>1, <1>2, <2>2
  <2>4. \A i \in c + 1..last : IsTried(half, i, c + 1)
    <3> TAKE i \in c + 1..last
    <3>1. i \in Nat /\ c \in Nat /\ IsTried(half, i, c)
      BY <1>1, <1>2
    <3> QED
      BY <3>1, TriedLater
  <2> QED
    BY <1>1, <2>1, <2>3, <2>4, Zenon DEF PassIs
<1>4. ASSUME half[c].literals = 0 PROVE PassIs(table, last, c + 1)
  <2>1. table = [half EXCEPT ![c].repeats = RepeatsOver(half, c, half[c])]
    BY <1>4, Zenon DEF RepeatsSettled
  <2>2. PICK held : held = RepeatsOver(half, c, half[c])
    OBVIOUS
  <2>3. PICK node : node = half[c]
    OBVIOUS
  <2>4. node \in ParseNodes /\ node.literals = 0 /\ IsReached(half, node, c) /\ c \in Int
    BY <1>1, <1>2, <1>4, <2>3
  <2>5. StretchBegin(node, c) \in 0..c - 1
    BY <2>4, BeginIsBefore
  <2>6. half[StretchBegin(node, c)].repeats \in Offsets
    <3>1. IsSettled(half, StretchBegin(node, c))
      BY <1>1, <2>5
    <3> QED
      BY <3>1 DEF IsSettled
  <2>7. held = HeldBehind(half, node, c) /\ held \in Offsets
    BY <2>2, <2>3, <2>4, <2>6, OverIsHeld
  <2>8. table = [half EXCEPT ![c] = [node EXCEPT !.repeats = held]]
    BY <1>1, <1>2, <2>1, <2>2, <2>3, Zenon
  <2>9. PICK changed : changed = [node EXCEPT !.repeats = held]
    OBVIOUS
  <2>10. changed \in ParseNodes
    <3>1. held \in [first : Int, second : Int, third : Int]
      BY <2>7 DEF Offsets, Triple
    <3> QED
      BY <2>4, <2>9, <3>1, Zenon DEF ParseNodes
  <2>11. /\ changed.match = node.match /\ changed.value = node.value
         /\ changed.literals = node.literals /\ changed.repeats = held
    BY <2>4, <2>9 DEF ParseNodes
  <2>12. table = [half EXCEPT ![c] = changed]
    BY <2>8, <2>9
  <2>13. table[c] = changed /\ \A i \in 0..NodeCount - 1 : i # c => table[i] = half[i]
    BY <1>1, <1>2, <2>12
  <2>14. table \in [0..NodeCount - 1 -> ParseNodes]
    BY <1>1, <2>10, <2>12, Zenon
  <2>15. StretchBegin(changed, c) = StretchBegin(node, c)
    BY <2>11, Zenon DEF StretchBegin
  <2>16. HeldBehind(table, changed, c) = HeldBehind(half, node, c)
    <3>1. table[StretchBegin(node, c)] = half[StretchBegin(node, c)]
      BY <1>2, <2>5, <2>13
    <3> QED
      BY <2>11, <2>15, <3>1, Zenon DEF HeldBehind
  <2>17. IsReached(table, changed, c)
    BY <2>4, <2>11, <2>15, <2>16, Zenon DEF IsReached
  <2>18. IsSettled(table, c)
    <3>1. changed.match # 0 /\ changed.literals \in Nat /\ changed.repeats \in Offsets
      BY <2>4, <2>7, <2>11 DEF IsReached
    <3>2. changed.repeats = HeldBehind(table, changed, c)
      BY <2>7, <2>11, <2>16
    <3> QED
      BY <2>13, <2>17, <3>1, <3>2, Zenon DEF IsSettled
  <2>19. \A j \in 0..c - 1 : table[j] = half[j]
    BY <1>2, <2>13
  <2>20. \A i \in 0..c - 1 : IsSettled(table, i)
    <3> TAKE i \in 0..c - 1
    <3>1. i \in Nat /\ IsSettled(half, i) /\ \A j \in 0..i : table[j] = half[j]
      BY <1>1, <1>2, <2>19
    <3> QED
      BY <3>1, SettledStays
  <2>21. \A i \in 0..(c + 1) - 1 : IsSettled(table, i)
    BY <1>2, <2>18, <2>20
  <2>22. \A i \in c + 1..last : IsTried(table, i, c + 1)
    <3> TAKE i \in c + 1..last
    <3>1. i \in Nat /\ i # c /\ c \in Nat /\ table[i] = half[i] /\ IsTried(half, i, c)
      BY <1>1, <1>2, <2>13, ParseSizes
    <3>2. IsTried(table, i, c)
      BY <2>19, <3>1, TriedStays
    <3> QED
      BY <3>1, <3>2, TriedLater
  <2>23. last < ParseLongest \/ (last = ParseLongest /\ table[last].literals # 0)
    <3>1. last \in 0..NodeCount - 1 /\ table[c].literals = half[c].literals
      BY <1>1, <2>3, <2>11, <2>13, ParseSizes
    <3> QED
      BY <1>1, <2>13, <3>1
  <2> QED
    BY <1>1, <2>14, <2>21, <2>22, <2>23, Zenon DEF PassIs
<1> QED
  BY <1>2, <1>3, <1>4

\* The same in the next state.
LEMMA SettledNext ==
  ASSUME NEW table, nodes' = table, NEW i,
         UNCHANGED <<parseText, parsePosition, parseAnchor, decoder>>, IsSettled(table, i)
  PROVE  IsSettled(nodes, i)'
  BY Zenon DEF IsSettled, IsReached, HeldBehind, StretchBegin, Copies, End

LEMMA TriedNext ==
  ASSUME NEW table, nodes' = table, NEW i, NEW n,
         UNCHANGED <<parseText, parsePosition>>, IsTried(table, i, n)
  PROVE  IsTried(nodes, i, n)'
  BY Zenon DEF IsTried, IsReached, HeldBehind, StretchBegin, Copies, End

LEMMA ReachedNext ==
  ASSUME NEW table, nodes' = table, NEW node, NEW i,
         UNCHANGED <<parseText, parsePosition>>, IsReached(table, node, i)
  PROVE  IsReached(nodes, node, i)' /\ HeldBehind(nodes, node, i)' = HeldBehind(table, node, i)
  BY Zenon DEF IsReached, HeldBehind, StretchBegin, Copies, End

LEMMA PassNext ==
  ASSUME NEW table, NEW last, NEW n, PassIs(table, last, n), n \in 1..last + 1,
         nodes' = table, lastPosition' = last, current' = n,
         UNCHANGED <<parseText, parsePosition, parseAnchor, decoder>>
  PROVE  ForwardInv'
<1>1. /\ table \in [0..NodeCount - 1 -> ParseNodes] /\ last \in Nat
      /\ last < ParseLongest \/ (last = ParseLongest /\ table[last].literals # 0)
      /\ parsePosition + last <= End
      /\ \A i \in 0..n - 1 : IsSettled(table, i)
      /\ \A i \in n..last : IsTried(table, i, n)
  BY Zenon DEF PassIs
<1>2. \A i \in 0..n - 1 : IsSettled(nodes, i)'
  BY <1>1, SettledNext
<1>3. \A i \in n..last : IsTried(nodes, i, n)'
  BY <1>1, TriedNext
<1>4. (parsePosition + lastPosition <= End)'
  BY <1>1 DEF End
<1> QED
  BY <1>1, <1>2, <1>3, <1>4 DEF ForwardInv, PassIs

\* A candidate at a settled node reaches the node that its match ends at.
LEMMA MatchReaches ==
  ASSUME PassStarts, NEW table, NEW node, NEW p \in Nat, NEW m \in Nat \ {0}, NEW i, i = p + m,
         node.match = m, node.literals = 0, node.value \in Nat \ {0},
         Copies(parsePosition + p, m,
                GetOffset(table[p].repeats, node.value, table[p].literals = 0).first)
  PROVE  IsReached(table, node, i) /\ StretchBegin(node, i) = p
<1>1. StretchBegin(node, i) = p
  BY DEF StretchBegin
<1>2. HeldBehind(table, node, i)
        = GetOffset(table[p].repeats, node.value, table[p].literals = 0)
  BY <1>1, Zenon DEF HeldBehind
<1>3. node.match \in Nat \ {0} /\ node.literals \in Nat /\ StretchBegin(node, i) >= 0
  BY <1>1
<1> QED
  BY <1>1, <1>2, <1>3, Zenon DEF IsReached

LEMMA LongestIs ==
  ASSUME PassStarts, NEW here \in 0..End, NEW offsets, NEW none,
         NEW answer, AreMatches(answer, here, offsets, none)
  PROVE  /\ Longest(answer) \in ParseMinMatch..End - here /\ Longest(answer) \in Nat \ {0}
         /\ answer[Len(answer)].value \in Nat \ {0}
         /\ Copies(here, Longest(answer), GetOffset(offsets, answer[Len(answer)].value, none).first)
<1>1. Len(answer) \in 1..Len(answer)
  BY DEF AreMatches
<1>2. /\ answer[Len(answer)].value \in Nat \ {0}
      /\ answer[Len(answer)].length \in ParseMinMatch..End - here
      /\ Copies(here, answer[Len(answer)].length,
                GetOffset(offsets, answer[Len(answer)].value, none).first)
  BY <1>1 DEF AreMatches
<1>3. Longest(answer) = answer[Len(answer)].length
  BY DEF Longest
<1> HIDE DEF Longest
<1>4. Longest(answer) \in Nat \ {0}
  BY <1>2, <1>3, ParseSizes DEF PassStarts
<1> QED
  BY <1>2, <1>3, <1>4

LEMMA NodePriced ==
  ASSUME NEW priced, NEW match, NEW value, NEW literals, NEW offsets,
         NEW node, node = Node(priced, match, value, literals, offsets)
  PROVE  node.priced = priced
  BY Zenon DEF Node

\* What an earlier pass left has its type and nothing else.
LEMMA StaleIs ==
  /\ StaleNode \in ParseNodes /\ StaleNode.match = 0 - 1 /\ StaleNode.literals = 0 - 1
  /\ StaleNode.repeats \in [first : Int, second : Int, third : Int]
  /\ StaleNodes \in [0..NodeCount - 1 -> ParseNodes]
<1>1. TRUE \in BOOLEAN /\ 0 \in Int /\ 0 - 1 \in Int
      /\ [first |-> 0, second |-> 0, third |-> 0] \in [first : Int, second : Int, third : Int]
  OBVIOUS
<1>2. PICK none : none = [first |-> 0, second |-> 0, third |-> 0]
  OBVIOUS
<1>3. PICK node : node = StaleNode
  OBVIOUS
<1>4. PICK minus \in Int : minus = 0 - 1
  OBVIOUS
<1>5. /\ node \in ParseNodes /\ node.match = minus /\ node.value = 0
      /\ node.literals = minus /\ node.repeats = none
  <2>1. node = Node(TRUE, minus, 0, minus, none)
    BY <1>2, <1>3, <1>4, Zenon DEF StaleNode
  <2>2. /\ node.match = minus /\ node.value = 0 /\ node.literals = minus /\ node.repeats = none
    BY <2>1 DEF Node
  <2>3. none \in [first : Int, second : Int, third : Int]
    BY <1>1, <1>2
  <2>4. node \in ParseNodes
    BY <1>1, <2>1, <2>3, Zenon DEF Node, ParseNodes
  <2> QED
    BY <2>2, <2>4
<1>6. none \in [first : Int, second : Int, third : Int]
  BY <1>1, <1>2
<1>7. StaleNodes \in [0..NodeCount - 1 -> ParseNodes]
  BY <1>3, <1>5, Zenon DEF StaleNodes
<1> QED
  BY <1>3, <1>4, <1>5, <1>6, <1>7

\* A node whose match no path reaches yet is not taken for one.
LEMMA UnpricedIsTried ==
  ASSUME NEW table, NEW i, NEW n, table[i].priced = FALSE, table[i].literals # 0
  PROVE  IsTried(table, i, n)
  BY Zenon DEF IsTried

LEMMA ReachedIsTried ==
  ASSUME NEW table, NEW i, NEW n, table[i].priced = TRUE, table[i].literals = 0,
         IsReached(table, table[i], i), StretchBegin(table[i], i) < n
  PROVE  IsTried(table, i, n)
  BY Zenon DEF IsTried

\* The table that a pass starts with.
LEMMA FirstNodesArePass ==
  ASSUME PassStarts, NEW answer, NEW literals, literals = parsePosition - parseAnchor,
         AreMatches(answer, parsePosition, parseRepeats, literals = 0),
         Longest(answer) <= ParseSufficient
  PROVE  PassIs(FirstNodes(answer, literals), Longest(answer), 1) /\ Longest(answer) \in Nat \ {0}
<1> PICK table : table = FirstNodes(answer, literals)
  OBVIOUS
<1> PICK last : last = Longest(answer)
  OBVIOUS
<1>1. /\ last \in ParseMinMatch..End - parsePosition /\ last \in Nat \ {0}
  <2>1. parsePosition \in 0..End
    BY DEF PassStarts
  <2> QED
    BY <2>1, LongestIs
<1>2. /\ literals \in Nat /\ parseRepeats \in [first : Int, second : Int, third : Int]
      /\ NodeCount \in Nat /\ last + 1 < NodeCount /\ last < ParseLongest
      /\ parsePosition + last <= End
  BY <1>1, ParseSizes DEF PassStarts, Offsets, Triple
<1>3. /\ DOMAIN table = 0..NodeCount - 1
      /\ \A i \in 0..NodeCount - 1 : table[i] =
           IF i = 0 THEN Node(TRUE, 0, 0, literals, parseRepeats)
           ELSE IF i < ParseMinMatch THEN [StaleNode EXCEPT !.priced = FALSE, !.match = 0, !.literals = literals + i]
           ELSE IF i <= last
           THEN Node(TRUE, i, CandidateFor(answer, i).value, 0, StaleNode.repeats)
           ELSE IF i = last + 1 THEN [StaleNode EXCEPT !.priced = FALSE]
           ELSE StaleNode
      /\ table = [i \in 0..NodeCount - 1 |-> table[i]]
  BY Zenon DEF FirstNodes
<1>4. /\ table[0] \in ParseNodes /\ table[0].match = 0 /\ table[0].literals = literals
      /\ table[0].repeats = parseRepeats
  <2>1. 0 \in 0..NodeCount - 1 /\ 0 \in Int /\ literals \in Int
    BY <1>1, <1>2
  <2>2. PICK node : node = table[0]
    OBVIOUS
  <2>3. node = Node(TRUE, 0, 0, literals, parseRepeats)
    BY <1>3, <2>1, <2>2, Zenon
  <2>4. /\ node.match = 0 /\ node.literals = literals /\ node.repeats = parseRepeats
    BY <2>3 DEF Node
  <2>5. node \in ParseNodes
    BY <1>2, <2>1, <2>3, Zenon DEF Node, ParseNodes
  <2> QED
    BY <2>2, <2>4, <2>5
<1>5. ASSUME NEW i \in 1..ParseMinMatch - 1
      PROVE  table[i] \in ParseNodes /\ table[i].priced = FALSE /\ table[i].literals # 0
  <2>1. i \in 0..NodeCount - 1 /\ i # 0 /\ i < ParseMinMatch /\ literals + i \in Int /\ literals + i # 0
        /\ 0 \in Int
    BY <1>1, <1>2, ParseSizes
  <2>2. PICK node : node = table[i]
    OBVIOUS
  <2>3. PICK sum : sum = literals + i
    OBVIOUS
  <2>4. PICK stale : stale = StaleNode
    OBVIOUS
  <2>5. node = [stale EXCEPT !.priced = FALSE, !.match = 0, !.literals = sum]
    BY <1>3, <2>1, <2>2, <2>3, <2>4, Zenon
  <2>6. stale \in ParseNodes
    BY <2>4, StaleIs
  <2>7. node \in ParseNodes
    BY <2>1, <2>3, <2>5, <2>6, Zenon DEF ParseNodes
  <2>8. node.literals = sum
    BY <2>5, <2>6 DEF ParseNodes
  <2>9. node.priced = FALSE
    BY <2>5, <2>6, Zenon DEF ParseNodes
  <2> QED
    BY <2>1, <2>2, <2>3, <2>7, <2>8, <2>9
<1>6. ASSUME NEW i \in ParseMinMatch..last
      PROVE  /\ table[i] \in ParseNodes /\ table[i].priced = TRUE /\ table[i].literals = 0
             /\ IsReached(table, table[i], i) /\ StretchBegin(table[i], i) < 1
  <2>1. i \in 0..NodeCount - 1 /\ i # 0 /\ ~(i < ParseMinMatch) /\ i <= last /\ 0 \in Int
        /\ i \in Nat \ {0} /\ i \in Int /\ parsePosition \in 0..End
    BY <1>1, <1>2, ParseSizes DEF PassStarts
  <2>2. PICK value : value = CandidateFor(answer, i).value
    OBVIOUS
  <2>3. value \in Nat \ {0}
        /\ Copies(parsePosition, i, GetOffset(parseRepeats, value, literals = 0).first)
    <3>1. End \in Nat /\ i \in ParseMinMatch..Longest(answer)
      BY DEF PassStarts
    <3> QED
      BY <2>1, <2>2, <3>1, CandidateForIs
  <2>4. PICK node : node = table[i]
    OBVIOUS
  <2>5. PICK none : none = StaleNode.repeats
    OBVIOUS
  <2>6. none \in [first : Int, second : Int, third : Int] /\ value \in Int
    BY <2>3, <2>5, StaleIs
  <2>7. node = Node(TRUE, i, value, 0, none)
    BY <1>3, <2>1, <2>2, <2>4, <2>5, Zenon
  <2>8. node.match = i /\ node.value = value /\ node.literals = 0
    BY <2>7 DEF Node
  <2>9. node \in ParseNodes
    BY <2>1, <2>6, <2>7, Zenon DEF Node, ParseNodes
  <2>10. node.priced = TRUE
    BY <2>7, NodePriced
  <2>11. IsReached(table, node, i) /\ StretchBegin(node, i) = 0
    <3>1. 0 \in Nat /\ i = 0 + i /\ parsePosition + 0 = parsePosition
      BY <2>1 DEF PassStarts
    <3>2. Copies(parsePosition + 0, i,
                 GetOffset(table[0].repeats, value, table[0].literals = 0).first)
      BY <1>4, <2>3, <3>1
    <3> QED
      BY <2>1, <2>3, <2>8, <3>1, <3>2, MatchReaches
  <2> QED
    BY <2>4, <2>8, <2>9, <2>10, <2>11
<1>7. ASSUME NEW i \in last + 1..NodeCount - 1 PROVE table[i] \in ParseNodes
  <2>1. i \in 0..NodeCount - 1 /\ i # 0 /\ ~(i < ParseMinMatch) /\ ~(i <= last)
    BY <1>1, <1>2, ParseSizes
  <2>2. StaleNode \in ParseNodes /\ [StaleNode EXCEPT !.priced = FALSE] \in ParseNodes
    BY StaleIs, Zenon DEF ParseNodes
  <2> QED
    BY <1>3, <2>1, <2>2, Zenon
<1>8. \A i \in 0..NodeCount - 1 : table[i] \in ParseNodes
  <2> TAKE i \in 0..NodeCount - 1
  <2>1. i = 0 \/ i \in 1..ParseMinMatch - 1 \/ i \in ParseMinMatch..last \/ i \in last + 1..NodeCount - 1
    BY <1>1, <1>2, ParseSizes
  <2> QED
    BY <1>4, <1>5, <1>6, <1>7, <2>1
<1>9. table \in [0..NodeCount - 1 -> ParseNodes]
  BY <1>3, <1>8, Zenon
<1>10. IsSettled(table, 0)
  <2>1. table[0].literals = 0 + (parsePosition - parseAnchor) /\ table[0].literals \in Nat
        /\ table[0].repeats \in Offsets /\ table[0].repeats = decoder
    BY <1>2, <1>4 DEF PassStarts
  <2> QED
    BY <1>4, <2>1, Zenon DEF IsSettled
<1>11. \A i \in 0..1 - 1 : IsSettled(table, i)
  BY <1>10
<1>12. \A i \in 1..last : IsTried(table, i, 1)
  <2> TAKE i \in 1..last
  <2>1. i \in 1..ParseMinMatch - 1 \/ i \in ParseMinMatch..last
    BY <1>1, <1>2, ParseSizes
  <2> QED
    BY <1>5, <1>6, <2>1, UnpricedIsTried, ReachedIsTried
<1>13. PassIs(table, last, 1)
  <2>1. last \in Nat
    BY <1>1
  <2> QED
    BY <1>2, <1>9, <1>11, <1>12, <2>1, Zenon DEF PassIs
<1> QED
  BY <1>1, <1>13

\* Matches from `current' on leave the pass a table in order.
LEMMA ReachedIsPass ==
  ASSUME PassStarts, NEW table, NEW last, PassIs(table, last, current + 1), current \in 1..last,
         NEW answer, NEW better, parsePosition + current \in 0..End,
         AreMatches(answer, parsePosition + current, table[current].repeats,
                    table[current].literals = 0),
         ~EndsPass(answer)
  PROVE  /\ PassIs(Reached(table, last, answer, better), Later(last, current + Longest(answer)),
                   current + 1)
         /\ current \in 1..Later(last, current + Longest(answer))
<1> PICK c : c = current
  OBVIOUS
<1> PICK far : far = c + Longest(answer)
  OBVIOUS
<1> PICK end : end = Later(last, far)
  OBVIOUS
<1> PICK after : after = Reached(table, last, answer, better)
  OBVIOUS
<1>1. /\ table \in [0..NodeCount - 1 -> ParseNodes] /\ last \in Nat
      /\ last < ParseLongest \/ (last = ParseLongest /\ table[last].literals # 0)
      /\ parsePosition + last <= End
      /\ \A i \in 0..(c + 1) - 1 : IsSettled(table, i)
      /\ \A i \in c + 1..last : IsTried(table, i, c + 1)
  BY Zenon DEF PassIs
<1>2. /\ c \in 1..last /\ c \in Nat \ {0}
      /\ far - c \in ParseMinMatch..End - (parsePosition + c)
      /\ far < ParseLongest /\ far \in Nat /\ far - c = Longest(answer)
  <2>1. Longest(answer) \in ParseMinMatch..End - (parsePosition + c) /\ Longest(answer) \in Nat \ {0}
    BY LongestIs
  <2>2. ~(current + Longest(answer) >= ParseLongest)
    BY Zenon DEF EndsPass
  <2> QED
    BY <1>1, <2>1, <2>2, ParseSizes
<1>3. /\ end \in Nat /\ end >= last /\ end >= far /\ end \in {last, far}
      /\ NodeCount \in Nat /\ end + 1 \in 0..NodeCount - 1 /\ end <= ParseLongest
  BY <1>1, <1>2, ParseSizes DEF Later
<1>4. /\ DOMAIN after = 0..NodeCount - 1
      /\ after = [i \in 0..NodeCount - 1 |-> after[i]]
      /\ \A i \in 0..NodeCount - 1 : after[i] =
           IF i \in c + ParseMinMatch..far /\ (i > last \/ ~table[i].priced \/ i \in better)
           THEN Node(TRUE, i - c, CandidateFor(answer, i - c).value, 0, table[i].repeats)
           ELSE IF i \in last + 1..end THEN [table[i] EXCEPT !.priced = FALSE, !.literals = 1]
           ELSE IF i = end + 1 THEN [table[i] EXCEPT !.priced = FALSE]
           ELSE table[i]
  BY Zenon DEF Reached
<1>5. \A i \in 0..c : i \in 0..NodeCount - 1 /\ after[i] = table[i]
  <2> TAKE i \in 0..c
  <2>1. i \in Nat /\ c \in Nat /\ i <= c /\ c <= last /\ last \in Nat /\ c <= end
    BY <1>1, <1>2, <1>3
  <2>2. i \in 0..NodeCount - 1 /\ ~(i \in last + 1..end) /\ i # end + 1
    BY <1>3, <2>1
  <2>3. ~(i \in c + ParseMinMatch..far)
    BY <2>1, ParseSizes
  <2> QED
    BY <1>4, <2>2, <2>3, Zenon
<1>6. ASSUME NEW i \in c + ParseMinMatch..far,
             after[i] = Node(TRUE, i - c, CandidateFor(answer, i - c).value, 0, table[i].repeats)
      PROVE  after[i] \in ParseNodes /\ IsTried(after, i, c + 1)
  <2>1. PICK m : m = i - c
    OBVIOUS
  <2>2. /\ m \in ParseMinMatch..Longest(answer) /\ m \in Nat \ {0} /\ i = c + m /\ m \in Int
        /\ c \in Nat /\ 0 \in Int /\ i \in 0..NodeCount - 1
    BY <1>2, <1>3, <2>1, ParseSizes
  <2>3. PICK value : value = CandidateFor(answer, m).value
    OBVIOUS
  <2>4. /\ value \in Nat \ {0}
        /\ Copies(parsePosition + c, m,
                  GetOffset(table[c].repeats, value, table[c].literals = 0).first)
    <3>1. End \in Nat
      BY DEF PassStarts
    <3> QED
      BY <2>2, <2>3, <3>1, CandidateForIs
  <2>5. PICK node : node = after[i]
    OBVIOUS
  <2>6. PICK none : none = table[i].repeats
    OBVIOUS
  <2>7. none \in [first : Int, second : Int, third : Int] /\ value \in Int
    BY <1>1, <2>2, <2>4, <2>6, NodeParts
  <2>8. node = Node(TRUE, m, value, 0, none)
    BY <1>6, <2>1, <2>3, <2>5, <2>6, Zenon
  <2>9. node.match = m /\ node.value = value /\ node.literals = 0
    BY <2>8 DEF Node
  <2>10. node \in ParseNodes
    BY <2>2, <2>7, <2>8, Zenon DEF Node, ParseNodes
  <2>11. node.priced = TRUE
    BY <2>8, NodePriced
  <2>12. after[c] = table[c]
    BY <1>2, <1>5
  <2>13. Copies(parsePosition + c, m,
                GetOffset(after[c].repeats, value, after[c].literals = 0).first)
    BY <2>4, <2>12, Zenon
  <2>14. IsReached(after, node, i) /\ StretchBegin(node, i) = c
    <3>1. c \in Nat /\ m \in Nat \ {0} /\ i = c + m
      BY <2>2
    <3>2. node.match = m /\ node.literals = 0 /\ node.value \in Nat \ {0}
          /\ Copies(parsePosition + c, m,
                    GetOffset(after[c].repeats, node.value, after[c].literals = 0).first)
      BY <2>4, <2>9, <2>13
    <3> QED
      BY <3>1, <3>2, MatchReaches
  <2>15. StretchBegin(node, i) < c + 1
    BY <2>2, <2>14
  <2> QED
    BY <2>5, <2>9, <2>10, <2>11, <2>14, <2>15, ReachedIsTried
<1>7. ASSUME NEW i \in 0..NodeCount - 1, after[i] = [table[i] EXCEPT !.priced = FALSE, !.literals = 1]
      PROVE  after[i] \in ParseNodes /\ IsTried(after, i, c + 1)
  <2>1. PICK node : node = after[i]
    OBVIOUS
  <2>2. PICK old : old = table[i]
    OBVIOUS
  <2>3. old \in ParseNodes /\ 1 \in Int
    BY <1>1, <2>2
  <2>4. node = [old EXCEPT !.priced = FALSE, !.literals = 1]
    BY <1>7, <2>1, <2>2
  <2>5. node \in ParseNodes
    BY <2>3, <2>4, Zenon DEF ParseNodes
  <2>6. node.literals = 1
    BY <2>3, <2>4 DEF ParseNodes
  <2>7. node.priced = FALSE
    BY <2>3, <2>4, Zenon DEF ParseNodes
  <2> QED
    <3>1. after[i].priced = FALSE
      BY <2>1, <2>7, Zenon
    <3>2. after[i].literals # 0 /\ after[i] \in ParseNodes
      BY <2>1, <2>5, <2>6
    <3> QED
      BY <3>1, <3>2, UnpricedIsTried, Zenon
<1>8. ASSUME NEW i \in 0..NodeCount - 1, after[i] = [table[i] EXCEPT !.priced = FALSE]
      PROVE  after[i] \in ParseNodes
  <2>1. table[i] \in ParseNodes
    BY <1>1
  <2> QED
    BY <1>8, <2>1, Zenon DEF ParseNodes
<1>9. \A i \in 0..NodeCount - 1 : after[i] \in ParseNodes
  <2> TAKE i \in 0..NodeCount - 1
  <2>1. \/ i \in c + ParseMinMatch..far
           /\ after[i] = Node(TRUE, i - c, CandidateFor(answer, i - c).value, 0, table[i].repeats)
        \/ after[i] = [table[i] EXCEPT !.priced = FALSE, !.literals = 1]
        \/ after[i] = [table[i] EXCEPT !.priced = FALSE]
        \/ after[i] = table[i]
    BY <1>4, Zenon
  <2>2. table[i] \in ParseNodes
    BY <1>1
  <2> QED
    BY <1>6, <1>7, <1>8, <2>1, <2>2, Zenon
<1>10. after \in [0..NodeCount - 1 -> ParseNodes]
  BY <1>4, <1>9, Zenon
<1>11. \A i \in 0..(c + 1) - 1 : IsSettled(after, i)
  <2> TAKE i \in 0..(c + 1) - 1
  <2>1. i \in Nat /\ IsSettled(table, i) /\ \A j \in 0..i : after[j] = table[j]
    BY <1>1, <1>2, <1>5
  <2> QED
    BY <2>1, SettledStays
<1>12. \A i \in c + 1..end : IsTried(after, i, c + 1)
  <2> TAKE i \in c + 1..end
  <2>1. i \in 0..NodeCount - 1 /\ i \in Nat /\ c + 1 \in Nat /\ i # end + 1
        /\ (i \in last + 1..end \/ i \in c + 1..last)
    BY <1>1, <1>2, <1>3
  <2>2. CASE i \in c + ParseMinMatch..far
             /\ after[i] = Node(TRUE, i - c, CandidateFor(answer, i - c).value, 0, table[i].repeats)
    BY <1>6, <2>2
  <2>3. CASE after[i] = [table[i] EXCEPT !.priced = FALSE, !.literals = 1]
    BY <1>7, <2>1, <2>3
  <2>4. CASE ~(i \in last + 1..end) /\ after[i] = table[i]
    <3>1. IsTried(table, i, c + 1) /\ \A j \in 0..(c + 1) - 1 : after[j] = table[j]
      BY <1>1, <1>2, <1>5, <2>1, <2>4
    <3> QED
      BY <2>1, <2>4, <3>1, TriedStays
  <2>5. \/ i \in c + ParseMinMatch..far
           /\ after[i] = Node(TRUE, i - c, CandidateFor(answer, i - c).value, 0, table[i].repeats)
        \/ after[i] = [table[i] EXCEPT !.priced = FALSE, !.literals = 1]
        \/ ~(i \in last + 1..end) /\ after[i] = table[i]
    BY <1>4, <2>1, Zenon
  <2> QED
    BY <2>2, <2>3, <2>4, <2>5
<1>13. end < ParseLongest \/ (end = ParseLongest /\ after[end].literals # 0)
  <2>1. CASE end < ParseLongest
    BY <2>1
  <2>2. CASE ~(end < ParseLongest)
    <3>1. /\ end = last /\ end = ParseLongest /\ last = ParseLongest /\ table[last].literals # 0
          /\ ~(last \in c + ParseMinMatch..far) /\ ~(last \in last + 1..end) /\ last # end + 1
          /\ last \in 0..NodeCount - 1
      BY <1>1, <1>2, <1>3, <2>2, ParseSizes
    <3>2. after[last] = table[last]
      BY <1>4, <3>1, Zenon
    <3> QED
      BY <3>1, <3>2
  <2> QED
    BY <2>1, <2>2
<1>14. parsePosition + end <= End
  <2>1. parsePosition + far <= End
    BY <1>2 DEF PassStarts
  <2> QED
    BY <1>1, <1>3, <2>1
<1>15. PassIs(after, end, c + 1)
  BY <1>3, <1>10, <1>11, <1>12, <1>13, <1>14, Zenon DEF PassIs
<1>16. c \in 1..end
  BY <1>2, <1>3
<1> QED
  BY <1>15, <1>16

LEMMA ParseInitially == ASSUME ParseInit PROVE ParseInv
<1>1. parseText \in ParseTexts /\ Len(parseText) \in Nat \ {0} /\ ParseStart <= Len(parseText)
      /\ ParseStart \in Nat
  BY ParseAssumption DEF ParseInit
<1>2. /\ End \in Nat \ {0} /\ parsePosition \in Nat /\ parseAnchor \in Nat
      /\ parseAnchor <= parsePosition /\ parsePosition <= End
  BY <1>1 DEF ParseInit, End
<1>3. NewOffsets \in Offsets
  BY DEF NewOffsets, Offsets, Triple, NonZero
<1>4. decoder \in Offsets /\ parseRepeats \in Offsets /\ parseRepeats = decoder
  BY <1>3 DEF ParseInit
<1>5. /\ nodes \in [0..NodeCount - 1 -> ParseNodes] /\ lastStretch \in ParseNodes
  BY StaleIs DEF ParseInit
<1>6. /\ current \in Nat /\ lastPosition \in Nat /\ storeStart \in Nat /\ stretchAt \in Nat
      /\ parsePhase = "parse" /\ faithful = TRUE
  BY DEF ParseInit
<1>7. ParseTypeOK
  BY <1>1, <1>2, <1>4, <1>5, <1>6, Zenon DEF ParseTypeOK
<1>8. PassStarts
  BY <1>2, <1>4 DEF PassStarts
<1> QED
  BY <1>2, <1>6, <1>7, <1>8 DEF ParseInv

\* What a step that goes on with a pass leaves alone.
LEMMA StartsNext ==
  ASSUME PassStarts, UNCHANGED <<parseText, parsePosition, parseAnchor, parseRepeats, decoder>>
  PROVE  PassStarts' /\ (parsePosition <= End)'
  BY DEF PassStarts, End

\* The way back can begin at a stretch that ends the pass.
LEMMA StoreNext ==
  ASSUME NEW table, NEW stretch \in ParseNodes, NEW last \in Nat, NEW c \in Nat,
         parsePosition + last <= End,
         stretch.match # 0 =>
           /\ IsReached(table, stretch, last) /\ c = last - stretch.match /\ c <= ParseLongest
           /\ \A i \in 0..StretchBegin(stretch, last) : IsSettled(table, i)
           /\ stretch.literals # 0 =>
                stretch.repeats \in Offsets /\ stretch.repeats = HeldBehind(table, stretch, last),
         nodes' = table, lastStretch' = stretch, lastPosition' = last, current' = c,
         UNCHANGED <<parseText, parsePosition, parseAnchor, decoder>>
  PROVE  StoreInv'
<1>1. (parsePosition + lastPosition <= End)'
  BY DEF End
<1>2. ASSUME stretch.match # 0
      PROVE  /\ IsReached(nodes, stretch, last)' /\ c = last - stretch.match /\ c <= ParseLongest
             /\ \A i \in 0..PathEnd' : IsSettled(nodes, i)'
             /\ stretch.literals # 0 =>
                  stretch.repeats \in Offsets /\ stretch.repeats = HeldBehind(nodes, stretch, last)'
  <2>1. /\ IsReached(table, stretch, last) /\ c = last - stretch.match /\ c <= ParseLongest
        /\ \A i \in 0..StretchBegin(stretch, last) : IsSettled(table, i)
        /\ stretch.literals # 0 =>
             stretch.repeats \in Offsets /\ stretch.repeats = HeldBehind(table, stretch, last)
    BY <1>2
  <2>2. /\ IsReached(nodes, stretch, last)'
        /\ HeldBehind(nodes, stretch, last)' = HeldBehind(table, stretch, last)
    BY <2>1, ReachedNext
  <2>3. PathEnd' = StretchBegin(stretch, last)
    <3>1. stretch.match \in Int /\ stretch.literals \in Int
      BY NodeParts
    <3>2. PathEnd' = c - stretch.literals
      BY DEF PathEnd
    <3> QED
      BY <2>1, <3>1, <3>2 DEF StretchBegin
  <2>4. \A i \in 0..PathEnd' : IsSettled(nodes, i)'
    BY <2>1, <2>3, SettledNext
  <2> QED
    BY <2>1, <2>2, <2>4
<1>3. lastStretch' = stretch /\ lastPosition' = last /\ current' = c
  OBVIOUS
<1> QED
  BY <1>1, <1>2, <1>3 DEF StoreInv

\* Each action keeps the invariant.
LEMMA BeginPassKeeps == ASSUME ParseInv, BeginPass PROVE ParseInv'
<1> PICK literals : literals = parsePosition - parseAnchor
  OBVIOUS
<1> PICK alone : alone = (literals = 0)
  OBVIOUS
<1>1. PICK answer \in Answers(parsePosition, parseRepeats, alone) :
        \/ /\ answer = <<>>
           /\ parsePosition' = parsePosition + 1
           /\ UNCHANGED <<nodes, current, lastPosition, lastStretch, parsePhase>>
        \/ /\ answer # <<>> /\ Longest(answer) > ParseSufficient
           /\ nodes' = [nodes EXCEPT ![0] = Node(TRUE, 0, 0, literals, parseRepeats)]
           /\ lastStretch' = Node(TRUE, Longest(answer), answer[Len(answer)].value, 0, StaleNode.repeats)
           /\ current' = 0 /\ lastPosition' = Longest(answer)
           /\ parsePhase' = "store"
           /\ UNCHANGED parsePosition
        \/ /\ answer # <<>> /\ ~(Longest(answer) > ParseSufficient)
           /\ nodes' = FirstNodes(answer, literals)
           /\ current' = 1 /\ lastPosition' = Longest(answer)
           /\ parsePhase' = "forward"
           /\ UNCHANGED <<parsePosition, lastStretch>>
  BY Zenon DEF BeginPass
<1>2. /\ parsePhase = "parse" /\ parsePosition < InputLimit
      /\ UNCHANGED <<parseText, parseAnchor, parseRepeats, storeStart, stretchAt, decoder, faithful>>
  BY DEF BeginPass
<1>3. ParseTypeOK /\ PassStarts
  BY <1>2 DEF ParseInv
<1>4. parsePosition < End /\ literals \in Nat /\ parsePosition \in 0..End
  BY <1>2, <1>3, ParseSizes DEF InputLimit, PassStarts
<1>5. ASSUME answer = <<>>, parsePosition' = parsePosition + 1,
             UNCHANGED <<nodes, current, lastPosition, lastStretch, parsePhase>>
      PROVE  ParseInv'
  <2>1. PassStarts' /\ (parsePosition <= End)'
    BY <1>2, <1>3, <1>4, <1>5 DEF PassStarts, End
  <2>2. ParseTypeOK'
    BY <1>2, <1>3, <1>5, <2>1 DEF ParseTypeOK, PassStarts
  <2> QED
    BY <1>2, <1>5, <2>1, <2>2 DEF ParseInv
<1>6. ASSUME answer # <<>>
      PROVE  AreMatches(answer, parsePosition, parseRepeats, alone)
  <2>1. End \in Nat /\ parseRepeats \in Offsets /\ alone \in BOOLEAN
    BY <1>3 DEF PassStarts
  <2> QED
    BY <1>1, <1>4, <1>6, <2>1, AnswerIs
<1>7. ASSUME answer # <<>>, Longest(answer) > ParseSufficient,
             nodes' = [nodes EXCEPT ![0] = Node(TRUE, 0, 0, literals, parseRepeats)],
             lastStretch' = Node(TRUE, Longest(answer), answer[Len(answer)].value, 0, StaleNode.repeats),
             current' = 0, lastPosition' = Longest(answer), parsePhase' = "store",
             UNCHANGED parsePosition
      PROVE  ParseInv'
  <2> PICK table : table = nodes'
    OBVIOUS
  <2> PICK stretch : stretch = lastStretch'
    OBVIOUS
  <2> PICK last : last = Longest(answer)
    OBVIOUS
  <2> PICK value : value = answer[Len(answer)].value
    OBVIOUS
  <2> PICK none : none = StaleNode.repeats
    OBVIOUS
  <2> PICK first : first = Node(TRUE, 0, 0, literals, parseRepeats)
    OBVIOUS
  <2>1. /\ last \in ParseMinMatch..End - parsePosition /\ last \in Nat \ {0} /\ value \in Nat \ {0}
        /\ Copies(parsePosition, last, GetOffset(parseRepeats, value, alone).first)
    BY <1>3, <1>4, <1>6, <1>7, LongestIs
  <2>2. /\ none \in [first : Int, second : Int, third : Int]
        /\ parseRepeats \in [first : Int, second : Int, third : Int]
        /\ value \in Int /\ last \in Int /\ literals \in Int /\ 0 \in Int
    BY <1>3, <1>4, <2>1, StaleIs DEF PassStarts, Offsets, Triple
  <2>3. /\ first.match = 0 /\ first.literals = literals /\ first.repeats = parseRepeats
    BY DEF Node
  <2>4. first \in ParseNodes
    BY <2>2, Zenon DEF Node, ParseNodes
  <2>5. stretch.match = last /\ stretch.value = value /\ stretch.literals = 0
    BY <1>7 DEF Node
  <2>6. stretch \in ParseNodes
    BY <1>7, <2>2, Zenon DEF Node, ParseNodes
  <2>7. nodes \in [0..NodeCount - 1 -> ParseNodes] /\ 0 \in 0..NodeCount - 1
    BY <1>3, ParseSizes DEF ParseTypeOK
  <2>8. table = [nodes EXCEPT ![0] = first] /\ table[0] = first
        /\ table \in [0..NodeCount - 1 -> ParseNodes]
    BY <1>7, <2>4, <2>7, Zenon
  <2>9. IsSettled(table, 0)
    <3>1. /\ table[0].literals \in Nat /\ table[0].repeats \in Offsets /\ table[0].match = 0
          /\ table[0].literals = 0 + (parsePosition - parseAnchor) /\ table[0].repeats = decoder
      <4>1. table[0].literals = literals /\ table[0].match = 0 /\ table[0].repeats = parseRepeats
        BY <2>3, <2>8, Zenon
      <4>2. literals = 0 + (parsePosition - parseAnchor) /\ literals \in Nat
        BY <1>3, <1>4 DEF PassStarts
      <4>3. parseRepeats \in Offsets /\ parseRepeats = decoder
        BY <1>3 DEF PassStarts
      <4> QED
        BY <4>1, <4>2, <4>3, Zenon
    <3> QED
      BY <3>1, Zenon DEF IsSettled
  <2>10. IsReached(table, stretch, last) /\ StretchBegin(stretch, last) = 0
    <3>1. 0 \in Nat /\ last = 0 + last /\ last \in Nat \ {0} /\ stretch.value \in Nat \ {0}
      BY <2>1, <2>5
    <3>2. Copies(parsePosition + 0, last,
                 GetOffset(table[0].repeats, stretch.value, table[0].literals = 0).first)
      <4>1. parsePosition + 0 = parsePosition
        BY <1>3 DEF PassStarts
      <4> QED
        BY <2>1, <2>3, <2>5, <2>8, <4>1, Zenon
    <3>3. StretchBegin(stretch, last) = 0
      BY <2>1, <2>5 DEF StretchBegin
    <3>4. HeldBehind(table, stretch, last)
            = GetOffset(table[0].repeats, stretch.value, table[0].literals = 0)
      BY <3>3, Zenon DEF HeldBehind
    <3>5. /\ stretch.match \in Nat \ {0} /\ stretch.literals \in Nat /\ stretch.match = last
          /\ StretchBegin(stretch, last) >= 0
      BY <2>1, <2>5, <3>3
    <3> QED
      BY <3>1, <3>2, <3>3, <3>4, <3>5, Zenon DEF IsReached
  <2>11. StoreInv'
    <3>1. parsePosition + last <= End /\ last \in Nat /\ 0 \in Nat
      BY <1>3, <2>1 DEF PassStarts
    <3>2. /\ IsReached(table, stretch, last) /\ 0 = last - stretch.match /\ 0 <= ParseLongest
          /\ \A i \in 0..StretchBegin(stretch, last) : IsSettled(table, i)
          /\ stretch.literals = 0
      BY <2>1, <2>5, <2>9, <2>10, ParseSizes
    <3>3. UNCHANGED <<parseText, parsePosition, parseAnchor, decoder>>
      BY <1>2, <1>7
    <3>4. nodes' = table /\ lastStretch' = stretch /\ lastPosition' = last /\ current' = 0
      BY <1>7
    <3> QED
      BY <2>6, <3>1, <3>2, <3>3, <3>4, StoreNext
  <2>12. PassStarts' /\ (parsePosition <= End)'
    BY <1>2, <1>3, <1>7, StartsNext
  <2>13. ParseTypeOK'
    BY <1>2, <1>3, <1>7, <2>1, <2>6, <2>8 DEF ParseTypeOK
  <2> QED
    BY <1>7, <2>11, <2>12, <2>13 DEF ParseInv
<1>8. ASSUME answer # <<>>, ~(Longest(answer) > ParseSufficient),
             nodes' = FirstNodes(answer, literals),
             current' = 1, lastPosition' = Longest(answer), parsePhase' = "forward",
             UNCHANGED <<parsePosition, lastStretch>>
      PROVE  ParseInv'
  <2> PICK table : table = FirstNodes(answer, literals)
    OBVIOUS
  <2> PICK last : last = Longest(answer)
    OBVIOUS
  <2>1. PassIs(table, last, 1) /\ last \in Nat \ {0}
    <3>1. last \in Nat
      BY <1>3, <1>4, <1>6, <1>8, LongestIs
    <3>2. last <= ParseSufficient
      BY <1>8, <3>1, ParseSizes
    <3> QED
      BY <1>3, <1>6, <1>8, <3>2, FirstNodesArePass
  <2>2. ForwardInv'
    <3>1. 1 \in 1..last + 1
      BY <2>1
    <3>2. UNCHANGED <<parseText, parsePosition, parseAnchor, decoder>>
      BY <1>2, <1>8
    <3>3. nodes' = table /\ lastPosition' = last /\ current' = 1
      BY <1>8
    <3> QED
      BY <2>1, <3>1, <3>2, <3>3, PassNext
  <2>3. PassStarts' /\ (parsePosition <= End)'
    BY <1>2, <1>3, <1>8, StartsNext
  <2>4. table \in [0..NodeCount - 1 -> ParseNodes]
    BY <2>1, Zenon DEF PassIs
  <2>5. ParseTypeOK'
    BY <1>2, <1>3, <1>8, <2>1, <2>4 DEF ParseTypeOK
  <2> QED
    BY <1>8, <2>2, <2>3, <2>5 DEF ParseInv
<1> QED
  BY <1>1, <1>5, <1>7, <1>8

\* A pass that ends with its table settled takes the node it ends at.
LEMMA SettledEnds ==
  ASSUME PassStarts, NEW table, NEW last, PassIs(table, last, last + 1),
         NEW stretch, stretch = table[last], NEW c, c = last - stretch.match
  PROVE  /\ stretch \in ParseNodes /\ c \in Nat /\ parsePosition + last <= End
         /\ stretch.match # 0 =>
              /\ IsReached(table, stretch, last) /\ c = last - stretch.match /\ c <= ParseLongest
              /\ \A i \in 0..StretchBegin(stretch, last) : IsSettled(table, i)
              /\ stretch.literals # 0 =>
                   stretch.repeats \in Offsets /\ stretch.repeats = HeldBehind(table, stretch, last)
<1>1. /\ table \in [0..NodeCount - 1 -> ParseNodes] /\ last \in Nat
      /\ last < ParseLongest \/ (last = ParseLongest /\ table[last].literals # 0)
      /\ parsePosition + last <= End
      /\ \A i \in 0..(last + 1) - 1 : IsSettled(table, i)
  BY Zenon DEF PassIs
<1>2. last \in 0..NodeCount - 1 /\ last <= ParseLongest
  BY <1>1, ParseSizes
<1>3. stretch \in ParseNodes /\ IsSettled(table, last)
  BY <1>1, <1>2
<1>4. stretch.match \in Nat
  BY <1>1, <1>3, SettledTypes
<1>5. ASSUME stretch.match = 0 PROVE c \in Nat
  BY <1>1, <1>5
<1>6. ASSUME stretch.match # 0
      PROVE  /\ IsReached(table, stretch, last) /\ c \in Nat /\ c <= ParseLongest
             /\ \A i \in 0..StretchBegin(stretch, last) : IsSettled(table, i)
             /\ stretch.repeats \in Offsets /\ stretch.repeats = HeldBehind(table, stretch, last)
  <2>1. /\ IsReached(table, stretch, last) /\ stretch.repeats \in Offsets
        /\ stretch.repeats = HeldBehind(table, stretch, last)
    BY <1>3, <1>6, Zenon DEF IsSettled
  <2>2. StretchBegin(stretch, last) \in 0..last - 1
    BY <1>1, <2>1, BeginIsBefore
  <2>3. stretch.literals \in Nat
    BY <2>1 DEF IsReached
  <2>4. c \in Nat /\ c <= ParseLongest
    BY <1>1, <1>2, <1>4, <2>2, <2>3, ParseSizes DEF StretchBegin
  <2>5. \A i \in 0..StretchBegin(stretch, last) : IsSettled(table, i)
    BY <1>1, <2>2
  <2> QED
    BY <2>1, <2>4, <2>5
<1> QED
  BY <1>1, <1>3, <1>5, <1>6

\* The types that a step of a pass keeps.
LEMMA TypesNext ==
  ASSUME ParseTypeOK, NEW table \in [0..NodeCount - 1 -> ParseNodes], NEW c \in Nat, NEW last \in Nat,
         NEW stretch \in ParseNodes,
         nodes' = table, current' = c, lastPosition' = last, lastStretch' = stretch,
         parsePhase' \in {"parse", "forward", "store", "back", "write"},
         UNCHANGED <<parseText, parsePosition, parseAnchor, parseRepeats, storeStart, stretchAt,
                     decoder, faithful>>
  PROVE  ParseTypeOK'
  BY DEF ParseTypeOK

\* A step that goes on with the pass, or ends it.
LEMMA PassGoesOn ==
  ASSUME ParseTypeOK, PassStarts, NEW table, NEW last, NEW n, PassIs(table, last, n), n \in 1..last + 1,
         nodes' = table, lastPosition' = last, current' = n, parsePhase' = "forward",
         UNCHANGED <<parseText, parsePosition, parseAnchor, parseRepeats, storeStart, stretchAt,
                     decoder, faithful, lastStretch>>
  PROVE  ParseInv'
<1>1. ForwardInv'
  BY PassNext
<1>2. PassStarts' /\ (parsePosition <= End)'
  BY StartsNext
<1>3. table \in [0..NodeCount - 1 -> ParseNodes] /\ last \in Nat
  BY Zenon DEF PassIs
<1>4. n \in Nat /\ lastStretch' \in ParseNodes
  BY <1>3 DEF ParseTypeOK
<1>5. ParseTypeOK'
  BY <1>3, <1>4, TypesNext
<1> QED
  BY <1>1, <1>2, <1>5 DEF ParseInv

LEMMA PassEnds ==
  ASSUME ParseTypeOK, PassStarts, NEW table \in [0..NodeCount - 1 -> ParseNodes],
         NEW stretch \in ParseNodes, NEW last \in Nat, NEW c \in Nat,
         parsePosition + last <= End,
         stretch.match # 0 =>
           /\ IsReached(table, stretch, last) /\ c = last - stretch.match /\ c <= ParseLongest
           /\ \A i \in 0..StretchBegin(stretch, last) : IsSettled(table, i)
           /\ stretch.literals # 0 =>
                stretch.repeats \in Offsets /\ stretch.repeats = HeldBehind(table, stretch, last),
         nodes' = table, lastStretch' = stretch, lastPosition' = last, current' = c,
         parsePhase' = "store",
         UNCHANGED <<parseText, parsePosition, parseAnchor, parseRepeats, storeStart, stretchAt,
                     decoder, faithful>>
  PROVE  ParseInv'
<1>1. StoreInv'
  BY StoreNext
<1>2. PassStarts' /\ (parsePosition <= End)'
  BY StartsNext
<1>3. ParseTypeOK'
  BY TypesNext
<1> QED
  BY <1>1, <1>2, <1>3 DEF ParseInv

LEMMA SettledPassEnds ==
  ASSUME ParseTypeOK, PassStarts, NEW table, NEW last, PassIs(table, last, last + 1),
         nodes' = table, lastStretch' = table[last], lastPosition' = last,
         current' = last - table[last].match, parsePhase' = "store",
         UNCHANGED <<parseText, parsePosition, parseAnchor, parseRepeats, storeStart, stretchAt,
                     decoder, faithful>>
  PROVE  ParseInv'
<1> PICK stretch : stretch = table[last]
  OBVIOUS
<1> PICK c : c = last - stretch.match
  OBVIOUS
<1>1. /\ stretch \in ParseNodes /\ c \in Nat /\ parsePosition + last <= End
      /\ stretch.match # 0 =>
           /\ IsReached(table, stretch, last) /\ c = last - stretch.match /\ c <= ParseLongest
           /\ \A i \in 0..StretchBegin(stretch, last) : IsSettled(table, i)
           /\ stretch.literals # 0 =>
                stretch.repeats \in Offsets /\ stretch.repeats = HeldBehind(table, stretch, last)
  BY SettledEnds
<1>2. table \in [0..NodeCount - 1 -> ParseNodes] /\ last \in Nat
  BY Zenon DEF PassIs
<1>3. lastStretch' = stretch /\ current' = c
  OBVIOUS
<1> QED
  BY <1>1, <1>2, <1>3, PassEnds

\* A match at position `from' with no literals behind it.
LEMMA MatchIsStretch ==
  ASSUME NEW table, NEW from \in Nat, NEW size \in Nat \ {0}, NEW value \in Nat \ {0},
         NEW stretch, stretch.match = size, stretch.value = value, stretch.literals = 0,
         NEW end, end = from + size, NEW alone, alone = (table[from].literals = 0),
         Copies(parsePosition + from, size, GetOffset(table[from].repeats, value, alone).first)
  PROVE  /\ StretchBegin(stretch, end) = from /\ from = end - stretch.match
         /\ IsReached(table, stretch, end)
<1>1. StretchBegin(stretch, end) = from
  BY DEF StretchBegin
<1>2. HeldBehind(table, stretch, end) = GetOffset(table[from].repeats, value, alone)
  BY <1>1, Zenon DEF HeldBehind
<1>3. /\ stretch.match \in Nat \ {0} /\ stretch.value \in Nat \ {0} /\ stretch.literals \in Nat
      /\ StretchBegin(stretch, end) >= 0
  BY <1>1
<1>4. Copies(parsePosition + StretchBegin(stretch, end), stretch.match,
             HeldBehind(table, stretch, end).first)
  BY <1>1, <1>2, Zenon
<1>5. IsReached(table, stretch, end)
  BY <1>3, <1>4, Zenon DEF IsReached
<1>6. from = end - stretch.match
  OBVIOUS
<1> QED
  BY <1>1, <1>5, <1>6

LEMMA SumFits ==
  ASSUME NEW p \in Nat, NEW c \in Nat, NEW n \in Nat, NEW size \in n..End - (p + c), End \in Nat
  PROVE  c + size \in Nat /\ p + (c + size) <= End
  OBVIOUS

LEMMA MatchEnds ==
  ASSUME PassStarts, NEW table, NEW c \in Nat, c <= ParseLongest,
         \A i \in 0..c : IsSettled(table, i),
         NEW size \in Nat \ {0}, NEW value \in Nat \ {0},
         size \in ParseMinMatch..End - (parsePosition + c),
         NEW stretch, stretch.match = size, stretch.value = value, stretch.literals = 0,
         NEW end, end = c + size, NEW alone, alone = (table[c].literals = 0),
         Copies(parsePosition + c, size, GetOffset(table[c].repeats, value, alone).first)
  PROVE  /\ end \in Nat /\ parsePosition + end <= End
         /\ IsReached(table, stretch, end) /\ c = end - stretch.match
         /\ \A i \in 0..StretchBegin(stretch, end) : IsSettled(table, i)
<1>1. StretchBegin(stretch, end) = c /\ c = end - stretch.match /\ IsReached(table, stretch, end)
  BY MatchIsStretch
<1>2. end \in Nat /\ parsePosition + end <= End
  <2>1. parsePosition \in Nat /\ End \in Nat /\ ParseMinMatch \in Nat
    BY ParseSizes DEF PassStarts
  <2> QED
    BY <2>1, SumFits
<1> QED
  BY <1>1, <1>2, Zenon

\* The longest match at `current' ends the pass.
LEMMA AnswerEnds ==
  ASSUME ParseTypeOK, PassStarts, NEW table, NEW last, PassIs(table, last, current + 1),
         current \in 1..last, NEW answer, parsePosition + current \in 0..End,
         NEW alone, alone = (table[current].literals = 0),
         AreMatches(answer, parsePosition + current, table[current].repeats, alone),
         NEW c, c = current, NEW size, size = Longest(answer),
         NEW value, value = answer[Len(answer)].value,
         NEW stretch \in ParseNodes, stretch.match = size, stretch.value = value,
         stretch.literals = 0, NEW end, end = c + size,
         nodes' = table, current' = c, lastStretch' = stretch, lastPosition' = end,
         parsePhase' = "store",
         UNCHANGED <<parseText, parsePosition, parseAnchor, parseRepeats, storeStart, stretchAt,
                     decoder, faithful>>
  PROVE  ParseInv'
<1>1. /\ table \in [0..NodeCount - 1 -> ParseNodes] /\ last \in Nat
      /\ last < ParseLongest \/ (last = ParseLongest /\ table[last].literals # 0)
      /\ \A i \in 0..(c + 1) - 1 : IsSettled(table, i)
  BY Zenon DEF PassIs
<1>2. c \in Nat /\ c <= ParseLongest
  BY <1>1, ParseSizes
<1>3. /\ size \in ParseMinMatch..End - (parsePosition + c) /\ size \in Nat \ {0}
      /\ value \in Nat \ {0}
      /\ Copies(parsePosition + c, size, GetOffset(table[c].repeats, value, alone).first)
  BY LongestIs
<1>4. \A i \in 0..c : IsSettled(table, i)
  BY <1>1, <1>2
<1>5. alone = (table[c].literals = 0)
  OBVIOUS
<1>6. /\ end \in Nat /\ parsePosition + end <= End
      /\ IsReached(table, stretch, end) /\ c = end - stretch.match
      /\ \A i \in 0..StretchBegin(stretch, end) : IsSettled(table, i)
  BY <1>2, <1>3, <1>4, <1>5, MatchEnds
<1> QED
  BY <1>1, <1>2, <1>6, PassEnds

LEMMA ForwardStepKeeps == ASSUME ParseInv, ForwardStep PROVE ParseInv'
<1>1. /\ parsePhase = "forward"
      /\ UNCHANGED <<parseText, parsePosition, parseAnchor, parseRepeats, storeStart, stretchAt,
                     decoder, faithful>>
  BY DEF ForwardStep
<1>2. ParseTypeOK /\ PassStarts /\ ForwardInv
  BY <1>1 DEF ParseInv
<1>3. CASE current > lastPosition
  <2>1. /\ lastStretch' = nodes[lastPosition] /\ current' = lastPosition - nodes[lastPosition].match
        /\ parsePhase' = "store" /\ UNCHANGED <<nodes, lastPosition>>
    BY <1>3, Zenon DEF ForwardStep
  <2>2. PassIs(nodes, lastPosition, lastPosition + 1)
    <3>1. current = lastPosition + 1 /\ PassIs(nodes, lastPosition, current)
      BY <1>2, <1>3 DEF ForwardInv, ParseTypeOK
    <3> QED
      BY <3>1
  <2>3. PICK table : table = nodes
    OBVIOUS
  <2>4. PICK last : last = lastPosition
    OBVIOUS
  <2>5. /\ PassIs(table, last, last + 1) /\ nodes' = table /\ lastStretch' = table[last]
        /\ lastPosition' = last /\ current' = last - table[last].match
    BY <2>1, <2>2, <2>3, <2>4
  <2> QED
    BY <1>1, <1>2, <2>1, <2>5, SettledPassEnds
<1>4. CASE ~(current > lastPosition)
  <2>1. PICK tried \in LiteralTried : Forward(RepeatsSettled(tried[1]), tried[2])
    BY <1>4, Zenon DEF ForwardStep
  <2>2. PICK half : half = tried[1]
    OBVIOUS
  <2>3. PICK last : last = tried[2]
    OBVIOUS
  <2>4. PICK table : table = RepeatsSettled(half)
    OBVIOUS
  <2>5. Forward(table, last)
    BY <2>1, <2>2, <2>3, <2>4
  <2>6. current <= lastPosition /\ current \in Nat
    BY <1>2, <1>4 DEF ParseTypeOK
  <2>7. PassIs(table, last, current + 1) /\ current \in 1..last
    BY <1>2, <2>2, <2>3, <2>4, <2>6, TriedIsHalf, HalfIsSettled
  <2>8. PICK c : c = current + 1
    OBVIOUS
  <2>9. PassIs(table, last, c) /\ c \in 1..last + 1 /\ last \in Nat /\ parsePosition + last <= End
        /\ table \in [0..NodeCount - 1 -> ParseNodes] /\ IsSettled(table, current)
    <3>1. last \in Nat /\ parsePosition + last <= End
          /\ table \in [0..NodeCount - 1 -> ParseNodes] /\ \A i \in 0..(current + 1) - 1 : IsSettled(table, i)
      BY <2>7, Zenon DEF PassIs
    <3> QED
      BY <2>6, <2>7, <2>8, <3>1
  <2>10. ASSUME nodes' = table, lastPosition' = last, current' = current + 1,
                UNCHANGED <<lastStretch, parsePhase>>
         PROVE  ParseInv'
    <3>1. current' = c /\ parsePhase' = "forward"
      BY <1>1, <2>8, <2>10
    <3> QED
      BY <1>1, <1>2, <2>9, <2>10, <3>1, PassGoesOn
  <2>11. ASSUME current = last, nodes' = table, lastPosition' = last,
                lastStretch' = table[last], current' = last - table[last].match,
                parsePhase' = "store"
         PROVE  ParseInv'
    <3>1. PassIs(table, last, last + 1)
      BY <2>7, <2>11
    <3> QED
      BY <1>1, <1>2, <2>11, <3>1, SettledPassEnds
  <2>12. ASSUME current < last, parsePosition + current <= InputLimit,
                NEW answer \in Answers(parsePosition + current, table[current].repeats,
                                       table[current].literals = 0),
                answer # <<>>
         PROVE  /\ AreMatches(answer, parsePosition + current, table[current].repeats,
                              table[current].literals = 0)
                /\ parsePosition + current \in 0..End
    <3>1. parsePosition + current \in 0..End /\ End \in Nat
      BY <1>2, <2>6, <2>9, <2>12 DEF PassStarts
    <3>2. table[current].repeats \in Offsets /\ (table[current].literals = 0) \in BOOLEAN
      BY <2>9, Zenon DEF IsSettled
    <3> QED
      BY <2>12, <3>1, <3>2, AnswerIs
  <2>13. ASSUME NEW answer, parsePosition + current \in 0..End,
                AreMatches(answer, parsePosition + current, table[current].repeats,
                           table[current].literals = 0),
                ~EndsPass(answer), NEW better,
                nodes' = Reached(table, last, answer, better),
                lastPosition' = Later(last, current + Longest(answer)),
                current' = current + 1, UNCHANGED <<lastStretch, parsePhase>>
         PROVE  ParseInv'
    <3> PICK after : after = Reached(table, last, answer, better)
      OBVIOUS
    <3> PICK end : end = Later(last, current + Longest(answer))
      OBVIOUS
    <3>1. PassIs(after, end, current + 1) /\ current \in 1..end
      BY <1>2, <2>7, <2>13, ReachedIsPass
    <3>2. PassIs(after, end, c) /\ c \in 1..end + 1
      <4>1. end \in Nat
        BY <3>1, Zenon DEF PassIs
      <4> QED
        BY <2>6, <2>8, <3>1, <4>1
    <3>3. nodes' = after /\ lastPosition' = end /\ current' = c /\ parsePhase' = "forward"
      BY <1>1, <2>8, <2>13
    <3> QED
      BY <1>1, <1>2, <2>13, <3>2, <3>3, PassGoesOn
  <2>14. CASE parsePosition + current > InputLimit
    <3>1. InputLimit \in Int
      BY <1>2, ParseSizes DEF InputLimit, PassStarts
    <3>2. ~(parsePosition + current <= InputLimit)
      BY <1>2, <2>6, <2>14, <3>1 DEF PassStarts
    <3>3. nodes' = table /\ lastPosition' = last /\ current' = current + 1
          /\ UNCHANGED <<lastStretch, parsePhase>>
      BY <2>5, <3>2, Zenon DEF Forward
    <3> QED
      BY <2>10, <3>3
  <2>15. CASE parsePosition + current <= InputLimit /\ current = last
    <3>1. ~(current < last) /\ ~(parsePosition + current > InputLimit)
      BY <1>2, <2>6, <2>15, ParseSizes DEF InputLimit, PassStarts
    <3>2. nodes' = table /\ lastPosition' = last /\ lastStretch' = table[last]
          /\ current' = last - table[last].match /\ parsePhase' = "store"
      BY <2>5, <3>1, Zenon DEF Forward
    <3> QED
      BY <2>11, <2>15, <3>2
  <2>16. CASE parsePosition + current <= InputLimit /\ current < last
    <3>1. current # last /\ ~(parsePosition + current > InputLimit)
      BY <1>2, <2>6, <2>9, <2>16, ParseSizes DEF InputLimit, PassStarts
    <3>2. PICK answer \in Answers(parsePosition + current, table[current].repeats,
                                  table[current].literals = 0) :
            IF answer = <<>>
            THEN /\ nodes' = table /\ lastPosition' = last /\ current' = current + 1
                 /\ UNCHANGED <<lastStretch, parsePhase>>
            ELSE IF EndsPass(answer)
            THEN /\ nodes' = table
                 /\ lastStretch' = Node(TRUE, Longest(answer), answer[Len(answer)].value, 0,
                                        StaleNode.repeats)
                 /\ lastPosition' = current + Longest(answer)
                 /\ parsePhase' = "store"
                 /\ UNCHANGED current
            ELSE \E better \in SUBSET (current + ParseMinMatch..Earlier(last, current + Longest(answer))) :
                 /\ nodes' = Reached(table, last, answer, better)
                 /\ lastPosition' = Later(last, current + Longest(answer))
                 /\ current' = current + 1
                 /\ UNCHANGED <<lastStretch, parsePhase>>
      BY <2>5, <3>1, Zenon DEF Forward
    <3>3. CASE answer = <<>>
      <4>1. nodes' = table /\ lastPosition' = last /\ current' = current + 1
            /\ UNCHANGED <<lastStretch, parsePhase>>
        BY <3>2, <3>3, Zenon
      <4> QED
        BY <2>10, <4>1
    <3>4. CASE answer # <<>> /\ EndsPass(answer)
      <4> PICK size : size = Longest(answer)
        OBVIOUS
      <4> PICK value : value = answer[Len(answer)].value
        OBVIOUS
      <4> PICK none : none = StaleNode.repeats
        OBVIOUS
      <4> PICK stretch : stretch = Node(TRUE, size, value, 0, none)
        OBVIOUS
      <4> PICK end : end = current + size
        OBVIOUS
      <4> PICK alone : alone = (table[current].literals = 0)
        OBVIOUS
      <4>1. /\ nodes' = table /\ lastStretch' = stretch
            /\ lastPosition' = end /\ parsePhase' = "store" /\ current' = current
        BY <3>2, <3>4, Zenon
      <4>2. /\ AreMatches(answer, parsePosition + current, table[current].repeats, alone)
            /\ parsePosition + current \in 0..End
        BY <2>12, <2>16, <3>4
      <4>3. stretch.match = size /\ stretch.value = value /\ stretch.literals = 0
        BY DEF Node
      <4>4. stretch \in ParseNodes
        <5>1. none \in [first : Int, second : Int, third : Int] /\ 0 \in Int
          BY StaleIs
        <5>2. size \in Int /\ value \in Int
          <6>1. Longest(answer) \in Nat \ {0} /\ answer[Len(answer)].value \in Nat \ {0}
            BY <1>2, <4>2, LongestIs
          <6> QED
            BY <6>1
        <5> QED
          BY <5>1, <5>2, Zenon DEF Node, ParseNodes
      <4> QED
        BY <1>1, <1>2, <2>7, <4>1, <4>2, <4>3, <4>4, AnswerEnds
    <3>5. CASE answer # <<>> /\ ~EndsPass(answer)
      <4>1. PICK better : /\ nodes' = Reached(table, last, answer, better)
                          /\ lastPosition' = Later(last, current + Longest(answer))
                          /\ current' = current + 1
                          /\ UNCHANGED <<lastStretch, parsePhase>>
        BY <3>2, <3>5, Zenon
      <4>2. /\ AreMatches(answer, parsePosition + current, table[current].repeats,
                          table[current].literals = 0)
            /\ parsePosition + current \in 0..End
        BY <2>12, <2>16, <3>5
      <4> QED
        BY <2>13, <3>5, <4>1, <4>2
    <3> QED
      BY <3>3, <3>4, <3>5
  <2> QED
    <3>1. /\ parsePosition + current > InputLimit \/ parsePosition + current <= InputLimit
          /\ current = last \/ current < last
      BY <1>2, <2>6, <2>7, <2>9, ParseSizes DEF InputLimit, PassStarts
    <3> QED
      BY <2>14, <2>15, <2>16, <3>1
<1> QED
  BY <1>3, <1>4

\* A chain of one sequence.
LEMMA ChainOfOne ==
  ASSUME NEW table, NEW n \in Int, NEW start \in Int, NEW offsets \in Offsets, NEW final \in Offsets,
         IsSequence(table[n], start, offsets),
         final = GetOffset(offsets, table[n].value, table[n].literals = 0)
  PROVE  IsChain(table, n, n, start, offsets, final)
<1> DEFINE node == table[n]
           behind == start + node.literals + node.match
           at == [j \in n..n + 1 |-> IF j = n THEN start ELSE behind]
           held == [j \in n..n + 1 |-> IF j = n THEN offsets ELSE final]
<1>1. behind \in Int
  BY DEF IsSequence
<1>2. at \in [n..n + 1 -> Int] /\ held \in [n..n + 1 -> Offsets]
  BY <1>1
<1>3. n \in n..n + 1 /\ n + 1 \in n..n + 1 /\ n + 1 # n
  OBVIOUS
<1>4. at[n] = start /\ held[n] = offsets /\ at[n + 1] = behind /\ held[n + 1] = final
  BY <1>3
<1>5. ASSUME NEW j \in n..n
      PROVE  /\ IsSequence(table[j], at[j], held[j])
             /\ at[j + 1] = at[j] + table[j].literals + table[j].match
             /\ held[j + 1] = GetOffset(held[j], table[j].value, table[j].literals = 0)
  <2>1. j = n
    OBVIOUS
  <2> HIDE DEF at, held
  <2> QED
    BY <1>4, <2>1, Zenon
<1> HIDE DEF at, held
<1> QED
  BY <1>2, <1>4, <1>5, Zenon DEF IsChain

\* A chain says nothing of the nodes outside of it.
LEMMA ChainStays ==
  ASSUME NEW table, NEW other, NEW from, NEW to, NEW start, NEW offsets, NEW final,
         IsChain(table, from, to, start, offsets, final),
         \A j \in from..to : other[j] = table[j]
  PROVE  IsChain(other, from, to, start, offsets, final)
<1>1. PICK at \in [from..to + 1 -> Int], held \in [from..to + 1 -> Offsets] :
        /\ at[from] = start /\ held[from] = offsets /\ held[to + 1] = final
        /\ \A j \in from..to :
             /\ IsSequence(table[j], at[j], held[j])
             /\ at[j + 1] = at[j] + table[j].literals + table[j].match
             /\ held[j + 1] = GetOffset(held[j], table[j].value, table[j].literals = 0)
  BY Zenon DEF IsChain
<1>2. ASSUME NEW j \in from..to
      PROVE  /\ IsSequence(other[j], at[j], held[j])
             /\ at[j + 1] = at[j] + other[j].literals + other[j].match
             /\ held[j + 1] = GetOffset(held[j], other[j].value, other[j].literals = 0)
  BY <1>1, Zenon
<1> QED
  BY <1>1, <1>2, Zenon DEF IsChain

\* A sequence in front of a chain.
LEMMA ChainGrows ==
  ASSUME NEW table, NEW h \in Int, NEW from \in Int, from = h + 1, NEW to \in Int, from <= to,
         NEW start \in Int, NEW offsets \in Offsets, NEW final,
         IsChain(table, from, to, start, offsets, final),
         NEW begin \in Int, NEW before \in Offsets, IsSequence(table[h], begin, before),
         start = begin + table[h].literals + table[h].match,
         offsets = GetOffset(before, table[h].value, table[h].literals = 0)
  PROVE  IsChain(table, h, to, begin, before, final)
<1>1. PICK at \in [from..to + 1 -> Int], held \in [from..to + 1 -> Offsets] :
        /\ at[from] = start /\ held[from] = offsets /\ held[to + 1] = final
        /\ \A j \in from..to :
             /\ IsSequence(table[j], at[j], held[j])
             /\ at[j + 1] = at[j] + table[j].literals + table[j].match
             /\ held[j + 1] = GetOffset(held[j], table[j].value, table[j].literals = 0)
  BY Zenon DEF IsChain
<1> DEFINE longer == [j \in h..to + 1 |-> IF j = h THEN begin ELSE at[j]]
           kept == [j \in h..to + 1 |-> IF j = h THEN before ELSE held[j]]
<1>2. \A j \in h..to + 1 : j # h => j \in from..to + 1
  OBVIOUS
<1>3. longer \in [h..to + 1 -> Int] /\ kept \in [h..to + 1 -> Offsets]
  BY <1>2
<1>4. h \in h..to + 1 /\ to + 1 \in h..to + 1 /\ to + 1 # h
  OBVIOUS
<1>5. longer[h] = begin /\ kept[h] = before /\ kept[to + 1] = final
  BY <1>1, <1>4
<1>6. \A j \in from..to + 1 : j \in h..to + 1 /\ j # h
  OBVIOUS
<1>7. \A j \in from..to + 1 : longer[j] = at[j] /\ kept[j] = held[j]
  BY <1>6
<1> HIDE DEF longer, kept
<1>8. ASSUME NEW j \in h..to
      PROVE  /\ IsSequence(table[j], longer[j], kept[j])
             /\ longer[j + 1] = longer[j] + table[j].literals + table[j].match
             /\ kept[j + 1] = GetOffset(kept[j], table[j].value, table[j].literals = 0)
  <2>1. CASE j = h
    <3>1. j + 1 = from /\ from \in from..to + 1
      BY <2>1
    <3>2. longer[from] = start /\ kept[from] = offsets
      BY <1>1, <1>7, <3>1, Zenon
    <3> QED
      BY <1>5, <2>1, <3>1, <3>2, Zenon
  <2>2. CASE j # h
    <3>1. j \in from..to /\ j \in from..to + 1 /\ j + 1 \in from..to + 1
      BY <2>2
    <3>2. /\ longer[j] = at[j] /\ kept[j] = held[j]
          /\ longer[j + 1] = at[j + 1] /\ kept[j + 1] = held[j + 1]
      BY <1>7, <3>1
    <3> QED
      BY <1>1, <3>1, <3>2, Zenon
  <2> QED
    BY <2>1, <2>2
<1> QED
  BY <1>3, <1>5, <1>8, Zenon DEF IsChain

\* The first sequence of a chain, and the rest of it.
LEMMA ChainBegins ==
  ASSUME NEW table, NEW from \in Int, NEW to \in Int, from <= to, NEW start, NEW offsets, NEW final,
         IsChain(table, from, to, start, offsets, final),
         NEW behind, behind = start + table[from].literals + table[from].match,
         NEW after, after = GetOffset(offsets, table[from].value, table[from].literals = 0),
         NEW second, second = from + 1
  PROVE  /\ IsSequence(table[from], start, offsets) /\ after \in Offsets
         /\ from = to => final = after
         /\ from < to => IsChain(table, second, to, behind, after, final)
<1>1. PICK at \in [from..to + 1 -> Int], held \in [from..to + 1 -> Offsets] :
        /\ at[from] = start /\ held[from] = offsets /\ held[to + 1] = final
        /\ \A j \in from..to :
             /\ IsSequence(table[j], at[j], held[j])
             /\ at[j + 1] = at[j] + table[j].literals + table[j].match
             /\ held[j + 1] = GetOffset(held[j], table[j].value, table[j].literals = 0)
  BY Zenon DEF IsChain
<1>2. from \in from..to /\ second \in from..to + 1 /\ second = from + 1
  OBVIOUS
<1>3. IsSequence(table[from], start, offsets) /\ at[second] = behind /\ held[second] = after
  BY <1>1, <1>2, Zenon
<1>4. after \in Offsets
  BY <1>2, <1>3
<1>5. ASSUME from = to PROVE final = after
  BY <1>1, <1>2, <1>3, <1>5, Zenon
<1>6. ASSUME from < to PROVE IsChain(table, second, to, behind, after, final)
  <2> DEFINE rest == [j \in second..to + 1 |-> at[j]]
             kept == [j \in second..to + 1 |-> held[j]]
  <2>1. \A j \in second..to + 1 : j \in from..to + 1
    BY <1>2
  <2>2. rest \in [second..to + 1 -> Int] /\ kept \in [second..to + 1 -> Offsets]
    BY <2>1
  <2>3. second \in second..to + 1 /\ to + 1 \in second..to + 1
    BY <1>2, <1>6
  <2>4. rest[second] = behind /\ kept[second] = after /\ kept[to + 1] = final
    BY <1>1, <1>3, <2>3
  <2>5. \A j \in second..to : j \in from..to /\ j \in second..to + 1 /\ j + 1 \in second..to + 1
    BY <1>2
  <2>6. \A j \in second..to + 1 : rest[j] = at[j] /\ kept[j] = held[j]
    OBVIOUS
  <2> HIDE DEF rest, kept
  <2>7. ASSUME NEW j \in second..to
        PROVE  /\ IsSequence(table[j], rest[j], kept[j])
               /\ rest[j + 1] = rest[j] + table[j].literals + table[j].match
               /\ kept[j + 1] = GetOffset(kept[j], table[j].value, table[j].literals = 0)
    <3>1. /\ rest[j] = at[j] /\ kept[j] = held[j]
          /\ rest[j + 1] = at[j + 1] /\ kept[j + 1] = held[j + 1]
      BY <2>5, <2>6
    <3> QED
      BY <1>1, <2>5, <3>1, Zenon
  <2> QED
    BY <2>2, <2>4, <2>7, Zenon DEF IsChain
<1> QED
  BY <1>3, <1>4, <1>5, <1>6

LEMMA SequenceNext ==
  ASSUME NEW node, NEW start, NEW offsets, IsSequence(node, start, offsets), parseText' = parseText
  PROVE  IsSequence(node, start, offsets)'
  BY Zenon DEF IsSequence, Copies, End

LEMMA ChainNext ==
  ASSUME NEW table, NEW from, NEW to, NEW start, NEW offsets, NEW final,
         IsChain(table, from, to, start, offsets, final), parseText' = parseText
  PROVE  IsChain(table, from, to, start, offsets, final)'
<1>1. PICK at \in [from..to + 1 -> Int], held \in [from..to + 1 -> Offsets] :
        /\ at[from] = start /\ held[from] = offsets /\ held[to + 1] = final
        /\ \A j \in from..to :
             /\ IsSequence(table[j], at[j], held[j])
             /\ at[j + 1] = at[j] + table[j].literals + table[j].match
             /\ held[j + 1] = GetOffset(held[j], table[j].value, table[j].literals = 0)
  BY Zenon DEF IsChain
<1>2. \A j \in from..to : IsSequence(table[j], at[j], held[j])'
  BY <1>1, SequenceNext, Zenon
<1> QED
  BY <1>1, <1>2, Zenon DEF IsChain

\* A stretch as a sequence: with the literals in front of its match.
LEMMA StretchIsSequence ==
  ASSUME NEW table, NEW node, NEW i \in Int, IsReached(table, node, i), parsePosition \in Nat,
         NEW b, b = StretchBegin(node, i), table[b].literals \in Nat,
         NEW sequence, sequence.match = node.match, sequence.value = node.value,
         sequence.literals = table[b].literals,
         NEW start, start = parsePosition + b - table[b].literals
  PROVE  /\ IsSequence(sequence, start, table[b].repeats) /\ start \in Int /\ b \in Nat
         /\ start + sequence.literals + sequence.match = parsePosition + i - node.literals
         /\ GetOffset(table[b].repeats, sequence.value, sequence.literals = 0)
              = HeldBehind(table, node, i)
<1>1. /\ node.match \in Nat \ {0} /\ node.value \in Nat \ {0} /\ node.literals \in Nat
      /\ b \in Nat
      /\ Copies(parsePosition + b, node.match, HeldBehind(table, node, i).first)
  BY BeginIsBefore DEF IsReached
<1>2. GetOffset(table[b].repeats, sequence.value, sequence.literals = 0) = HeldBehind(table, node, i)
  BY Zenon DEF HeldBehind
<1>3. b = i - node.literals - node.match
  BY DEF StretchBegin
<1> PICK literals : literals = table[b].literals
  OBVIOUS
<1>4. start + literals = parsePosition + b /\ start \in Int
  BY <1>1
<1>5. start + literals + node.match = parsePosition + i - node.literals
  BY <1>1, <1>3, <1>4
<1>6. sequence.literals = literals
  OBVIOUS
<1>7. IsSequence(sequence, start, table[b].repeats)
  BY <1>1, <1>2, <1>4, <1>6, Zenon DEF IsSequence
<1> QED
  BY <1>1, <1>2, <1>4, <1>5, <1>6, <1>7

LEMMA WithNodeIs ==
  ASSUME NEW table \in NodeTables, NEW n \in Slots,
         NEW node \in ParseNodes
  PROVE  /\ WithNode(table, n, node) \in NodeTables
         /\ WithNode(table, n, node)[n] = node
         /\ \A j \in Slots : j # n => WithNode(table, n, node)[j] = table[j]
  BY Zenon DEF WithNode, NodeTables

LEMMA WithLiteralsIs ==
  ASSUME NEW table \in NodeTables, NEW n \in Slots, NEW count
  PROVE  /\ WithLiterals(table, n, count)[n].match = table[n].match
         /\ WithLiterals(table, n, count)[n].value = table[n].value
         /\ WithLiterals(table, n, count)[n].literals = count
         /\ \A j \in Slots : j # n => WithLiterals(table, n, count)[j] = table[j]
         /\ count \in Int => WithLiterals(table, n, count) \in NodeTables
<1> PICK changed : changed = [table[n] EXCEPT !.literals = count]
  OBVIOUS
<1>1. WithLiterals(table, n, count) = [table EXCEPT ![n] = changed]
  BY DEF WithLiterals
<1>2. table[n] \in ParseNodes
  BY Zenon DEF NodeTables
<1>3. changed.match = table[n].match /\ changed.value = table[n].value /\ changed.literals = count
  BY <1>2 DEF ParseNodes
<1>4. count \in Int => changed \in ParseNodes
  BY <1>2, Zenon DEF ParseNodes
<1>5. count \in Int => [table EXCEPT ![n] = changed] \in NodeTables
  BY <1>4, Zenon DEF NodeTables
<1>6. [table EXCEPT ![n] = changed][n] = changed
  BY Zenon DEF NodeTables
<1>7. \A j \in Slots : j # n => [table EXCEPT ![n] = changed][j] = table[j]
  BY Zenon DEF NodeTables
<1> QED
  BY <1>1, <1>3, <1>5, <1>6, <1>7, Zenon

LEMMA BackNext ==
  ASSUME NEW table, NEW from, NEW last, NEW to, NEW final, BackIs(table, from, last, to, final),
         parseAnchor <= parsePosition,
         nodes' = table, storeStart' = from, stretchAt' = last, current' = to, parseRepeats' = final,
         UNCHANGED <<parseText, parsePosition, parseAnchor, decoder>>
  PROVE  BackInv'
<1> PICK given : given = WithLiterals(table, from, table[last].literals)
  OBVIOUS
<1> PICK start : start = parsePosition + last - table[last].literals
  OBVIOUS
<1> PICK offsets : offsets = table[last].repeats
  OBVIOUS
<1>1. /\ from \in last + 2..to + 2 /\ to <= ParseLongest
      /\ \A i \in 0..last : IsSettled(table, i)
      /\ IsChain(given, from, to + 2, start, offsets, final)
  BY Zenon DEF BackIs
<1>2. IsChain(given, from, to + 2, start, offsets, final)'
  BY <1>1, ChainNext
<1>3. \A i \in 0..last : IsSettled(nodes, i)'
  BY <1>1, SettledNext
<1>4. /\ WithLiterals(nodes, storeStart, nodes[stretchAt].literals)' = given
      /\ (parsePosition + stretchAt - nodes[stretchAt].literals)' = start
      /\ (nodes[stretchAt].repeats)' = offsets
  OBVIOUS
<1>5. BackIs(nodes, storeStart, stretchAt, current, parseRepeats)'
  BY <1>1, <1>2, <1>3, <1>4, Zenon DEF BackIs
<1> QED
  BY <1>5 DEF BackInv

LEMMA ChainOfStretch ==
  ASSUME NEW table, NEW node, NEW i \in Int, IsReached(table, node, i), parsePosition \in Nat,
         NEW b, b = StretchBegin(node, i), table[b].literals \in Nat, table[b].repeats \in Offsets,
         NEW final \in Offsets, final = HeldBehind(table, node, i),
         NEW given, NEW n \in Int, given[n].match = node.match, given[n].value = node.value,
         given[n].literals = table[b].literals
  PROVE  IsChain(given, n, n, parsePosition + b - table[b].literals, table[b].repeats, final)
<1> PICK sequence : sequence = given[n]
  OBVIOUS
<1> PICK start : start = parsePosition + b - table[b].literals
  OBVIOUS
<1>1. /\ sequence.match = node.match /\ sequence.value = node.value
      /\ sequence.literals = table[b].literals
  OBVIOUS
<1>2. IsSequence(sequence, start, table[b].repeats) /\ start \in Int
  BY <1>1, StretchIsSequence
<1>3. GetOffset(table[b].repeats, sequence.value, sequence.literals = 0) = HeldBehind(table, node, i)
  BY <1>1, StretchIsSequence
<1>4. /\ IsSequence(given[n], start, table[b].repeats)
      /\ final = GetOffset(table[b].repeats, given[n].value, given[n].literals = 0)
  BY <1>2, <1>3, Zenon
<1>5. IsChain(given, n, n, start, table[b].repeats, final)
  BY <1>2, <1>4, ChainOfOne
<1> QED
  BY <1>5

\* The way back begins: the last stretch is the last sequence.
LEMMA BackBegins ==
  ASSUME PassStarts, NEW table \in NodeTables, NEW stretch \in ParseNodes,
         NEW last \in Nat, IsReached(table, stretch, last),
         NEW b, b = StretchBegin(stretch, last), b <= ParseLongest,
         \A i \in 0..b : IsSettled(table, i),
         NEW n, n = b + 2, NEW other, other = WithNode(table, n, stretch)
  PROVE  /\ other \in NodeTables
         /\ HeldBehind(table, stretch, last) \in Offsets
         /\ BackIs(other, n, b, b, HeldBehind(table, stretch, last))
<1>1. b \in Nat /\ n \in Int /\ n \in Slots /\ b \in 0..b /\ n \in b + 2..b + 2
  BY BeginIsBefore, ParseSizes DEF Slots
<1>2. IsSettled(table, b)
  BY <1>1
<1>3. table[b].literals \in Nat /\ table[b].repeats \in Offsets
  BY <1>2, Zenon DEF IsSettled
<1>4. other \in NodeTables /\ other[n] = stretch
      /\ \A j \in Slots : j # n => other[j] = table[j]
  <2>1. n \in Slots
    BY <1>1
  <2>2. /\ WithNode(table, n, stretch) \in NodeTables
        /\ WithNode(table, n, stretch)[n] = stretch
        /\ \A j \in Slots : j # n => WithNode(table, n, stretch)[j] = table[j]
    BY <2>1, WithNodeIs
  <2> QED
    BY <2>2, Zenon
<1>5. \A j \in 0..b : j # n
  BY <1>1
<1>6. \A j \in Slots : j # n => other[j] = table[j]
  BY <1>4
<1>7. \A j \in 0..b : j \in Slots
  BY <1>1, ParseSizes DEF Slots
<1>8. \A j \in 0..b : other[j] = table[j]
  BY <1>5, <1>6, <1>7
<1>9. \A i \in 0..b : IsSettled(other, i)
  <2> TAKE i \in 0..b
  <2>1. i \in Nat /\ \A j \in 0..i : j \in 0..b
    BY <1>1
  <2>2. \A j \in 0..i : other[j] = table[j]
    BY <1>8, <2>1
  <2> QED
    BY <2>1, <2>2, SettledStays
<1>10. HeldBehind(table, stretch, last) \in Offsets
  <2>1. table[StretchBegin(stretch, last)].repeats \in Offsets /\ last \in Int
    BY <1>3
  <2> QED
    BY <2>1, HeldIsOffsets
<1> PICK final \in Offsets : final = HeldBehind(table, stretch, last)
  BY <1>10
<1> PICK literals : literals = other[b].literals
  OBVIOUS
<1> PICK given : given = WithLiterals(other, n, literals)
  OBVIOUS
<1>11. other[b] = table[b]
  BY <1>1, <1>8
<1>12. literals = table[b].literals
  BY <1>11, Zenon
<1>13. given[n].match = stretch.match /\ given[n].value = stretch.value /\ given[n].literals = literals
  BY <1>1, <1>4, WithLiteralsIs
<1>14. IsChain(given, n, n, parsePosition + b - table[b].literals, table[b].repeats, final)
  <2>1. last \in Int /\ parsePosition \in Nat
    BY DEF PassStarts
  <2>2. /\ given[n].match = stretch.match /\ given[n].value = stretch.value
        /\ given[n].literals = table[b].literals
    BY <1>12, <1>13, Zenon
  <2> QED
    BY <1>1, <1>3, <2>1, <2>2, ChainOfStretch
<1>15. BackIs(other, n, b, b, final)
  BY <1>1, <1>9, <1>11, <1>14, Zenon DEF BackIs
<1> QED
  BY <1>4, <1>10, <1>15

\* Between two passes only the anchor, the position and the offsets count.
LEMMA NextPassStarts ==
  ASSUME ParseTypeOK, NextPass, parsePosition' \in Nat, parsePosition' <= End,
         parseAnchor' \in Nat, parseAnchor' <= parsePosition',
         decoder' \in Offsets, parseRepeats' = decoder', parseText' = parseText, faithful' = TRUE
  PROVE  ParseInv'
<1>1. /\ parsePhase' = "parse" /\ nodes' = StaleNodes /\ current' = 0 /\ lastPosition' = 0
      /\ lastStretch' = StaleNode /\ storeStart' = 0 /\ stretchAt' = 0
  BY Zenon DEF NextPass
<1>2. StaleNodes \in [0..NodeCount - 1 -> ParseNodes] /\ StaleNode \in ParseNodes
  BY StaleIs
<1>3. ParseTypeOK'
  BY <1>1, <1>2 DEF ParseTypeOK
<1>4. End \in Nat /\ End' = End
  BY ParseAssumption DEF ParseTypeOK, End
<1>5. PassStarts'
  BY <1>4 DEF PassStarts
<1> QED
  BY <1>1, <1>3, <1>4, <1>5 DEF ParseInv

LEMMA BeginStoreKeeps == ASSUME ParseInv, BeginStore PROVE ParseInv'
<1>1. /\ parsePhase = "store"
      /\ UNCHANGED <<parseText, parseAnchor, decoder, faithful>>
  BY DEF BeginStore
<1>2. ParseTypeOK /\ PassStarts /\ StoreInv
  BY <1>1 DEF ParseInv
<1>3. CASE lastStretch.match = 0
  <2>1. parsePosition' = parsePosition + lastPosition /\ NextPass /\ UNCHANGED parseRepeats
    BY <1>3, Zenon DEF BeginStore
  <2>2. parsePosition + lastPosition <= End
    BY <1>2 DEF StoreInv
  <2>3. /\ parsePosition' \in Nat /\ parsePosition' <= End
        /\ parseAnchor' \in Nat /\ parseAnchor' <= parsePosition'
        /\ decoder' \in Offsets /\ parseRepeats' = decoder'
        /\ parseText' = parseText /\ faithful' = TRUE
    BY <1>1, <1>2, <2>1, <2>2 DEF PassStarts, ParseTypeOK
  <2> QED
    BY <1>2, <2>1, <2>3, NextPassStarts
<1>4. CASE lastStretch.match # 0
  <2> PICK table : table = nodes
    OBVIOUS
  <2> PICK stretch : stretch = lastStretch
    OBVIOUS
  <2> PICK last : last = lastPosition
    OBVIOUS
  <2> PICK b : b = PathEnd
    OBVIOUS
  <2> PICK n : n = b + 2
    OBVIOUS
  <2> PICK other : other = WithNode(table, n, stretch)
    OBVIOUS
  <2> PICK final : final = HeldBehind(table, stretch, last)
    OBVIOUS
  <2>1. /\ parseRepeats' = IF stretch.literals = 0
                           THEN GetUpdatedRepeats(table[current].repeats, stretch.value,
                                                  table[current].literals = 0)
                           ELSE stretch.repeats
        /\ current' = b /\ nodes' = [table EXCEPT ![n] = stretch]
        /\ storeStart' = n /\ stretchAt' = b /\ parsePhase' = "back"
        /\ UNCHANGED <<parsePosition, lastPosition, lastStretch>>
    BY <1>4, Zenon DEF BeginStore
  <2>2. nodes' = other
    BY <2>1, Zenon DEF WithNode
  <2>3. /\ IsReached(table, stretch, last)
        /\ current = last - stretch.match /\ current <= ParseLongest
        /\ \A i \in 0..b : IsSettled(table, i)
        /\ stretch.literals # 0 => stretch.repeats = final
    BY <1>2, <1>4, Zenon DEF StoreInv
  <2>4. /\ table \in NodeTables /\ stretch \in ParseNodes /\ last \in Nat /\ current \in Nat
    BY <1>2, Zenon DEF ParseTypeOK, NodeTables, Slots
  <2>5. stretch.literals \in Nat /\ stretch.match \in Nat \ {0} /\ stretch.value \in Nat \ {0}
    BY <2>3 DEF IsReached
  <2>6. b = current - stretch.literals
    BY Zenon DEF PathEnd
  <2>7. b = StretchBegin(stretch, last) /\ b <= ParseLongest
    BY <2>3, <2>4, <2>5, <2>6, ParseSizes DEF StretchBegin
  <2>8. /\ other \in NodeTables /\ final \in Offsets /\ BackIs(other, n, b, b, final)
    BY <1>2, <2>3, <2>4, <2>7, BackBegins
  <2>9. parseRepeats' = final
    <3>1. CASE stretch.literals # 0
      BY <2>1, <2>3, <3>1, Zenon
    <3>2. CASE stretch.literals = 0
      <4>1. current = b
        BY <2>4, <2>6, <3>2
      <4>2. final = GetOffset(table[b].repeats, stretch.value, table[b].literals = 0)
        BY <2>7, Zenon DEF HeldBehind
      <4>3. b \in Nat /\ table[b].repeats \in Offsets
        <5>1. b \in Nat /\ b \in 0..b
          BY <2>4, <4>1
        <5>2. IsSettled(table, b)
          BY <2>3, <5>1
        <5> QED
          BY <5>1, <5>2, Zenon DEF IsSettled
      <4>4. (table[b].literals = 0) \in BOOLEAN
        OBVIOUS
      <4>5. final = GetUpdatedRepeats(table[b].repeats, stretch.value, table[b].literals = 0)
        BY <2>5, <4>2, <4>3, <4>4, UpdatedIsHeld, Zenon
      <4> QED
        BY <2>1, <3>2, <4>1, <4>5, Zenon
    <3> QED
      BY <3>1, <3>2
  <2>10. BackInv'
    <3>1. parseAnchor <= parsePosition
      BY <1>2 DEF PassStarts
    <3>2. UNCHANGED <<parseText, parsePosition, parseAnchor, decoder>>
      BY <1>1, <2>1
    <3> QED
      BY <2>1, <2>2, <2>8, <2>9, <3>1, <3>2, BackNext
  <2>11. ParseTypeOK'
    <3>1. n \in Nat /\ b \in Nat
      BY <2>3, <2>7, BeginIsBefore, <2>4
    <3>2. nodes' \in [0..NodeCount - 1 -> ParseNodes]
      BY <2>2, <2>8, Zenon DEF NodeTables, Slots
    <3> QED
      BY <1>1, <1>2, <2>1, <2>8, <2>9, <3>1, <3>2 DEF ParseTypeOK
  <2>12. (parsePosition <= End)'
    BY <1>1, <1>2, <2>1 DEF PassStarts, End
  <2> QED
    BY <2>1, <2>10, <2>11, <2>12 DEF ParseInv
<1> QED
  BY <1>3, <1>4

LEMMA WriteNext ==
  ASSUME NEW table, NEW from, NEW to, NEW final, from \in 1..to + 2, to <= ParseLongest,
         NEW offsets, NEW start, IsChain(table, from, to + 2, start, offsets, final),
         nodes' = table, storeStart' = from, current' = to, parseRepeats' = final,
         decoder' = offsets, parseAnchor' = start, parseText' = parseText
  PROVE  WriteInv'
<1>1. IsChain(table, from, to + 2, start, offsets, final)'
  BY ChainNext
<1> QED
  BY <1>1, Zenon DEF WriteInv

LEMMA ChainOfStretchGrows ==
  ASSUME NEW table, NEW node, NEW i \in Int, IsReached(table, node, i), parsePosition \in Nat,
         NEW b, b = StretchBegin(node, i), table[b].literals \in Nat, table[b].repeats \in Offsets,
         NEW start \in Int, start = parsePosition + i - node.literals,
         NEW offsets \in Offsets, offsets = HeldBehind(table, node, i), NEW final,
         NEW given, NEW n \in Int, NEW from \in Int, from = n + 1, NEW to \in Int, from <= to,
         IsChain(given, from, to, start, offsets, final),
         given[n].match = node.match, given[n].value = node.value, given[n].literals = table[b].literals
  PROVE  IsChain(given, n, to, parsePosition + b - table[b].literals, table[b].repeats, final)
<1> PICK sequence : sequence = given[n]
  OBVIOUS
<1> PICK begin : begin = parsePosition + b - table[b].literals
  OBVIOUS
<1> PICK before \in Offsets : before = table[b].repeats
  OBVIOUS
<1>1. /\ sequence.match = node.match /\ sequence.value = node.value
      /\ sequence.literals = table[b].literals
  OBVIOUS
<1>2. /\ IsSequence(sequence, begin, table[b].repeats) /\ begin \in Int
      /\ begin + sequence.literals + sequence.match = parsePosition + i - node.literals
  BY <1>1, StretchIsSequence
<1>3. GetOffset(table[b].repeats, sequence.value, sequence.literals = 0) = HeldBehind(table, node, i)
  BY <1>1, StretchIsSequence
<1>4. /\ IsSequence(given[n], begin, before)
      /\ start = begin + given[n].literals + given[n].match
      /\ offsets = GetOffset(before, given[n].value, given[n].literals = 0)
  BY <1>2, <1>3, Zenon
<1>5. IsChain(given, n, to, begin, before, final)
  BY <1>2, <1>4, ChainGrows
<1> QED
  BY <1>5, Zenon

\* One step back: the stretch in front becomes the first sequence.
LEMMA BackGoesOn ==
  ASSUME parsePosition \in Nat, NEW table \in NodeTables, NEW from \in Int, NEW last \in Nat,
         NEW to \in Nat, NEW final, BackIs(table, from, last, to, final),
         NEW stretch, stretch = table[last], stretch.match # 0,
         NEW given, given = WithLiterals(table, from, stretch.literals),
         NEW h \in Int, from = h + 1, NEW other, other = WithNode(given, h, stretch),
         NEW b, b = StretchBegin(stretch, last)
  PROVE  other \in NodeTables /\ b \in Nat /\ h \in Nat /\ BackIs(other, h, b, to, final)
<1> PICK start : start = parsePosition + last - stretch.literals
  OBVIOUS
<1> PICK offsets : offsets = stretch.repeats
  OBVIOUS
<1> PICK end : end = to + 2
  OBVIOUS
<1>1. /\ from \in last + 2..end /\ to <= ParseLongest
      /\ \A i \in 0..last : IsSettled(table, i)
      /\ IsChain(given, from, end, start, offsets, final)
  BY Zenon DEF BackIs
<1>2. IsSettled(table, last)
  BY <1>1
<1>3. IsReached(table, stretch, last) /\ offsets = HeldBehind(table, stretch, last) /\ offsets \in Offsets
  BY <1>2, Zenon DEF IsSettled
<1>4. b \in 0..last - 1
  BY <1>3, BeginIsBefore
<1>5. /\ b \in Nat /\ h \in Nat /\ h \in Slots /\ from \in Slots /\ last \in Slots /\ from <= end
      /\ end \in Int /\ h \in b + 2..to + 2 /\ h # from
  BY <1>1, <1>4, ParseSizes DEF Slots
<1>6. stretch \in ParseNodes /\ stretch.literals \in Int
  <2>1. stretch \in ParseNodes
    BY <1>5, Zenon DEF NodeTables
  <2> QED
    BY <2>1 DEF ParseNodes
<1>7. given \in NodeTables /\ \A j \in Slots : j # from => given[j] = table[j]
  <2> PICK count \in Int : count = stretch.literals
    BY <1>6
  <2>1. from \in Slots
    BY <1>5
  <2>2. WithLiterals(table, from, count) \in NodeTables
    BY <2>1, WithLiteralsIs
  <2>3. \A j \in Slots : j # from => WithLiterals(table, from, count)[j] = table[j]
    BY <2>1, WithLiteralsIs
  <2> QED
    BY <2>2, <2>3, Zenon
<1>8. /\ other \in NodeTables /\ other[h] = stretch
      /\ \A j \in Slots : j # h => other[j] = given[j]
  <2>1. /\ WithNode(given, h, stretch) \in NodeTables /\ WithNode(given, h, stretch)[h] = stretch
        /\ \A j \in Slots : j # h => WithNode(given, h, stretch)[j] = given[j]
    BY <1>5, <1>6, <1>7, WithNodeIs
  <2> QED
    BY <2>1, Zenon
<1>9. \A j \in 0..b : j \in Slots /\ j # from /\ j # h
  BY <1>1, <1>4, <1>5, ParseSizes DEF Slots
<1>10. \A j \in 0..b : other[j] = table[j]
  BY <1>7, <1>8, <1>9
<1>11. \A i \in 0..b : IsSettled(other, i)
  <2> TAKE i \in 0..b
  <2>1. i \in Nat /\ i \in 0..last /\ \A j \in 0..i : j \in 0..b
    BY <1>4
  <2>2. IsSettled(table, i) /\ \A j \in 0..i : other[j] = table[j]
    BY <1>1, <1>10, <2>1
  <2> QED
    BY <2>1, <2>2, SettledStays
<1>12. IsSettled(table, b) /\ other[b] = table[b]
  BY <1>1, <1>4, <1>10
<1>13. table[b].literals \in Nat /\ table[b].repeats \in Offsets
  BY <1>12, Zenon DEF IsSettled
<1> PICK chained : chained = WithLiterals(other, h, table[b].literals)
  OBVIOUS
<1>14. /\ chained[h].match = stretch.match /\ chained[h].value = stretch.value
       /\ chained[h].literals = table[b].literals
       /\ \A j \in Slots : j # h => chained[j] = other[j]
  <2> PICK count : count = table[b].literals
    OBVIOUS
  <2>1. /\ WithLiterals(other, h, count)[h].match = other[h].match
        /\ WithLiterals(other, h, count)[h].value = other[h].value
        /\ WithLiterals(other, h, count)[h].literals = count
        /\ \A j \in Slots : j # h => WithLiterals(other, h, count)[j] = other[j]
    BY <1>5, <1>8, WithLiteralsIs
  <2> QED
    BY <1>8, <2>1, Zenon
<1>15. IsChain(chained, from, end, start, offsets, final)
  <2>1. \A j \in from..end : j \in Slots /\ j # h
    BY <1>1, <1>5, ParseSizes DEF Slots
  <2>2. \A j \in from..end : chained[j] = given[j]
    BY <1>8, <1>14, <2>1
  <2> QED
    BY <1>1, <2>2, ChainStays
<1>16. start \in Int
  BY <1>6
<1>17. IsChain(chained, h, end, parsePosition + b - table[b].literals, table[b].repeats, final)
  <2>1. h \in Int /\ from \in Int /\ from = h + 1 /\ end \in Int /\ from <= end /\ last \in Int
    BY <1>5
  <2> QED
    BY <1>3, <1>13, <1>14, <1>15, <1>16, <2>1, ChainOfStretchGrows
<1>18. BackIs(other, h, b, to, final)
  BY <1>1, <1>5, <1>11, <1>12, <1>17, Zenon DEF BackIs
<1> QED
  BY <1>5, <1>8, <1>18

LEMMA StepBackKeeps == ASSUME ParseInv, StepBack PROVE ParseInv'
<1> PICK table : table = nodes
  OBVIOUS
<1> PICK from : from = storeStart
  OBVIOUS
<1> PICK last : last = stretchAt
  OBVIOUS
<1> PICK to : to = current
  OBVIOUS
<1> PICK final : final = parseRepeats
  OBVIOUS
<1> PICK stretch : stretch = table[last]
  OBVIOUS
<1> PICK given : given = WithLiterals(table, from, stretch.literals)
  OBVIOUS
<1>1. /\ parsePhase = "back"
      /\ IF stretch.match = 0
         THEN nodes' = given /\ parsePhase' = "write" /\ UNCHANGED <<storeStart, stretchAt>>
         ELSE /\ nodes' = [given EXCEPT ![from - 1] = stretch]
              /\ storeStart' = from - 1
              /\ stretchAt' = last - (stretch.literals + stretch.match)
              /\ UNCHANGED parsePhase
      /\ UNCHANGED <<parseText, parsePosition, parseAnchor, parseRepeats, current, lastPosition,
                     lastStretch, decoder, faithful>>
  BY Zenon DEF StepBack, WithLiterals
<1>2. ParseTypeOK /\ BackInv /\ parsePosition <= End
  BY <1>1 DEF ParseInv
<1>3. BackIs(table, from, last, to, final) /\ parseAnchor <= parsePosition
  BY <1>2, Zenon DEF BackInv
<1>4. /\ table \in NodeTables /\ from \in Nat /\ last \in Nat /\ to \in Nat /\ parsePosition \in Nat
      /\ parseAnchor \in Nat
  BY <1>2, Zenon DEF ParseTypeOK, NodeTables, Slots
<1>5. /\ from \in last + 2..to + 2 /\ to <= ParseLongest
      /\ \A i \in 0..last : IsSettled(table, i)
      /\ IsChain(given, from, to + 2, parsePosition + last - stretch.literals, stretch.repeats, final)
  BY <1>3, Zenon DEF BackIs
<1>6. from \in Slots /\ last \in Slots /\ last \in 0..last /\ from \in 1..to + 2
  BY <1>4, <1>5, ParseSizes DEF Slots
<1>7. IsSettled(table, last) /\ stretch.literals \in Int
  <2>1. stretch.literals \in Nat
    BY <1>5, <1>6, Zenon DEF IsSettled
  <2> QED
    BY <1>5, <1>6, <2>1
<1>8. given \in NodeTables
  <2> PICK count \in Int : count = stretch.literals
    BY <1>7
  <2>1. WithLiterals(table, from, count) \in NodeTables
    BY <1>4, <1>6, WithLiteralsIs
  <2> QED
    BY <2>1, Zenon
<1>9. ASSUME NEW other \in NodeTables, nodes' = other, storeStart' \in Nat, stretchAt' \in Nat,
             parsePhase' \in {"back", "write"}
      PROVE  ParseTypeOK' /\ (parsePosition <= End)'
  <2>1. other \in [0..NodeCount - 1 -> ParseNodes]
    BY Zenon DEF NodeTables, Slots
  <2>2. (parsePosition <= End)'
    BY <1>1, <1>2 DEF End
  <2> QED
    BY <1>1, <1>2, <1>9, <2>1, <2>2 DEF ParseTypeOK
<1>10. CASE stretch.match = 0
  <2>1. nodes' = given /\ parsePhase' = "write" /\ storeStart' = from /\ stretchAt' = last
    BY <1>1, <1>10, Zenon
  <2>2. stretch.literals = last + (parsePosition - parseAnchor) /\ stretch.repeats = decoder
    BY <1>7, <1>10, Zenon DEF IsSettled
  <2>3. parsePosition + last - stretch.literals = parseAnchor
    BY <1>4, <2>2
  <2>4. IsChain(given, from, to + 2, parseAnchor, decoder, final)
    BY <1>5, <2>2, <2>3, Zenon
  <2>5. PICK offsets : offsets = decoder
    OBVIOUS
  <2>6. PICK start : start = parseAnchor
    OBVIOUS
  <2>7. IsChain(given, from, to + 2, start, offsets, final)
    BY <2>4, <2>5, <2>6
  <2>8. WriteInv'
    BY <1>1, <1>5, <1>6, <2>1, <2>5, <2>6, <2>7, WriteNext
  <2> QED
    BY <1>4, <1>8, <1>9, <2>1, <2>8 DEF ParseInv
<1>11. CASE stretch.match # 0
  <2> PICK h : h = from - 1
    OBVIOUS
  <2> PICK other : other = WithNode(given, h, stretch)
    OBVIOUS
  <2> PICK b : b = StretchBegin(stretch, last)
    OBVIOUS
  <2>1. /\ nodes' = other /\ storeStart' = h
        /\ stretchAt' = last - (stretch.literals + stretch.match) /\ parsePhase' = "back"
    BY <1>1, <1>11, Zenon DEF WithNode
  <2>2. h \in Int /\ from = h + 1 /\ from \in Int
    BY <1>4
  <2>3. other \in NodeTables /\ b \in Nat /\ h \in Nat /\ BackIs(other, h, b, to, final)
    BY <1>3, <1>4, <1>11, <2>2, BackGoesOn
  <2>4. stretchAt' = b
    <3>1. stretch.match \in Nat
      <4>1. IsReached(table, stretch, last)
        BY <1>7, <1>11, Zenon DEF IsSettled
      <4> QED
        BY <4>1 DEF IsReached
    <3> QED
      BY <1>4, <1>7, <2>1, <3>1 DEF StretchBegin
  <2>5. BackInv'
    BY <1>1, <1>3, <2>1, <2>3, <2>4, BackNext
  <2> QED
    BY <1>9, <2>1, <2>3, <2>4, <2>5 DEF ParseInv
<1> QED
  BY <1>10, <1>11

LEMMA StoreSequenceKeeps == ASSUME ParseInv, StoreSequenceOf PROVE ParseInv'
<1> PICK table : table = nodes
  OBVIOUS
<1> PICK from : from = storeStart
  OBVIOUS
<1> PICK to : to = current
  OBVIOUS
<1> PICK final : final = parseRepeats
  OBVIOUS
<1> PICK node : node = table[from]
  OBVIOUS
<1> PICK start : start = parseAnchor
  OBVIOUS
<1> PICK offsets : offsets = decoder
  OBVIOUS
<1> PICK after : after = GetOffset(offsets, node.value, node.literals = 0)
  OBVIOUS
<1> PICK behind : behind = start + node.literals + node.match
  OBVIOUS
<1>1. /\ parsePhase = "write"
      /\ parseAnchor' = behind /\ parsePosition' = parseAnchor'
      /\ decoder' = after
      /\ faithful' = (faithful /\ Copies(start + node.literals, node.match, after.first))
      /\ IF from = to + 2 THEN NextPass
         ELSE /\ storeStart' = from + 1
              /\ UNCHANGED <<nodes, current, lastPosition, lastStretch, stretchAt, parsePhase>>
      /\ UNCHANGED <<parseText, parseRepeats>>
  BY Zenon DEF StoreSequenceOf
<1>2. ParseTypeOK /\ WriteInv
  BY <1>1 DEF ParseInv
<1>3. /\ from \in 1..to + 2 /\ to <= ParseLongest
      /\ IsChain(table, from, to + 2, start, offsets, final)
  BY <1>2, Zenon DEF WriteInv
<1>4. to \in Nat /\ from \in Nat /\ start \in Nat /\ faithful = TRUE
  BY <1>2, Zenon DEF ParseTypeOK
<1>5. PICK end \in Int : end = to + 2
  BY <1>4
<1>6. PICK h : h = from + 1
  OBVIOUS
<1>7. /\ IsSequence(node, start, offsets) /\ after \in Offsets
      /\ from = end => final = after
      /\ from < end => IsChain(table, h, end, behind, after, final)
  <2>1. from \in Int /\ from <= end /\ IsChain(table, from, end, start, offsets, final)
    BY <1>3, <1>4, <1>5
  <2>2. behind = start + table[from].literals + table[from].match
    BY Zenon
  <2>3. after = GetOffset(offsets, table[from].value, table[from].literals = 0)
    BY Zenon
  <2>4. /\ IsSequence(table[from], start, offsets) /\ after \in Offsets
        /\ from = end => final = after
        /\ from < end => IsChain(table, h, end, behind, after, final)
    BY <1>6, <2>1, <2>2, <2>3, ChainBegins
  <2> QED
    BY <2>4, Zenon
<1>8. /\ node.literals \in Nat /\ node.match \in Nat \ {0}
      /\ Copies(start + node.literals, node.match, after.first)
  BY <1>7, Zenon DEF IsSequence
<1>9. start + node.literals + node.match <= End
  BY <1>8, Zenon DEF Copies
<1>10. behind \in Nat /\ behind <= End
  BY <1>4, <1>8, <1>9
<1>11. faithful' = TRUE
  BY <1>1, <1>4, <1>8, Zenon
<1>12. CASE from = to + 2
  <2>1. NextPass
    BY <1>1, <1>12, Zenon
  <2>2. final = after
    BY <1>5, <1>7, <1>12
  <2>3. /\ parsePosition' \in Nat /\ parsePosition' <= End
        /\ parseAnchor' \in Nat /\ parseAnchor' <= parsePosition'
        /\ decoder' \in Offsets /\ parseRepeats' = decoder' /\ parseText' = parseText
    BY <1>1, <1>7, <1>10, <2>2
  <2> QED
    BY <1>2, <1>11, <2>1, <2>3, NextPassStarts
<1>13. CASE from # to + 2
  <2>1. /\ storeStart' = h
        /\ UNCHANGED <<nodes, current, lastPosition, lastStretch, stretchAt, parsePhase>>
    BY <1>1, <1>6, <1>13, Zenon
  <2>2. h \in 1..to + 2 /\ from < end
    BY <1>3, <1>4, <1>5, <1>6, <1>13
  <2>3. IsChain(table, h, to + 2, behind, after, final)
    BY <1>5, <1>7, <2>2
  <2>4. nodes' = table /\ current' = to /\ parseRepeats' = final
    BY <1>1, <2>1
  <2>5. WriteInv'
    BY <1>1, <1>3, <2>1, <2>2, <2>3, <2>4, WriteNext
  <2>6. (parsePosition <= End)'
    BY <1>1, <1>10 DEF End
  <2>7. h \in Nat
    BY <1>4, <1>6
  <2>8. ParseTypeOK'
    BY <1>1, <1>2, <1>7, <1>10, <1>11, <2>1, <2>7 DEF ParseTypeOK
  <2> QED
    BY <1>1, <2>1, <2>5, <2>6, <2>8 DEF ParseInv
<1> QED
  BY <1>12, <1>13

LEMMA ParseStays == ASSUME ParseInv, UNCHANGED parseVars PROVE ParseInv'
<1>1. UNCHANGED <<parseText, parsePosition, parseAnchor, parseRepeats, nodes, current, lastPosition,
                  lastStretch, storeStart, stretchAt, parsePhase, decoder, faithful>>
  BY Zenon DEF parseVars
<1>2. ParseTypeOK'
  BY <1>1 DEF ParseInv, ParseTypeOK
<1>3. (parsePosition <= End)'
  BY <1>1 DEF ParseInv, End
<1>4. ASSUME parsePhase \in {"parse", "forward", "store"} PROVE PassStarts'
  BY <1>1, <1>4, StartsNext DEF ParseInv
<1> PICK table : table = nodes
  OBVIOUS
<1>5. ASSUME parsePhase = "forward" PROVE ForwardInv'
  <2>1. ForwardInv
    BY <1>5, Zenon DEF ParseInv
  <2> PICK last : last = lastPosition
    OBVIOUS
  <2> PICK n : n = current
    OBVIOUS
  <2>2. PassIs(table, last, n) /\ n \in 1..last + 1
    BY <2>1, Zenon DEF ForwardInv
  <2> QED
    BY <1>1, <2>2, PassNext
<1>6. ASSUME parsePhase = "store" PROVE StoreInv'
  <2>1. StoreInv /\ ParseTypeOK
    BY <1>6, Zenon DEF ParseInv
  <2> PICK last : last = lastPosition
    OBVIOUS
  <2> PICK c : c = current
    OBVIOUS
  <2> PICK stretch : stretch = lastStretch
    OBVIOUS
  <2>2. /\ stretch \in ParseNodes /\ last \in Nat /\ c \in Nat /\ parsePosition + last <= End
    BY <2>1, Zenon DEF ParseTypeOK, StoreInv
  <2>3. stretch.match # 0 =>
          /\ IsReached(table, stretch, last) /\ c = last - stretch.match /\ c <= ParseLongest
          /\ \A i \in 0..PathEnd : IsSettled(table, i)
          /\ stretch.literals # 0 =>
               stretch.repeats \in Offsets /\ stretch.repeats = HeldBehind(table, stretch, last)
    BY <2>1, Zenon DEF StoreInv
  <2>4. ASSUME stretch.match # 0 PROVE PathEnd = StretchBegin(stretch, last)
    <3>1. PathEnd = c - stretch.literals
      BY Zenon DEF PathEnd
    <3>2. stretch.literals \in Nat /\ stretch.match \in Nat
      BY <2>3, <2>4 DEF IsReached
    <3> QED
      BY <2>2, <2>3, <2>4, <3>1, <3>2 DEF StretchBegin
  <2>5. stretch.match # 0 =>
          /\ IsReached(table, stretch, last) /\ c = last - stretch.match /\ c <= ParseLongest
          /\ \A i \in 0..StretchBegin(stretch, last) : IsSettled(table, i)
          /\ stretch.literals # 0 =>
               stretch.repeats \in Offsets /\ stretch.repeats = HeldBehind(table, stretch, last)
    BY <2>3, <2>4, Zenon
  <2> QED
    BY <1>1, <2>2, <2>5, StoreNext
<1>7. ASSUME parsePhase = "back" PROVE BackInv'
  <2>1. BackInv
    BY <1>7, Zenon DEF ParseInv
  <2> PICK from : from = storeStart
    OBVIOUS
  <2> PICK last : last = stretchAt
    OBVIOUS
  <2> PICK to : to = current
    OBVIOUS
  <2> PICK final : final = parseRepeats
    OBVIOUS
  <2>2. BackIs(table, from, last, to, final) /\ parseAnchor <= parsePosition
    BY <2>1, Zenon DEF BackInv
  <2> QED
    BY <1>1, <2>2, BackNext
<1>8. ASSUME parsePhase = "write" PROVE WriteInv'
  <2>1. WriteInv
    BY <1>8, Zenon DEF ParseInv
  <2> PICK from : from = storeStart
    OBVIOUS
  <2> PICK to : to = current
    OBVIOUS
  <2> PICK final : final = parseRepeats
    OBVIOUS
  <2> PICK start : start = parseAnchor
    OBVIOUS
  <2> PICK offsets : offsets = decoder
    OBVIOUS
  <2>2. from \in 1..to + 2 /\ to <= ParseLongest /\ IsChain(table, from, to + 2, start, offsets, final)
    BY <2>1, Zenon DEF WriteInv
  <2> QED
    BY <1>1, <2>2, WriteNext
<1> QED
  BY <1>1, <1>2, <1>3, <1>4, <1>5, <1>6, <1>7, <1>8 DEF ParseInv

LEMMA ParseStep == ASSUME ParseInv, ParseNext \/ UNCHANGED parseVars PROVE ParseInv'
  BY BeginPassKeeps, ForwardStepKeeps, BeginStoreKeeps, StepBackKeeps, StoreSequenceKeeps,
     ParseStays DEF ParseNext, ParseOver

LEMMA ParseIs == ASSUME ParseInv PROVE ParseIsFaithful
<1>1. /\ ParseTypeOK /\ parsePosition <= End
      /\ parsePhase \in {"parse", "forward", "store"} => PassStarts
      /\ parsePhase = "forward" => ForwardInv
      /\ parsePhase = "back" => BackInv
      /\ parsePhase = "write" => WriteInv
  BY Zenon DEF ParseInv
<1>2. faithful = TRUE /\ current \in Nat /\ stretchAt \in Nat /\ storeStart \in Nat
  BY <1>1, Zenon DEF ParseTypeOK
<1>3. parsePhase = "parse" => decoder = parseRepeats /\ parseAnchor <= parsePosition
  BY <1>1 DEF PassStarts
<1>4. ASSUME parsePhase = "forward" PROVE current + 1 < NodeCount /\ lastPosition + 1 < NodeCount
  <2>1. current \in 1..lastPosition + 1 /\ lastPosition \in Nat /\ lastPosition <= ParseLongest
    <3>1. PassIs(nodes, lastPosition, current) /\ current \in 1..lastPosition + 1
      BY <1>1, <1>4, Zenon DEF ForwardInv
    <3>2. lastPosition \in Nat /\ (lastPosition < ParseLongest \/ lastPosition = ParseLongest)
      BY <3>1, Zenon DEF PassIs
    <3> QED
      BY <3>1, <3>2, ParseSizes
  <2> QED
    BY <2>1, ParseSizes
<1>5. ASSUME parsePhase = "back"
      PROVE  /\ storeStart \in 1..current + 2 /\ current + 2 < NodeCount /\ stretchAt \in 0..current
  <2>1. storeStart \in stretchAt + 2..current + 2 /\ current <= ParseLongest
    BY <1>1, <1>5, Zenon DEF BackInv, BackIs
  <2> QED
    BY <1>2, <2>1, ParseSizes
<1>6. ASSUME parsePhase = "write" PROVE storeStart \in 1..current + 2 /\ current + 2 < NodeCount
  <2>1. storeStart \in 1..current + 2 /\ current <= ParseLongest
    BY <1>1, <1>6, Zenon DEF WriteInv
  <2> QED
    BY <1>2, <2>1, ParseSizes
<1>7. parsePhase \in {"back", "write"} => storeStart \in 1..current + 2 /\ current + 2 < NodeCount
  BY <1>5, <1>6
<1> QED
  BY <1>1, <1>2, <1>3, <1>4, <1>5, <1>7 DEF ParseIsFaithful

\* For every block, reserve, length of the table and thresholds, and however the
\* comparisons of prices come out: every node that a pass has come to is where a
\* decoder of the sequences on its path would be, with the repeat offsets it
\* would hold, and the way back and the one that stores them keep to that path.
THEOREM ParseAlwaysHolds == MCSpec => []ParseInv
<1>1. MCInit => ParseInv
  BY ParseInitially DEF MCInit
<1>2. ParseInv /\ [MCNext]_<<vars, cacheVars, rowVars, treeVars, parseVars, part>> => ParseInv'
  BY ParseStep DEF MCNext
<1> QED
  BY <1>1, <1>2, PTL DEF MCSpec

\* So a decoder of the sequences that Ultra2Finder stores writes the block's
\* text, with the repeat offsets the parser foresaw, and no node outside of the
\* table is read or written.
THEOREM ParseIsAlwaysFaithful == MCSpec => []ParseIsFaithful
<1>1. ParseInv => ParseIsFaithful
  BY ParseIs
<1> QED
  BY <1>1, ParseAlwaysHolds, PTL

-----------------------------------------------------------------------------
(* The binary trees                                                        *)

\* The byte at a position of a block that ends at `end'.
TreeByte(t, end, p) == IF p \in 0..end - 1 THEN t[p + 1] ELSE 0 - 1

\* For k bytes the text goes on alike from a and from b.
Alike(t, end, a, b, k) ==
  \A i \in 0..k - 1 : TreeByte(t, end, a + i) = TreeByte(t, end, b + i)

\* What stands at a is less than what stands at b, by a byte inside the block.
Precedes(t, end, a, b) ==
  /\ a \in Nat /\ b \in Nat
  /\ \E n \in Nat :
       /\ a + n < end /\ b + n < end /\ Alike(t, end, a, b, n)
       /\ TreeByte(t, end, a + n) < TreeByte(t, end, b + n)

\* p is on this side of c: 0 for less, 1 for more.
IsOnSide(t, end, p, c, side) ==
  IF side = 0 THEN Precedes(t, end, p, c) ELSE Precedes(t, end, c, p)

\* In its first k bytes p is not on that side of x.
IsNotOnSide(t, end, p, x, k, side) ==
  \A n \in 0..k - 1 :
    Alike(t, end, p, x, n) =>
      IF side = 0 THEN ~(TreeByte(t, end, p + n) < TreeByte(t, end, x + n))
                  ELSE ~(TreeByte(t, end, x + n) < TreeByte(t, end, p + n))

\* An input and how much of it the finder has been given.
IsBlock(t, end) == t \in Seq(Int) /\ end \in 0..Len(t)

LEMMA TreeByteIs ==
  ASSUME NEW t, NEW end, IsBlock(t, end), NEW p \in Int
  PROVE  TreeByte(t, end, p) \in Int
<1>1. t \in Seq(Int) /\ end \in 0..Len(t)
  BY DEF IsBlock
<1>2. CASE p \in 0..end - 1
  <2>1. p + 1 \in 1..Len(t)
    BY <1>1, <1>2
  <2>2. t[p + 1] \in Int
    BY <1>1, <2>1, ElementOfSeq
  <2> QED
    BY <1>2, <2>2 DEF TreeByte
<1>3. CASE p \notin 0..end - 1
  BY <1>3 DEF TreeByte
<1> QED
  BY <1>2, <1>3

\* Positions are ordered by what stands there.
LEMMA PrecedesOn ==
  ASSUME NEW t, NEW end, IsBlock(t, end), NEW a, NEW b, NEW c,
         Precedes(t, end, a, b), Precedes(t, end, b, c)
  PROVE  Precedes(t, end, a, c)
<1>1. a \in Nat /\ b \in Nat /\ c \in Nat
  BY DEF Precedes
<1>2. PICK m \in Nat : /\ a + m < end /\ b + m < end /\ Alike(t, end, a, b, m)
                       /\ TreeByte(t, end, a + m) < TreeByte(t, end, b + m)
  BY DEF Precedes
<1>3. PICK n \in Nat : /\ b + n < end /\ c + n < end /\ Alike(t, end, b, c, n)
                       /\ TreeByte(t, end, b + n) < TreeByte(t, end, c + n)
  BY DEF Precedes
<1> DEFINE F(p) == TreeByte(t, end, p)
<1>4. \A p \in Int : F(p) \in Int
  BY TreeByteIs
<1>5. end \in Int
  BY DEF IsBlock
<1>6. /\ \A i \in 0..m - 1 : F(a + i) = F(b + i)
      /\ \A i \in 0..n - 1 : F(b + i) = F(c + i)
      /\ F(a + m) < F(b + m) /\ F(b + n) < F(c + n)
  BY <1>2, <1>3 DEF Alike
<1> HIDE DEF F
<1>7. ASSUME NEW k \in Nat, k <= m, k <= n, k = m \/ k = n
      PROVE  /\ a + k < end /\ c + k < end /\ \A i \in 0..k - 1 : F(a + i) = F(c + i)
             /\ F(a + k) < F(c + k)
  <2>1. a + k < end /\ c + k < end
    BY <1>1, <1>2, <1>3, <1>5, <1>7
  <2>2. ASSUME NEW i \in 0..k - 1 PROVE F(a + i) = F(c + i)
    <3>1. i \in 0..m - 1 /\ i \in 0..n - 1
      BY <1>7
    <3> QED
      BY <1>6, <3>1
  <2>3. F(a + k) \in Int /\ F(b + k) \in Int /\ F(c + k) \in Int
    BY <1>1, <1>4
  <2>4. F(a + k) < F(b + k) \/ F(a + k) = F(b + k)
    <3>1. k = m \/ k \in 0..m - 1
      BY <1>7
    <3> QED
      BY <1>6, <3>1
  <2>5. F(b + k) < F(c + k) \/ F(b + k) = F(c + k)
    <3>1. k = n \/ k \in 0..n - 1
      BY <1>7
    <3> QED
      BY <1>6, <3>1
  <2>6. F(a + k) < F(b + k) \/ F(b + k) < F(c + k)
    BY <1>6, <1>7
  <2> QED
    BY <2>1, <2>2, <2>3, <2>4, <2>5, <2>6
<1>8. PICK k \in Nat : k <= m /\ k <= n /\ (k = m \/ k = n)
  <2>1. m <= n \/ n <= m
    OBVIOUS
  <2> QED
    BY <2>1
<1>9. /\ a + k < end /\ c + k < end /\ \A i \in 0..k - 1 : F(a + i) = F(c + i)
      /\ F(a + k) < F(c + k)
  BY <1>7, <1>8
<1> QED
  BY <1>1, <1>9 DEF Precedes, Alike, F

\* The order stays as the block grows.
LEMMA PrecedesLater ==
  ASSUME NEW t, NEW end, IsBlock(t, end), NEW later, later \in end..Len(t), NEW a, NEW b,
         Precedes(t, end, a, b)
  PROVE  Precedes(t, later, a, b)
<1>1. a \in Nat /\ b \in Nat
  BY DEF Precedes
<1>2. PICK n \in Nat : /\ a + n < end /\ b + n < end /\ Alike(t, end, a, b, n)
                       /\ TreeByte(t, end, a + n) < TreeByte(t, end, b + n)
  BY DEF Precedes
<1>3. end \in Nat /\ later \in Nat /\ end <= later
  BY DEF IsBlock
<1>4. ASSUME NEW p \in Nat, p < end PROVE TreeByte(t, later, p) = TreeByte(t, end, p)
  BY <1>3, <1>4 DEF TreeByte
<1>5. ASSUME NEW i \in 0..n - 1 PROVE TreeByte(t, later, a + i) = TreeByte(t, later, b + i)
  <2>1. a + i \in Nat /\ a + i < end /\ b + i \in Nat /\ b + i < end
    BY <1>1, <1>2, <1>3
  <2>2. TreeByte(t, end, a + i) = TreeByte(t, end, b + i)
    BY <1>2 DEF Alike
  <2> QED
    BY <1>4, <2>1, <2>2
<1>6. TreeByte(t, later, a + n) < TreeByte(t, later, b + n)
  <2>1. a + n \in Nat /\ b + n \in Nat
    BY <1>1
  <2> QED
    BY <1>2, <1>4, <2>1
<1>7. Alike(t, later, a, b, n)
  BY <1>5 DEF Alike
<1>8. a + n < later /\ b + n < later
  BY <1>1, <1>2, <1>3
<1> QED
  BY <1>1, <1>6, <1>7, <1>8 DEF Precedes

\* What lies beyond a position that is like x for k bytes is not on the near
\* side of x in these bytes.
LEMMA BeyondIsNotOnSide ==
  ASSUME NEW t, NEW end, IsBlock(t, end), NEW m \in Nat, NEW x \in Nat, NEW p \in Int,
         NEW k \in Nat, Alike(t, end, m, x, k), NEW side \in 0..1,
         IsOnSide(t, end, p, m, 1 - side)
  PROVE  IsNotOnSide(t, end, p, x, k, side)
<1> DEFINE F(q) == TreeByte(t, end, q)
<1>1. \A q \in Int : F(q) \in Int
  BY TreeByteIs
<1>2. \A i \in 0..k - 1 : F(m + i) = F(x + i)
  BY DEF Alike
<1>3. CASE side = 0
  <2>1. Precedes(t, end, m, p)
    BY <1>3 DEF IsOnSide
  <2>2. PICK n \in Nat : (\A i \in 0..n - 1 : F(m + i) = F(p + i)) /\ F(m + n) < F(p + n)
    BY <2>1 DEF Precedes, Alike
  <2> HIDE DEF F
  <2>3. ASSUME NEW j \in 0..k - 1, \A i \in 0..j - 1 : F(p + i) = F(x + i)
        PROVE  ~(F(p + j) < F(x + j))
    <3>1. F(p + j) \in Int /\ F(x + j) \in Int /\ F(m + j) = F(x + j)
      BY <1>1, <1>2
    <3>2. CASE n = j
      BY <2>2, <3>1, <3>2
    <3>3. CASE n > j
      <4>1. j \in 0..n - 1
        BY <3>3
      <4> QED
        BY <2>2, <3>1, <4>1
    <3>4. CASE n < j
      <4>1. n \in 0..j - 1 /\ n \in 0..k - 1
        BY <3>4
      <4>2. F(p + n) = F(x + n) /\ F(m + n) = F(x + n)
        BY <1>2, <2>3, <4>1
      <4>3. F(m + n) \in Int
        BY <1>1
      <4> QED
        BY <2>2, <4>2, <4>3
    <3> QED
      BY <3>2, <3>3, <3>4
  <2> QED
    BY <1>3, <2>3 DEF IsNotOnSide, Alike, F
<1>4. CASE side = 1
  <2>1. Precedes(t, end, p, m)
    BY <1>4 DEF IsOnSide
  <2>2. PICK n \in Nat : (\A i \in 0..n - 1 : F(p + i) = F(m + i)) /\ F(p + n) < F(m + n)
    BY <2>1 DEF Precedes, Alike
  <2> HIDE DEF F
  <2>3. ASSUME NEW j \in 0..k - 1, \A i \in 0..j - 1 : F(p + i) = F(x + i)
        PROVE  ~(F(x + j) < F(p + j))
    <3>1. F(p + j) \in Int /\ F(x + j) \in Int /\ F(m + j) = F(x + j)
      BY <1>1, <1>2
    <3>2. CASE n = j
      BY <2>2, <3>1, <3>2
    <3>3. CASE n > j
      <4>1. j \in 0..n - 1
        BY <3>3
      <4> QED
        BY <2>2, <3>1, <4>1
    <3>4. CASE n < j
      <4>1. n \in 0..j - 1 /\ n \in 0..k - 1
        BY <3>4
      <4>2. F(p + n) = F(x + n) /\ F(m + n) = F(x + n)
        BY <1>2, <2>3, <4>1
      <4>3. F(m + n) \in Int
        BY <1>1
      <4> QED
        BY <2>2, <4>2, <4>3
    <3> QED
      BY <3>2, <3>3, <3>4
  <2> QED
    BY <1>4, <2>3 DEF IsNotOnSide, Alike, F
<1> QED
  BY <1>3, <1>4

\* What is on neither side of x in some bytes is like it in them.
LEMMA OnNoSideIsAlike ==
  ASSUME NEW t, NEW end, IsBlock(t, end), NEW p \in Int, NEW x \in Int, NEW k \in Nat,
         NEW i0 \in Nat, NEW i1 \in Nat, k <= i0, k <= i1,
         IsNotOnSide(t, end, p, x, i0, 0), IsNotOnSide(t, end, p, x, i1, 1)
  PROVE  Alike(t, end, p, x, k)
<1> DEFINE F(q) == TreeByte(t, end, q)
           D == {n \in 0..k - 1 : F(p + n) # F(x + n)}
<1>1. SUFFICES ASSUME D # {} PROVE FALSE
  BY DEF Alike
<1>2. D \subseteq Nat
  OBVIOUS
<1>3. PICK n \in D : \A e \in D : n <= e
  <2> HIDE DEF D
  <2> QED
    BY <1>1, <1>2, LeastNatural
<1>4. n \in 0..k - 1 /\ F(p + n) # F(x + n)
  OBVIOUS
<1>5. ASSUME NEW i \in 0..n - 1 PROVE F(p + i) = F(x + i)
  <2>1. i \in 0..k - 1 /\ ~(n <= i)
    BY <1>4
  <2>2. i \notin D
    BY <1>3, <2>1
  <2> QED
    BY <2>1, <2>2
<1>6. Alike(t, end, p, x, n)
  BY <1>5 DEF Alike
<1>7. F(p + n) \in Int /\ F(x + n) \in Int
  BY <1>4, TreeByteIs
<1>8. n \in 0..i0 - 1 /\ n \in 0..i1 - 1
  BY <1>4
<1>9. ~(F(p + n) < F(x + n)) /\ ~(F(x + n) < F(p + n))
  BY <1>6, <1>8 DEF IsNotOnSide
<1> QED
  BY <1>4, <1>7, <1>9

\* The order of indices, as what is less than each.
IsOrder(under) ==
  /\ under \in [Int -> SUBSET Int]
  /\ \A a, b, c \in Int : a \in under[b] /\ b \in under[c] => a \in under[c]

Beside(under, p, c, side) == IF side = 0 THEN p \in under[c] ELSE c \in under[p]

\* The slots of the children of an index.
ChildSlot(c, side) == 2 * (c % (TreeMask + 1)) + side

\* An index whose slots nothing newer has taken.
IsFresh(ins, c) == \A d \in ins : c > d - TreeMask

\* What may hang below c on one side, when `room' is what may hang where c does.
RoomBelow(room, under, c, side) == {p \in room[c] : Beside(under, p, c, side)}

\* The tables hold trees: what hangs in a slot of a node is older than the node
\* and has a room inside that of the slot.  Slots in `pending' are yet to be filled.
SlotsHold(table, lowest, ins, room, under, pending) ==
  \A c \in ins, side \in 0..1 :
    /\ IsFresh(ins, c) /\ ChildSlot(c, side) \notin pending
    /\ table[ChildSlot(c, side)] >= lowest
    => /\ table[ChildSlot(c, side)] \in ins /\ table[ChildSlot(c, side)] < c
       /\ room[table[ChildSlot(c, side)]] \subseteq RoomBelow(room, under, c, side)

\* A walk of x that has come to m is to fill a slot with what is less than x
\* among what hangs at m, and one with what is more.
PendingHold(pending, m, x, ins, room, under) ==
  \A c \in ins, side \in 0..1, way \in 0..1 :
    IsFresh(ins, c) /\ ChildSlot(c, side) = pending[way] =>
      /\ m < c
      /\ \A p \in room[m] : Beside(under, p, x, way) => p \in RoomBelow(room, under, c, side)

LEMMA TreeMaskIs == TreeMask \in Nat
  BY TreesAssumption

LEMMA Congruent ==
  ASSUME NEW C \in Nat \ {0}, NEW p \in Nat, NEW q \in Nat, p <= q, q < p + C, p % C = q % C
  PROVE  p = q
<1>1. PICK a \in Nat, r \in Nat : r = p % C /\ p = a * C + r
  <2>1. p \div C \in Nat /\ p % C \in Nat /\ p = (p \div C) * C + (p % C)
    BY Division
  <2> QED
    BY <2>1
<1>2. PICK b \in Nat, t \in Nat : t = q % C /\ q = b * C + t
  <2>1. q \div C \in Nat /\ q % C \in Nat /\ q = (q \div C) * C + (q % C)
    BY Division
  <2> QED
    BY <2>1
<1>3. r = t
  BY <1>1, <1>2
<1>5. ASSUME a < b PROVE FALSE
  <2>1. (a + 1) * C = a * C + C /\ (a + 1) * C <= b * C /\ a * C \in Nat /\ b * C \in Nat
    BY <1>5, Products
  <2> QED
    BY <1>1, <1>2, <1>3, <2>1
<1>6. ASSUME b < a PROVE FALSE
  <2>1. (b + 1) * C = b * C + C /\ (b + 1) * C <= a * C /\ a * C \in Nat /\ b * C \in Nat
    BY <1>6, Products
  <2> QED
    BY <1>1, <1>2, <1>3, <2>1
<1>7. a = b
  BY <1>5, <1>6
<1> QED
  BY <1>1, <1>2, <1>3, <1>7

\* Two fresh indices have no slot in common.
LEMMA SlotsApart ==
  ASSUME NEW ins, NEW c \in Nat, NEW d \in Nat, c \in ins, d \in ins,
         IsFresh(ins, c), IsFresh(ins, d), NEW side \in 0..1, NEW other \in 0..1,
         ChildSlot(c, side) = ChildSlot(d, other)
  PROVE  c = d /\ side = other
<1>1. TreeMask \in Nat /\ c > d - TreeMask /\ d > c - TreeMask
  BY TreeMaskIs DEF IsFresh
<1> DEFINE C == TreeMask + 1
<1>2. C \in Nat \ {0} /\ c < d + C /\ d < c + C
  BY <1>1
<1> HIDE DEF C
<1>3. PICK r \in Nat, s \in Nat : r = c % C /\ s = d % C
  BY <1>2, Division
<1>4. 2 * r + side = 2 * s + other
  BY <1>3 DEF ChildSlot, C
<1>5. r = s /\ side = other
  BY <1>4
<1>6. c = d
  <2>1. c <= d \/ d <= c
    OBVIOUS
  <2> QED
    BY <1>2, <1>3, <1>5, <2>1, Congruent
<1> QED
  BY <1>5, <1>6

LEMMA ChildSlotIs ==
  ASSUME NEW c \in Nat, NEW side \in 0..1
  PROVE  ChildSlot(c, side) \in 0..2 * TreeMask + 1
<1>1. TreeMask + 1 \in Nat /\ TreeMask + 1 > 0 /\ TreeMask \in Nat
  BY TreeMaskIs
<1>2. c % (TreeMask + 1) \in Nat /\ c % (TreeMask + 1) < TreeMask + 1
  BY <1>1, Division
<1> QED
  BY <1>1, <1>2 DEF ChildSlot

\* One more inserted: fresh ones were fresh.
LEMMA FreshBefore ==
  ASSUME NEW ins, NEW more, ins \subseteq more, NEW c, IsFresh(more, c)
  PROVE  IsFresh(ins, c)
  BY DEF IsFresh

\* The newest index x, whose walk is to begin at m and may come to anything.
WalkAhead(table, lowest, ins, room, under, x, m, after, pending) ==
  /\ ins \in SUBSET Nat /\ room \in [Int -> SUBSET Int] /\ \A c \in ins : c \in room[c]
  /\ x \in Nat /\ \A c \in ins : c < x
  /\ SlotsHold(table, lowest, ins, room, under, {})
  /\ m >= lowest => m \in ins
  /\ after \in [Int -> SUBSET Int] /\ after[x] = Int /\ \A c \in Int : c # x => after[c] = room[c]
  /\ pending[0] = ChildSlot(x, 0) /\ pending[1] = ChildSlot(x, 1)

WalkBegan(table, lowest, ins, under, x, m, after, pending) ==
  /\ SlotsHold(table, lowest, ins \cup {x}, after, under, {pending[0], pending[1]})
  /\ m >= lowest => m < x /\ PendingHold(pending, m, x, ins \cup {x}, after, under)
  /\ \A c \in ins \cup {x} : c \in after[c]

\* The newest index begins its walk: its own slots are the pending ones.
LEMMA SlotsBegin ==
  ASSUME NEW table, NEW lowest, NEW ins, NEW room, NEW under, NEW x, NEW m, NEW after, NEW pending,
         WalkAhead(table, lowest, ins, room, under, x, m, after, pending)
  PROVE  WalkBegan(table, lowest, ins, under, x, m, after, pending)
<1>0. /\ ins \in SUBSET Nat /\ room \in [Int -> SUBSET Int] /\ (\A c \in ins : c \in room[c])
      /\ x \in Nat /\ (\A c \in ins : c < x)
      /\ SlotsHold(table, lowest, ins, room, under, {}) /\ (m >= lowest => m \in ins)
  BY DEF WalkAhead
<1> DEFINE more == ins \cup {x}
<1>1. after[x] = Int /\ \A c \in Int : c # x => after[c] = room[c]
  BY DEF WalkAhead
<1>2. after \in [Int -> SUBSET Int]
  BY DEF WalkAhead
<1>3. \A c \in more : c \in after[c] /\ c \in Nat
  BY <1>0, <1>1
<1>4. pending[0] = ChildSlot(x, 0) /\ pending[1] = ChildSlot(x, 1)
  BY DEF WalkAhead
<1>5. ASSUME NEW c \in more, NEW side \in 0..1,
             IsFresh(more, c), ChildSlot(c, side) \notin {pending[0], pending[1]},
             table[ChildSlot(c, side)] >= lowest
      PROVE  /\ table[ChildSlot(c, side)] \in more /\ table[ChildSlot(c, side)] < c
             /\ after[table[ChildSlot(c, side)]] \subseteq RoomBelow(after, under, c, side)
  <2>1. c # x
    BY <1>4, <1>5
  <2>2. c \in ins /\ IsFresh(ins, c)
    BY <1>5, <2>1, FreshBefore
  <2> PICK d : d = table[ChildSlot(c, side)]
    OBVIOUS
  <2>3. d \in ins /\ d < c /\ room[d] \subseteq RoomBelow(room, under, c, side)
    BY <1>0, <1>5, <2>2 DEF SlotsHold
  <2>4. d # x /\ d \in Int /\ c \in Int
    BY <1>0, <2>2, <2>3
  <2>5. after[d] = room[d] /\ after[c] = room[c]
    BY <1>1, <2>1, <2>4
  <2>6. RoomBelow(after, under, c, side) = RoomBelow(room, under, c, side)
    BY <2>5 DEF RoomBelow
  <2> QED
    BY <2>3, <2>5, <2>6
<1>6. ASSUME m >= lowest
      PROVE  m < x /\ PendingHold(pending, m, x, more, after, under)
  <2>1. m \in ins /\ m < x
    BY <1>0, <1>6
  <2>2. ASSUME NEW c \in more, NEW side \in 0..1, NEW way \in 0..1,
               IsFresh(more, c), ChildSlot(c, side) = pending[way]
        PROVE  /\ m < c
               /\ \A p \in after[m] : Beside(under, p, x, way) => p \in RoomBelow(after, under, c, side)
    <3>0. IsFresh(more, x) /\ x \in more
      <4>1. c > c - TreeMask /\ c \in Nat
        BY <1>0, <2>2 DEF IsFresh
      <4>2. TreeMask > 0
        BY <4>1, TreeMaskIs
      <4>3. \A d \in more : d \in Nat /\ d <= x
        BY <1>0
      <4> QED
        BY <4>2, <4>3, TreeMaskIs DEF IsFresh
    <3>1. c = x /\ side = way
      <4>1. ChildSlot(c, side) = ChildSlot(x, way)
        <5>1. pending[way] = ChildSlot(x, way)
          BY <1>4
        <5> QED
          BY <2>2, <5>1
      <4>2. c \in Nat
        BY <1>0
      <4> HIDE DEF more
      <4> QED
        BY <1>0, <2>2, <3>0, <4>1, <4>2, SlotsApart
    <3>2. \A p \in after[m] : p \in Int
      BY <1>0, <1>2, <2>1
    <3> QED
      BY <1>1, <2>1, <3>1, <3>2 DEF RoomBelow
  <2> QED
    BY <2>1, <2>2 DEF PendingHold
<1>7. SlotsHold(table, lowest, more, after, under, {pending[0], pending[1]})
  BY <1>5 DEF SlotsHold
<1> QED
  BY <1>3, <1>6, <1>7, Zenon DEF WalkBegan

\* The walk of x visits m, which is on one side of it: m is put into the pending
\* slot of this side, and the slot of its other child takes its place.
WalkVisits(table, lowest, ins, room, under, x, m, way, pending, old, linked, after, kept, child) ==
  /\ lowest \in Nat /\ lowest > 0 /\ ins \in SUBSET Nat
  /\ room \in [Int -> SUBSET Int] /\ \A c \in ins : c \in room[c]
  /\ IsOrder(under)
  /\ x \in ins /\ \A c \in ins : c <= x
  /\ m \in ins /\ m < x /\ m >= lowest
  /\ way \in 0..1 /\ Beside(under, m, x, way)
  /\ SlotsHold(table, lowest, ins, room, under, {pending[0], pending[1]})
  /\ PendingHold(pending, m, x, ins, room, under)
  /\ old \in BOOLEAN /\ (old <=> m <= x - TreeMask)
  /\ \A s \in 0..2 * TreeMask + 1 : s # pending[way] => linked[s] = table[s]
  /\ pending[way] # Dummy => linked[pending[way]] = m
  /\ after[m] = {p \in room[m] : Beside(under, p, x, way)}
  /\ after \in [Int -> SUBSET Int] /\ \A c \in Int : c # m => after[c] = room[c]
  /\ kept[way] = IF old THEN Dummy ELSE ChildSlot(m, 1 - way)
  /\ kept[1 - way] = pending[1 - way]
  /\ child = IF old THEN 0 ELSE linked[ChildSlot(m, 1 - way)]

\* The next node is older, on the other side of m, and what it leads to is in
\* the rooms of the slots to fill.
WalkVisited(lowest, ins, room, under, x, m, way, linked, after, kept, child) ==
  /\ SlotsHold(linked, lowest, ins, after, under, {kept[0], kept[1]})
  /\ child >= lowest =>
       /\ child \in ins /\ child < m
       /\ \A p \in after[child] : Beside(under, p, m, 1 - way) /\ p \in room[m]
       /\ PendingHold(kept, child, x, ins, after, under)
  /\ \A c \in ins : c \in after[c]

LEMMA SlotsVisit ==
  ASSUME NEW table, NEW lowest, NEW ins, NEW room, NEW under, NEW x, NEW m, NEW way, NEW pending,
         NEW old, NEW linked, NEW after, NEW kept, NEW child,
         WalkVisits(table, lowest, ins, room, under, x, m, way, pending, old, linked, after, kept, child)
  PROVE  WalkVisited(lowest, ins, room, under, x, m, way, linked, after, kept, child)
<1> USE DEF WalkVisits
<1>0. TreeMask \in Nat /\ Dummy = 0 - 1 /\ Dummy \in Int
  BY TreeMaskIs DEF Dummy
<1>1. after[m] = {p \in room[m] : Beside(under, p, x, way)} /\ \A c \in Int : c # m => after[c] = room[c]
  OBVIOUS
<1>2. after \in [Int -> SUBSET Int]
  OBVIOUS
<1>3. \A c \in ins : c \in after[c]
  <2>1. ASSUME NEW c \in ins PROVE c \in after[c]
    <3>1. CASE c = m
      BY <1>1, <3>1
    <3>2. CASE c # m
      BY <1>1, <3>2
    <3> QED
      BY <3>1, <3>2
  <2> QED
    BY <2>1
<1>4. ~old => IsFresh(ins, m)
  <2>1. ASSUME ~old, NEW d \in ins PROVE m > d - TreeMask
    <3>1. ~(m <= x - TreeMask) /\ d <= x /\ d \in Int /\ x \in Int /\ m \in Int
      BY <2>1
    <3> QED
      BY <1>0, <3>1
  <2> QED
    BY <2>1 DEF IsFresh
<1>5. \A c \in ins : c \in Nat /\ \A side \in 0..1 : ChildSlot(c, side) \in 0..2 * TreeMask + 1
  BY ChildSlotIs
\* What was said of a room but that of m stays, and rooms only shrink.
<1>6. \A c \in Int : after[c] \subseteq room[c]
  <2>1. ASSUME NEW c \in Int PROVE after[c] \subseteq room[c]
    <3>1. CASE c = m
      BY <1>1, <3>1
    <3>2. CASE c # m
      BY <1>1, <3>2
    <3> QED
      BY <3>1, <3>2
  <2> QED
    BY <2>1
<1>7. \A c \in Int, side \in 0..1 : c # m => RoomBelow(after, under, c, side) = RoomBelow(room, under, c, side)
  BY <1>1 DEF RoomBelow
\* The slot that m is put in is none of its own.
<1>8. ASSUME ~old, NEW side \in 0..1, NEW g \in 0..1 PROVE ChildSlot(m, side) # pending[g]
  <2>1. ASSUME ChildSlot(m, side) = pending[g] PROVE FALSE
    <3>1. m < m
      BY <1>4, <1>8, <2>1 DEF PendingHold
    <3> QED
      BY <3>1
  <2> QED
    BY <2>1
<1>9. \A s \in 0..2 * TreeMask + 1 : s # pending[way] => linked[s] = table[s]
  OBVIOUS
<1>10. pending[way] # Dummy => linked[pending[way]] = m
  OBVIOUS
<1>11. kept[way] = (IF old THEN Dummy ELSE ChildSlot(m, 1 - way)) /\ kept[1 - way] = pending[1 - way]
  OBVIOUS
<1>12. {kept[0], kept[1]} = {kept[way], kept[1 - way]} /\ {pending[0], pending[1]} = {pending[way], pending[1 - way]}
  <2>1. way = 0 \/ way = 1
    OBVIOUS
  <2> QED
    BY <2>1
<1> HIDE DEF Dummy
<1>13. ASSUME NEW c \in ins, NEW side \in 0..1,
              IsFresh(ins, c), ChildSlot(c, side) \notin {kept[0], kept[1]},
              linked[ChildSlot(c, side)] >= lowest
       PROVE  /\ linked[ChildSlot(c, side)] \in ins /\ linked[ChildSlot(c, side)] < c
              /\ after[linked[ChildSlot(c, side)]] \subseteq RoomBelow(after, under, c, side)
  <2> PICK s : s = ChildSlot(c, side)
    OBVIOUS
  <2>1. s \in 0..2 * TreeMask + 1
    BY <1>5
  <2>2. s # kept[way] /\ s # pending[1 - way]
    BY <1>11, <1>12, <1>13
  <2>3. CASE s = pending[way]
    <3>1. linked[s] = m
      <4>1. pending[way] # Dummy
        BY <1>0, <2>1, <2>3
      <4> QED
        BY <1>10, <2>3, <4>1
    <3>2. m < c /\ \A p \in room[m] : Beside(under, p, x, way) => p \in RoomBelow(room, under, c, side)
      BY <1>13, <2>3 DEF PendingHold
    <3>3. c \in Int /\ c # m
      BY <3>2
    <3>4. after[m] \subseteq RoomBelow(after, under, c, side)
      BY <1>1, <1>7, <3>2, <3>3
    <3> QED
      BY <3>1, <3>2, <3>4
  <2>4. CASE s # pending[way]
    <3>1. linked[s] = table[s]
      BY <1>9, <2>1, <2>4
    <3>2. s \notin {pending[0], pending[1]}
      BY <1>12, <2>2, <2>4
    <3> PICK d : d = table[s]
      OBVIOUS
    <3>3. d \in ins /\ d < c /\ room[d] \subseteq RoomBelow(room, under, c, side)
      BY <1>13, <3>1, <3>2 DEF SlotsHold
    <3>4. d \in Int /\ c \in Int /\ d # c
      BY <3>3
    <3>5. CASE c # m
      <4>1. after[d] \subseteq RoomBelow(after, under, c, side)
        BY <1>6, <1>7, <3>3, <3>4, <3>5
      <4> QED
        BY <3>1, <3>3, <4>1
    <3>6. CASE c = m
      <4>1. after[d] = room[d]
        BY <1>1, <3>4, <3>6
      <4>2. ~old
        <5>1. x \in ins
          OBVIOUS
        <5>2. m > x - TreeMask
          BY <1>13, <3>6 DEF IsFresh
        <5>3. ~(m <= x - TreeMask)
          BY <1>0, <5>2
        <5> QED
          BY <5>3
      <4>3. side = way
        <5>1. s # ChildSlot(m, 1 - way)
          BY <1>11, <2>2, <4>2
        <5>2. side # 1 - way
          BY <3>6, <5>1
        <5> QED
          BY <5>2
      <4>4. ASSUME NEW p \in room[d] PROVE p \in RoomBelow(after, under, m, side)
        <5>1. p \in room[m] /\ Beside(under, p, m, way) /\ p \in Int
          BY <3>3, <3>6, <4>3, <4>4 DEF RoomBelow
        <5>2. Beside(under, p, x, way)
          <6>1. m \in Int /\ x \in Int
            OBVIOUS
          <6> QED
            BY <5>1, <6>1, Zenon DEF Beside, IsOrder
        <5> QED
          BY <1>1, <4>3, <5>1, <5>2 DEF RoomBelow
      <4> QED
        BY <3>1, <3>3, <3>6, <4>1, <4>4
    <3> QED
      BY <3>5, <3>6
  <2> QED
    BY <2>3, <2>4
<1>14. ASSUME child >= lowest
       PROVE  /\ child \in ins /\ child < m /\ ~old
              /\ after[child] = room[child]
              /\ room[child] \subseteq RoomBelow(room, under, m, 1 - way)
  <2>1. ~old
    <3>1. old => child = 0
      BY Zenon
    <3> QED
      BY <1>14, <3>1
  <2>2. 1 - way \in 0..1
    OBVIOUS
  <2> PICK s : s = ChildSlot(m, 1 - way)
    OBVIOUS
  <2>3. s \in 0..2 * TreeMask + 1 /\ s # pending[0] /\ s # pending[1] /\ s # pending[way]
    <3>1. s \in 0..2 * TreeMask + 1
      BY <1>5, <2>2
    <3>2. \A g \in 0..1 : s # pending[g]
      BY <1>8, <2>1, <2>2, Zenon
    <3>3. 0 \in 0..1 /\ 1 \in 0..1
      OBVIOUS
    <3> QED
      BY <3>1, <3>2, <3>3
  <2>4. child = table[s]
    <3>1. child = linked[s]
      BY <2>1, Zenon
    <3> QED
      BY <1>9, <2>3, <3>1
  <2>5. child \in ins /\ child < m /\ room[child] \subseteq RoomBelow(room, under, m, 1 - way)
    BY <1>4, <1>14, <2>1, <2>2, <2>3, <2>4 DEF SlotsHold
  <2> QED
    BY <1>1, <2>1, <2>5
<1>15. ASSUME child >= lowest
       PROVE  /\ \A p \in after[child] : Beside(under, p, m, 1 - way) /\ p \in room[m]
              /\ PendingHold(kept, child, x, ins, after, under)
  <2>1. \A p \in after[child] : Beside(under, p, m, 1 - way) /\ p \in room[m]
    BY <1>14, <1>15 DEF RoomBelow
  <2>2. ASSUME NEW c \in ins, NEW side \in 0..1, NEW g \in 0..1,
               IsFresh(ins, c), ChildSlot(c, side) = kept[g]
        PROVE  /\ child < c
               /\ \A p \in after[child] : Beside(under, p, x, g) => p \in RoomBelow(after, under, c, side)
    <3>1. CASE g = way
      <4>1. kept[g] = ChildSlot(m, 1 - way) /\ 1 - way \in 0..1
        BY <1>11, <1>14, <1>15, <3>1
      <4>2. c = m /\ side = 1 - way
        <5>1. c \in Nat /\ m \in Nat /\ IsFresh(ins, m)
          BY <1>4, <1>14, <1>15
        <5> QED
          BY <2>2, <4>1, <5>1, SlotsApart
      <4>3. child < c
        BY <1>14, <1>15, <4>2
      <4>4. \A p \in after[child] : Beside(under, p, x, g) => p \in RoomBelow(after, under, c, side)
        BY <1>1, <2>1, <3>1, <4>2 DEF RoomBelow
      <4> QED
        BY <4>3, <4>4
    <3>2. CASE g # way
      <4>1. g = 1 - way
        BY <3>2
      <4>2. ChildSlot(c, side) = pending[g]
        BY <1>11, <2>2, <4>1
      <4>3. m < c /\ \A p \in room[m] : Beside(under, p, x, g) => p \in RoomBelow(room, under, c, side)
        BY <2>2, <4>2 DEF PendingHold
      <4>4. c \in Int /\ c # m
        BY <4>3
      <4>5. child < c
        BY <1>14, <1>15, <4>3
      <4>6. RoomBelow(after, under, c, side) = RoomBelow(room, under, c, side)
        BY <1>7, <4>4
      <4>7. \A p \in after[child] : Beside(under, p, x, g) => p \in RoomBelow(after, under, c, side)
        BY <2>1, <4>3, <4>6
      <4> QED
        BY <4>5, <4>7
    <3> QED
      BY <3>1, <3>2
  <2> QED
    BY <2>1, <2>2 DEF PendingHold
<1>16. SlotsHold(linked, lowest, ins, after, under, {kept[0], kept[1]})
  BY <1>13 DEF SlotsHold
<1>17. child >= lowest =>
         /\ child \in ins /\ child < m
         /\ \A p \in after[child] : Beside(under, p, m, 1 - way) /\ p \in room[m]
         /\ PendingHold(kept, child, x, ins, after, under)
  BY <1>14, <1>15
<1> QED
  BY <1>3, <1>16, <1>17, Zenon DEF WalkVisited

\* The walk ends: the pending slots are cleared.
LEMMA SlotsEnd ==
  ASSUME NEW table \in [0..2 * TreeMask + 1 -> Int], NEW lowest \in Nat, lowest > 0,
         NEW ins \in SUBSET Nat, NEW room, NEW under, NEW pending,
         SlotsHold(table, lowest, ins, room, under, pending),
         NEW ended, ended = [slot \in 0..2 * TreeMask + 1 |-> IF slot \in pending THEN 0 ELSE table[slot]]
  PROVE  SlotsHold(ended, lowest, ins, room, under, {})
<1>1. ASSUME NEW c \in ins, NEW side \in 0..1,
             IsFresh(ins, c), ended[ChildSlot(c, side)] >= lowest
      PROVE  /\ ended[ChildSlot(c, side)] \in ins /\ ended[ChildSlot(c, side)] < c
             /\ room[ended[ChildSlot(c, side)]] \subseteq RoomBelow(room, under, c, side)
  <2> PICK s : s = ChildSlot(c, side)
    OBVIOUS
  <2>1. s \in 0..2 * TreeMask + 1
    BY ChildSlotIs
  <2>2. s \notin pending /\ ended[s] = table[s]
    BY <1>1, <2>1
  <2> QED
    BY <1>1, <2>2 DEF SlotsHold
<1> QED
  BY <1>1 DEF SlotsHold

\* Between walks the order may grow and the window move on.
LEMMA SlotsLater ==
  ASSUME NEW table \in [0..2 * TreeMask + 1 -> Int], NEW lowest \in Nat, NEW higher \in Nat,
         lowest <= higher, NEW ins \in SUBSET Nat, NEW room, NEW under, NEW wider,
         \A a, b \in Int : a \in under[b] => a \in wider[b], room \in [Int -> SUBSET Int],
         NEW pending,
         SlotsHold(table, lowest, ins, room, under, pending)
  PROVE  SlotsHold(table, higher, ins, room, wider, pending)
<1>1. ASSUME NEW c \in ins, NEW side \in 0..1,
             IsFresh(ins, c), ChildSlot(c, side) \notin pending, table[ChildSlot(c, side)] >= higher
      PROVE  /\ table[ChildSlot(c, side)] \in ins /\ table[ChildSlot(c, side)] < c
             /\ room[table[ChildSlot(c, side)]] \subseteq RoomBelow(room, wider, c, side)
  <2> PICK s : s = ChildSlot(c, side)
    OBVIOUS
  <2>1. s \in 0..2 * TreeMask + 1
    BY ChildSlotIs
  <2>2. table[s] >= lowest
    BY <1>1, <2>1
  <2>3. table[s] \in ins /\ table[s] < c /\ room[table[s]] \subseteq RoomBelow(room, under, c, side)
    BY <1>1, <2>2 DEF SlotsHold
  <2>4. RoomBelow(room, under, c, side) \subseteq RoomBelow(room, wider, c, side)
    <3>1. ASSUME NEW p \in room[c], Beside(under, p, c, side) PROVE Beside(wider, p, c, side)
      <4>1. p \in Int /\ c \in Int
        OBVIOUS
      <4> QED
        BY <3>1, <4>1 DEF Beside
    <3> QED
      BY <3>1 DEF RoomBelow
  <2> QED
    BY <2>3, <2>4
<1> QED
  BY <1>1 DEF SlotsHold

\* The order of the indices of a text, numbered from `offset' on.
OrderOf(t, end, offset) == [c \in Int |-> {p \in Int : Precedes(t, end, p - offset, c - offset)}]

TreeBuckets == {Bucket(w) : w \in [1..HashBytes -> Bytes]}
TreeBuckets3 == {Bucket3(w) : w \in [1..MinMatch -> Bytes]}
TreeSlots == 0..2 * TreeMask + 1

Walks == [kind : {"none", "insert", "search"}, index : Nat, match : Nat,
          smaller : TreeSlots \cup {Dummy}, larger : TreeSlots \cup {Dummy},
          smallerCommon : Nat, largerCommon : Nat, best : Nat, matchEnd : Nat, compares : Nat]

BlockTypes ==
  /\ text \in Texts /\ seeding \in BOOLEAN
  /\ blockStart \in Nat /\ blockEnd \in Nat /\ blockStart <= blockEnd /\ blockEnd <= Len(text)

IndexTypes ==
  indexOffset \in Nat /\ lowestIndex \in Nat /\ nextToUpdate \in Nat /\ nextToUpdate3 \in Nat

TableTypes ==
  /\ hashTable \in [TreeBuckets -> Nat] /\ hash3Table \in [TreeBuckets3 -> Nat]
  /\ treeTable \in [TreeSlots -> Nat]

CallTypes ==
  /\ target \in Nat /\ repeats \in Offsets /\ noLiterals \in BOOLEAN
  /\ walk \in Walks /\ found \in Seq([value : Nat, length : Nat])
  /\ treePhase \in {"idle", "update", "walk"}

TreeTypeOK == BlockTypes /\ IndexTypes /\ TableTypes /\ CallTypes

\* Positions are numbered so that forgotten ones are below lowestIndex.
Numbering ==
  /\ WindowStartIndex <= lowestIndex /\ indexOffset <= lowestIndex /\ lowestIndex <= nextToUpdate
  /\ seeding => IndexOf(blockStart) = lowestIndex
  /\ treePhase # "idle" => lowestIndex <= target /\ PositionOf(target) + Reserve <= blockEnd

\* An index in a table that is not below lowestIndex was inserted in this text.
Holds3(index) ==
  /\ index < IndexOf(blockEnd)
  /\ IF treePhase = "idle" THEN index < nextToUpdate ELSE index < target

Hash3Holds == \A b \in TreeBuckets3 : hash3Table[b] >= lowestIndex => Holds3(hash3Table[b])

\* The inserted indices: `ins' is all of them, since history was last forgotten.
Inserted(ins) ==
  /\ ins \in SUBSET Nat
  /\ \A c \in ins : c < IndexOf(blockEnd)
  /\ treePhase = "idle" => \A c \in ins : c < nextToUpdate
  /\ treePhase = "update" => \A c \in ins : c < nextToUpdate /\ c < target
  /\ \A b \in TreeBuckets : hashTable[b] >= lowestIndex => hashTable[b] \in ins

\* The slots that a walk is to fill.
PendingOf(w) == [way \in 0..1 |-> IF way = 0 THEN w.smaller ELSE w.larger]

Order == OrderOf(text, blockEnd, indexOffset)

\* What is known of a walk: on which side of it are the nodes below, and how
\* much they have in common with it.
WalkGoes(ins, room) ==
  /\ walk.index \in ins /\ \A c \in ins : c <= walk.index
  /\ \/ walk.kind = "insert" /\ walk.index = nextToUpdate /\ walk.index < target
     \/ walk.kind = "search" /\ walk.index = target
  /\ Here + Reserve <= blockEnd /\ walk.matchEnd > walk.index + Reserve
  /\ Here + walk.smallerCommon < blockEnd /\ Here + walk.largerCommon < blockEnd
  /\ walk.kind = "search" /\ walk.compares > 0 => Here + walk.best < blockEnd
  /\ SlotsHold(treeTable, lowestIndex, ins, room, Order, {PendingOf(walk)[0], PendingOf(walk)[1]})
  /\ walk.match >= lowestIndex =>
       /\ walk.match \in ins /\ walk.match < walk.index
       /\ PendingHold(PendingOf(walk), walk.match, walk.index, ins, room, Order)
       /\ \A p \in room[walk.match] :
            /\ IsNotOnSide(text, blockEnd, PositionOf(p), Here, walk.smallerCommon, 0)
            /\ IsNotOnSide(text, blockEnd, PositionOf(p), Here, walk.largerCommon, 1)

\* The trees of the tables: a room for every inserted index, and what hangs
\* below an index is on its side of it.
TreesGrow(ins, room) ==
  /\ Inserted(ins)
  /\ room \in [Int -> SUBSET Int] /\ \A c \in ins : c \in room[c]
  /\ treePhase # "walk" => SlotsHold(treeTable, lowestIndex, ins, room, Order, {})
  /\ treePhase = "walk" => WalkGoes(ins, room)

\* A candidate is a match at the distance that the decoder takes it for.
IsCandidate(candidate) ==
  LET distance == DistanceOf(candidate)
      here     == PositionOf(target)
  IN  /\ distance \in 1..LesserOf(MaxDistance, here)
      /\ candidate.length \in MinMatch..blockEnd - here
      /\ \A n \in 0..candidate.length - 1 : ByteAt(here + n) = ByteAt(here - distance + n)

FoundHolds ==
  /\ \A i \in 1..Len(found) : IsCandidate(found[i])
  /\ \A i \in 2..Len(found) : found[i - 1].length < found[i].length
  /\ treePhase = "walk" /\ walk.kind = "search" => walk.best = BestOf(found)

\* What holds between any two steps of the finder.
TreesInv ==
  /\ TreeTypeOK /\ Numbering /\ Hash3Holds /\ FoundHolds
  /\ \E ins, room : TreesGrow(ins, room)

LEMMA OrderIs ==
  ASSUME NEW t, NEW end, IsBlock(t, end), NEW offset \in Int
  PROVE  /\ IsOrder(OrderOf(t, end, offset))
         /\ \A p, c \in Int, side \in 0..1 :
              Beside(OrderOf(t, end, offset), p, c, side) <=> IsOnSide(t, end, p - offset, c - offset, side)
<1> DEFINE under == OrderOf(t, end, offset)
<1>1. \A p, c \in Int : p \in under[c] <=> Precedes(t, end, p - offset, c - offset)
  BY DEF OrderOf
<1>2. under \in [Int -> SUBSET Int]
  BY DEF OrderOf
<1> HIDE DEF under
<1>3. ASSUME NEW a \in Int, NEW b \in Int, NEW c \in Int, a \in under[b], b \in under[c]
      PROVE  a \in under[c]
  <2>1. Precedes(t, end, a - offset, b - offset) /\ Precedes(t, end, b - offset, c - offset)
    BY <1>1, <1>3
  <2>2. Precedes(t, end, a - offset, c - offset)
    BY <2>1, PrecedesOn
  <2> QED
    BY <1>1, <2>2
<1>4. \A p, c \in Int, side \in 0..1 : Beside(under, p, c, side) <=> IsOnSide(t, end, p - offset, c - offset, side)
  BY <1>1, Zenon DEF Beside, IsOnSide
<1>5. IsOrder(under)
  BY <1>2, <1>3 DEF IsOrder
<1> QED
  BY <1>4, <1>5 DEF under

LEMMA OrderLater ==
  ASSUME NEW t, NEW end, IsBlock(t, end), NEW later, later \in end..Len(t), NEW offset \in Int
  PROVE  \A a, b \in Int : a \in OrderOf(t, end, offset)[b] => a \in OrderOf(t, later, offset)[b]
  BY PrecedesLater DEF OrderOf

LEMMA TreeSizes ==
  /\ MinMatch \in Nat \ {0} /\ HashBytes \in Nat /\ Reserve \in Nat
  /\ HashBytes >= MinMatch /\ Reserve >= HashBytes
  /\ LongestMatch \in Nat /\ TreeSkipThreshold \in Nat /\ TreeSkipLimit \in Nat
  /\ MaxDistance \in Nat \ {0} /\ MaxDistance3 \in Nat \ {0} /\ TreeMask \in Nat
  /\ SearchCount \in Nat /\ SufficientLength \in Nat /\ MinSeeding \in Nat
  /\ BlockLengths \subseteq Nat \ {0} /\ WindowStartIndex = 2 /\ Dummy = 0 - 1
  BY TreesAssumption DEF WindowStartIndex, Dummy

LEMMA TextIs ==
  ASSUME text \in Texts, blockEnd \in Nat, blockEnd <= Len(text)
  PROVE  text \in Seq(Bytes) /\ Len(text) \in Nat /\ IsBlock(text, blockEnd)
<1>1. text \in Seq(Bytes) /\ Bytes \subseteq Nat
  BY TreesAssumption
<1>2. text \in Seq(Int)
  <2>1. Bytes \subseteq Int
    BY <1>1
  <2> QED
    BY <1>1, <2>1, SeqMonotonic
<1>3. Len(text) \in Nat
  BY <1>1, LenProperties
<1> QED
  BY <1>1, <1>2, <1>3 DEF IsBlock

LEMMA ByteAtIs == \A p \in Int : ByteAt(p) = TreeByte(text, blockEnd, p)
  BY DEF ByteAt, TreeByte

\* The words that are hashed lie inside the text.
LEMMA WordIs ==
  ASSUME text \in Texts, blockEnd \in Nat, blockEnd <= Len(text), NEW p \in Nat, NEW n \in Nat,
         p + n <= blockEnd
  PROVE  Word(p, n) \in [1..n -> Bytes]
<1>1. text \in Seq(Bytes) /\ Len(text) \in Nat
  BY TextIs
<1>2. \A i \in p + 1..p + n : text[i] \in Bytes
  <2>1. ASSUME NEW i \in p + 1..p + n PROVE text[i] \in Bytes
    <3>1. i \in 1..Len(text)
      BY <1>1
    <3> QED
      BY <1>1, <3>1, ElementOfSeq
  <2> QED
    BY <2>1
<1>3. /\ SubSeq(text, p + 1, p + n) \in Seq(Bytes)
      /\ Len(SubSeq(text, p + 1, p + n)) = IF p + 1 <= p + n THEN p + n - (p + 1) + 1 ELSE 0
  BY <1>2, SubSeqProperties
<1>4. Len(SubSeq(text, p + 1, p + n)) = n
  BY <1>3
<1>5. Word(p, n) \in Seq(Bytes) /\ Len(Word(p, n)) = n
  BY <1>3, <1>4 DEF Word
<1>6. Word(p, n) \in [1..Len(Word(p, n)) -> Bytes]
  BY <1>5, LenProperties
<1> QED
  BY <1>5, <1>6

LEMMA BucketIs ==
  ASSUME text \in Texts, blockEnd \in Nat, blockEnd <= Len(text), NEW p \in Nat,
         p + Reserve <= blockEnd
  PROVE  Bucket(Word(p, HashBytes)) \in TreeBuckets /\ Bucket3(Word(p, MinMatch)) \in TreeBuckets3
<1>1. Word(p, HashBytes) \in [1..HashBytes -> Bytes]
  BY TreeSizes, WordIs
<1>2. Word(p, MinMatch) \in [1..MinMatch -> Bytes]
  BY TreeSizes, WordIs
<1> QED
  BY <1>1, <1>2, Zenon DEF TreeBuckets, TreeBuckets3

\* What was counted is alike, and no more of the block is.
LEMMA MatchingIs ==
  ASSUME blockEnd \in Nat, NEW a \in 0..blockEnd, NEW b \in Int
  PROVE  /\ Matching(a, b) \in 0..blockEnd - a
         /\ Alike(text, blockEnd, a, b, Matching(a, b))
         /\ \/ a + Matching(a, b) = blockEnd
            \/ TreeByte(text, blockEnd, a + Matching(a, b)) # TreeByte(text, blockEnd, b + Matching(a, b))
<1> DEFINE Ends(n) == a + n = blockEnd \/ ByteAt(a + n) # ByteAt(b + n)
           D == {n \in 0..blockEnd - a : Ends(n)}
           IsIt(n) == (\A i \in 0..n - 1 : ByteAt(a + i) = ByteAt(b + i)) /\ Ends(n)
<1>1. blockEnd - a \in D
  OBVIOUS
<1>2. D \subseteq Nat
  OBVIOUS
<1>3. PICK m \in D : \A e \in D : m <= e
  <2> HIDE DEF D
  <2> QED
    BY <1>1, <1>2, LeastNatural
<1>4. m \in 0..blockEnd - a /\ Ends(m)
  BY <1>3
<1>5. ASSUME NEW i \in 0..m - 1 PROVE ByteAt(a + i) = ByteAt(b + i)
  <2>1. i \in 0..blockEnd - a /\ ~(m <= i)
    BY <1>4
  <2>2. i \notin D
    BY <1>3, <2>1
  <2> QED
    BY <2>1, <2>2
<1>6. \E n \in 0..blockEnd - a : IsIt(n)
  BY <1>4, <1>5
<1>7. Matching(a, b) = CHOOSE n \in 0..blockEnd - a : IsIt(n)
  BY DEF Matching
<1>8. Matching(a, b) \in 0..blockEnd - a /\ IsIt(Matching(a, b))
  <2> HIDE DEF IsIt
  <2> QED
    BY <1>6, <1>7
<1> PICK n : n = Matching(a, b)
  OBVIOUS
<1>9. n \in Int /\ \A i \in 0..n - 1 : a + i \in Int /\ b + i \in Int
  BY <1>8
<1>10. a + n \in Int /\ b + n \in Int
  BY <1>9
<1> QED
  BY <1>8, <1>9, <1>10, ByteAtIs DEF Alike

LEMMA AlikeOn ==
  ASSUME NEW t, NEW end, NEW a \in Int, NEW b \in Int, NEW k \in Nat, NEW n \in Nat,
         Alike(t, end, a, b, k), Alike(t, end, a + k, b + k, n)
  PROVE  Alike(t, end, a, b, k + n)
<1> DEFINE F(p) == TreeByte(t, end, p)
<1>1. \A i \in 0..k - 1 : F(a + i) = F(b + i)
  BY DEF Alike
<1>2. \A i \in 0..n - 1 : F(a + k + i) = F(b + k + i)
  BY DEF Alike
<1> HIDE DEF F
<1>3. ASSUME NEW i \in 0..k + n - 1 PROVE F(a + i) = F(b + i)
  <2>1. CASE i < k
    <3>1. i \in 0..k - 1
      BY <2>1
    <3> QED
      BY <1>1, <3>1
  <2>2. CASE i >= k
    <3>1. i - k \in 0..n - 1 /\ a + k + (i - k) = a + i /\ b + k + (i - k) = b + i
      BY <2>2
    <3>2. F(a + k + (i - k)) = F(b + k + (i - k))
      BY <1>2, <3>1
    <3> QED
      BY <3>1, <3>2, Zenon
  <2> QED
    BY <2>1, <2>2
<1> QED
  BY <1>3 DEF Alike, F

LEMMA AlikeBack ==
  ASSUME NEW t, NEW end, NEW a, NEW b, NEW k, Alike(t, end, a, b, k)
  PROVE  Alike(t, end, b, a, k)
  BY DEF Alike

\* Two that are alike for k bytes match for as many.
LEMMA AlikeIsMatched ==
  ASSUME blockEnd \in Nat, NEW a \in Nat, NEW b \in Int, NEW k \in Nat, a + k <= blockEnd,
         Alike(text, blockEnd, a, b, k)
  PROVE  k <= Matching(a, b)
<1> PICK n : n = Matching(a, b)
  OBVIOUS
<1>1. /\ n \in 0..blockEnd - a
      /\ a + n = blockEnd \/ TreeByte(text, blockEnd, a + n) # TreeByte(text, blockEnd, b + n)
  <2>1. a \in 0..blockEnd
    OBVIOUS
  <2> QED
    BY <2>1, MatchingIs, Zenon
<1>2. ASSUME n < k PROVE FALSE
  <2>1. n \in 0..k - 1 /\ a + n # blockEnd
    BY <1>1, <1>2
  <2>2. TreeByte(text, blockEnd, a + n) = TreeByte(text, blockEnd, b + n)
    BY <2>1 DEF Alike
  <2> QED
    BY <1>1, <2>1, <2>2
<1> QED
  BY <1>1, <1>2

LEMMA LowestIs ==
  ASSUME TreeTypeOK, NEW at \in Nat
  PROVE  /\ FindLowestMatchIndex(at) \in Int
         /\ FindLowestMatchIndex(at) >= lowestIndex /\ at - FindLowestMatchIndex(at) <= MaxDistance
<1>1. lowestIndex \in Nat /\ MaxDistance \in Nat
  BY TreeSizes DEF TreeTypeOK, BlockTypes, IndexTypes, CallTypes
<1> QED
  BY <1>1 DEF FindLowestMatchIndex

\* A node that a walk looks at, and how far it matches.
LEMMA NodeIs ==
  ASSUME TreeTypeOK, Numbering, NEW ins, NEW room, TreesGrow(ins, room), treePhase = "walk", Goes
  PROVE  /\ walk.match \in ins /\ walk.index \in ins /\ walk.match < walk.index
         /\ walk.index - walk.match <= MaxDistance \/ walk.kind = "insert"
         /\ walk.match >= lowestIndex /\ Here \in Nat /\ There \in Nat /\ There < Here
         /\ Known \in Nat /\ MatchLength \in Nat /\ Known <= MatchLength
         /\ Here + MatchLength <= blockEnd
         /\ Alike(text, blockEnd, There, Here, MatchLength)
         /\ \/ Here + MatchLength = blockEnd
            \/ TreeByte(text, blockEnd, Here + MatchLength) # TreeByte(text, blockEnd, There + MatchLength)
         /\ Known <= Matching(Here, There)
<1> PICK x : x = walk.index
  OBVIOUS
<1> PICK m : m = walk.match
  OBVIOUS
<1> PICK k0 : k0 = walk.smallerCommon
  OBVIOUS
<1> PICK k1 : k1 = walk.largerCommon
  OBVIOUS
<1>1. x \in Nat /\ m \in Nat /\ k0 \in Nat /\ k1 \in Nat
  BY Zenon DEF TreeTypeOK, BlockTypes, IndexTypes, CallTypes, Walks
<1>2. /\ text \in Texts /\ blockEnd \in Nat /\ blockEnd <= Len(text) /\ indexOffset \in Nat
      /\ lowestIndex \in Nat /\ target \in Nat
  BY Zenon DEF TreeTypeOK, BlockTypes, IndexTypes, CallTypes
<1>3. WalkGoes(ins, room) /\ room \in [Int -> SUBSET Int] /\ (\A c \in ins : c \in room[c]) /\ ins \in SUBSET Nat
  BY Zenon DEF TreesGrow, Inserted
<1>4. m >= lowestIndex /\ target - m <= MaxDistance
  <2> PICK low : low = FindLowestMatchIndex(target)
    OBVIOUS
  <2>1. m >= low
    BY Zenon DEF Goes
  <2>2. low \in Int /\ low >= lowestIndex /\ target - low <= MaxDistance
    BY <1>2, LowestIs, Zenon
  <2>3. lowestIndex \in Nat /\ target \in Nat /\ MaxDistance \in Nat
    BY <1>2, TreeSizes
  <2> QED
    BY <1>1, <2>1, <2>2, <2>3
<1>5. /\ x \in ins /\ m \in ins /\ m < x
      /\ Here + k0 < blockEnd /\ Here + k1 < blockEnd
      /\ walk.kind = "insert" \/ x = target
      /\ \A p \in room[m] :
            /\ IsNotOnSide(text, blockEnd, PositionOf(p), Here, k0, 0)
            /\ IsNotOnSide(text, blockEnd, PositionOf(p), Here, k1, 1)
  BY <1>3, <1>4, Zenon DEF WalkGoes
<1> PICK h : h = Here
  OBVIOUS
<1> PICK s : s = There
  OBVIOUS
<1>6. h = x - indexOffset /\ s = m - indexOffset /\ indexOffset <= lowestIndex
  BY DEF Here, There, PositionOf, Numbering
<1>7. h \in Nat /\ s \in Nat /\ s < h
  <2>1. m < x /\ indexOffset \in Nat /\ lowestIndex \in Nat
    BY <1>2, <1>5, Zenon
  <2> QED
    BY <1>1, <1>4, <1>6, <2>1
<1> PICK k : k = Known
  OBVIOUS
<1>8. k \in Nat /\ k <= k0 /\ k <= k1 /\ h + k < blockEnd
  <2>1. k = LesserOf(k0, k1)
    BY Zenon DEF Known
  <2> QED
    BY <1>1, <1>5, <1>2, <1>7, <2>1 DEF LesserOf
<1>9. IsBlock(text, blockEnd)
  BY <1>2, TextIs
<1>10. Alike(text, blockEnd, s, h, k)
  <2>1. IsNotOnSide(text, blockEnd, s, h, k0, 0) /\ IsNotOnSide(text, blockEnd, s, h, k1, 1)
    <3>1. m \in room[m] /\ PositionOf(m) = s
      BY <1>3, <1>5, Zenon DEF There
    <3> QED
      BY <1>5, <3>1, Zenon
  <2> QED
    BY <1>1, <1>7, <1>8, <1>9, <2>1, OnNoSideIsAlike
<1> PICK n : n = Matching(h + k, s + k)
  OBVIOUS
<1>11. /\ n \in 0..blockEnd - (h + k)
       /\ Alike(text, blockEnd, h + k, s + k, n)
       /\ \/ (h + k) + n = blockEnd
          \/ TreeByte(text, blockEnd, (h + k) + n) # TreeByte(text, blockEnd, (s + k) + n)
  <2>1. h + k \in 0..blockEnd /\ s + k \in Int
    BY <1>2, <1>7, <1>8
  <2> QED
    BY <1>2, <2>1, MatchingIs
<1>12. MatchLength = k + n
  BY Zenon DEF MatchLength
<1>13. n \in Nat /\ (h + k) + n = h + (k + n) /\ (s + k) + n = s + (k + n) /\ h + (k + n) <= blockEnd
  BY <1>2, <1>7, <1>8, <1>11
<1>14. Alike(text, blockEnd, s, h, k + n)
  <2>1. Alike(text, blockEnd, s + k, h + k, n)
    BY <1>11, AlikeBack
  <2> QED
    BY <1>7, <1>8, <1>10, <1>13, <2>1, AlikeOn
<1>15. h + (k + n) = blockEnd \/ TreeByte(text, blockEnd, h + (k + n)) # TreeByte(text, blockEnd, s + (k + n))
  BY <1>11, <1>13, Zenon
<1>16. k <= Matching(h, s)
  <2>1. Alike(text, blockEnd, h, s, k)
    BY <1>10, AlikeBack
  <2>2. h + k <= blockEnd /\ h \in Nat /\ s \in Int /\ k \in Nat /\ blockEnd \in Nat
    BY <1>2, <1>7, <1>8
  <2> QED
    BY <2>1, <2>2, AlikeIsMatched, Zenon
<1>17. k + n \in Nat /\ k <= k + n
  BY <1>8, <1>13
<1>18. x - m <= MaxDistance \/ walk.kind = "insert"
  BY <1>4, <1>5
<1> QED
  BY <1>4, <1>5, <1>7, <1>8, <1>12, <1>13, <1>14, <1>15, <1>16, <1>17, <1>18, Zenon

\* A walk of this kind that nothing has been done of.
IsWalk(w, kind, index, m, n) ==
  /\ w \in Walks
  /\ w.kind = kind /\ w.index = index /\ w.match = m /\ w.compares = n
  /\ w.smallerCommon = 0 /\ w.largerCommon = 0
  /\ w.best = Reserve /\ w.matchEnd = index + Reserve + 1
  /\ PendingOf(w) = [way \in 0..1 |-> ChildSlot(index, way)]

LEMMA WalkIs ==
  ASSUME NEW kind \in {"insert", "search", "none"}, NEW index \in Nat, NEW m \in Nat, NEW n \in Nat
  PROVE  IsWalk(Walk(kind, index, m, n), kind, index, m, n)
<1> PICK low, high : low = 2 * (index % (TreeMask + 1)) /\ high = 2 * (index % (TreeMask + 1)) + 1
  OBVIOUS
<1>1. low = ChildSlot(index, 0) /\ high = ChildSlot(index, 1)
  <2>1. TreeMask + 1 \in Nat /\ TreeMask + 1 > 0
    BY TreeMaskIs
  <2>2. index % (TreeMask + 1) \in Nat
    BY <2>1, Division
  <2> QED
    BY <2>2 DEF ChildSlot
<1>2. low \in TreeSlots /\ high \in TreeSlots
  BY <1>1, ChildSlotIs DEF TreeSlots
<1>3. Reserve \in Nat /\ index + Reserve + 1 \in Nat
  BY TreeSizes
<1>4. Walk(kind, index, m, n) =
        [kind |-> kind, index |-> index, match |-> m, smaller |-> low, larger |-> high,
         smallerCommon |-> 0, largerCommon |-> 0, best |-> Reserve,
         matchEnd |-> index + Reserve + 1, compares |-> n]
  BY Zenon DEF Walk
<1> PICK w : w = Walk(kind, index, m, n)
  OBVIOUS
<1>5. w \in Walks
  BY <1>2, <1>3, <1>4 DEF Walks
<1>6. /\ w.kind = kind /\ w.index = index /\ w.match = m /\ w.compares = n
      /\ w.smallerCommon = 0 /\ w.largerCommon = 0 /\ w.best = Reserve
      /\ w.matchEnd = index + Reserve + 1 /\ w.smaller = low /\ w.larger = high
  BY <1>4
<1>7. PendingOf(w) = [way \in 0..1 |-> ChildSlot(index, way)]
  <2>1. \A way \in 0..1 : (IF way = 0 THEN w.smaller ELSE w.larger) = ChildSlot(index, way)
    BY <1>1, <1>6
  <2> QED
    BY <2>1 DEF PendingOf
<1> QED
  BY <1>5, <1>6, <1>7, Zenon DEF IsWalk

LEMMA WalkBegun ==
  ASSUME NEW index \in Nat, NEW m \in Nat, NEW n \in Nat
  PROVE  /\ IsWalk(Walk("insert", index, m, n), "insert", index, m, n)
         /\ IsWalk(Walk("search", index, m, n), "search", index, m, n)
         /\ Walk("none", index, m, n) \in Walks
<1>1. "insert" \in {"insert", "search", "none"} /\ "search" \in {"insert", "search", "none"}
      /\ "none" \in {"insert", "search", "none"}
  OBVIOUS
<1>2. \A kind \in {"insert", "search", "none"} : IsWalk(Walk(kind, index, m, n), kind, index, m, n)
  BY WalkIs
<1>3. IsWalk(Walk("none", index, m, n), "none", index, m, n)
  BY <1>1, <1>2, Zenon
<1> QED
  BY <1>1, <1>2, <1>3, Zenon DEF IsWalk

\* While nothing is inserted, there is nothing to hold.
LEMMA NothingGrows ==
  ASSUME \A b \in TreeBuckets : ~(hashTable[b] >= lowestIndex), treePhase = "idle"
  PROVE  \E ins, room : TreesGrow(ins, room)
<1> DEFINE room == [c \in Int |-> Int]
<1>1. Inserted({})
  BY DEF Inserted
<1>2. SlotsHold(treeTable, lowestIndex, {}, room, Order, {})
  BY DEF SlotsHold
<1>3. TreesGrow({}, room)
  BY <1>1, <1>2 DEF TreesGrow
<1> QED
  BY <1>3, Zenon

LEMMA NothingGrowsNext ==
  ASSUME \A b \in TreeBuckets : ~(hashTable'[b] >= lowestIndex'), treePhase' = "idle"
  PROVE  (\E ins, room : TreesGrow(ins, room))'
<1> DEFINE room == [c \in Int |-> Int]
<1>1. Inserted({})'
  BY DEF Inserted
<1>2. SlotsHold(treeTable', lowestIndex', {}, room, Order', {})
  BY DEF SlotsHold
<1>3. TreesGrow({}, room)'
  BY <1>1, <1>2 DEF TreesGrow
<1> QED
  BY <1>3, Zenon

LEMMA NoneFound ==
  ASSUME found = <<>>, treePhase # "walk" PROVE FoundHolds
  BY DEF FoundHolds

LEMMA TreesInitially == ASSUME TreesInit PROVE TreesInv
<1>1. /\ text \in Texts /\ blockStart = 0 /\ blockEnd = 0 /\ seeding = FALSE
      /\ indexOffset = 2 /\ lowestIndex = 2 /\ nextToUpdate = 2 /\ nextToUpdate3 = 2
      /\ hashTable = [b \in TreeBuckets |-> 0] /\ hash3Table = [b \in TreeBuckets3 |-> 0]
      /\ treeTable = [slot \in TreeSlots |-> 0]
      /\ target = 0 /\ repeats = NewOffsets /\ noLiterals = FALSE
      /\ walk = NoWalk /\ found = <<>> /\ treePhase = "idle"
  BY Zenon DEF TreesInit, EmptyTables, TreeBuckets, TreeBuckets3, TreeSlots, WindowStartIndex
<1>2. repeats \in Offsets
  BY <1>1 DEF NewOffsets, Offsets, Triple, NonZero
<1>3. walk \in Walks
  BY <1>1, WalkBegun DEF NoWalk
<1>4. Len(text) \in Nat
  <2>1. text \in Seq(Bytes)
    BY <1>1, TreesAssumption
  <2> QED
    BY <2>1, LenProperties
<1>5. found \in Seq([value : Nat, length : Nat])
  BY <1>1, EmptySeq
<1>6. TreeTypeOK
  <2>1. BlockTypes
    <3>1. blockStart \in Nat /\ blockEnd \in Nat /\ blockStart <= blockEnd /\ blockEnd <= Len(text)
      <4>1. blockStart = 0 /\ blockEnd = 0
        BY <1>1, Zenon
      <4> QED
        BY <1>4, <4>1
    <3>2. text \in Texts /\ seeding \in BOOLEAN
      BY <1>1, Zenon
    <3> QED
      BY <3>1, <3>2, Zenon DEF BlockTypes
  <2>2. IndexTypes
    BY <1>1 DEF IndexTypes
  <2>3. TableTypes
    BY <1>1 DEF TableTypes
  <2>4. target \in Nat /\ noLiterals \in BOOLEAN /\ treePhase \in {"idle", "update", "walk"}
    BY <1>1
  <2>5. CallTypes
    BY <1>2, <1>3, <1>5, <2>4, Zenon DEF CallTypes
  <2> QED
    BY <2>1, <2>2, <2>3, <2>5 DEF TreeTypeOK
<1>7. Numbering
  BY <1>1 DEF Numbering, WindowStartIndex
<1>8. Hash3Holds
  BY <1>1 DEF Hash3Holds
<1>9. FoundHolds
  BY <1>1, NoneFound
<1>10. \A b \in TreeBuckets : ~(hashTable[b] >= lowestIndex)
  BY <1>1
<1>11. \E ins, room : TreesGrow(ins, room)
  BY <1>1, <1>10, NothingGrows
<1> QED
  BY <1>6, <1>7, <1>8, <1>9, <1>11 DEF TreesInv

LEMMA ResetTreesKeeps == ASSUME TreesInv, NEW t \in Texts, ResetTrees(t) PROVE TreesInv'
<1>1. TreeTypeOK
  BY DEF TreesInv
<1>2. /\ text' = t /\ blockStart' = 0 /\ blockEnd' = 0 /\ seeding' = FALSE
      /\ indexOffset' = 2 /\ lowestIndex' = 2 /\ nextToUpdate' = 2 /\ nextToUpdate3' = 2
      /\ hashTable' = [b \in DOMAIN hashTable |-> 0] /\ hash3Table' = [b \in DOMAIN hash3Table |-> 0]
      /\ found' = <<>> /\ treePhase' = "idle"
      /\ UNCHANGED <<treeTable, target, repeats, noLiterals, walk>>
  BY Zenon DEF ResetTrees, InputDone, WindowStartIndex
<1>3. hashTable' = [b \in TreeBuckets |-> 0] /\ hash3Table' = [b \in TreeBuckets3 |-> 0]
  <2>1. DOMAIN hashTable = TreeBuckets /\ DOMAIN hash3Table = TreeBuckets3
    BY <1>1 DEF TreeTypeOK, TableTypes
  <2> QED
    BY <1>2, <2>1, Zenon
<1>4. Len(t) \in Nat
  <2>1. t \in Seq(Bytes)
    BY TreesAssumption
  <2> QED
    BY <2>1, LenProperties
<1>5. found' \in Seq([value : Nat, length : Nat])
  BY <1>2, EmptySeq
<1>6. TreeTypeOK'
  <2>1. BlockTypes'
    <3>1. blockStart' \in Nat /\ blockEnd' \in Nat /\ blockStart' <= blockEnd' /\ blockEnd' <= Len(text')
      <4>1. blockStart' = 0 /\ blockEnd' = 0 /\ text' = t
        BY <1>2, Zenon
      <4> QED
        BY <1>4, <4>1
    <3>2. text' \in Texts /\ seeding' \in BOOLEAN
      BY <1>2, Zenon
    <3> QED
      BY <3>1, <3>2, Zenon DEF BlockTypes
  <2>2. IndexTypes'
    BY <1>2 DEF IndexTypes
  <2>3. treeTable' \in [TreeSlots -> Nat]
    BY <1>1, <1>2 DEF TreeTypeOK, TableTypes
  <2>4. TableTypes'
    BY <1>3, <2>3 DEF TableTypes
  <2>5. target' \in Nat /\ repeats' \in Offsets /\ noLiterals' \in BOOLEAN /\ walk' \in Walks
    BY <1>1, <1>2, Zenon DEF TreeTypeOK, CallTypes
  <2>6. treePhase' \in {"idle", "update", "walk"}
    BY <1>2
  <2>7. CallTypes'
    BY <1>5, <2>5, <2>6, Zenon DEF CallTypes
  <2> QED
    BY <2>1, <2>2, <2>4, <2>7 DEF TreeTypeOK
<1>7. Numbering'
  BY <1>2 DEF Numbering, WindowStartIndex
<1>8. Hash3Holds'
  BY <1>2, <1>3 DEF Hash3Holds
<1>9. FoundHolds'
  BY <1>2 DEF FoundHolds
<1>10. \A b \in TreeBuckets : ~(hashTable'[b] >= lowestIndex')
  BY <1>2, <1>3
<1>11. (\E ins, room : TreesGrow(ins, room))'
  BY <1>2, <1>10, NothingGrowsNext
<1> QED
  BY <1>6, <1>7, <1>8, <1>9, <1>11 DEF TreesInv

LEMMA FoundNothing == ASSUME found' = <<>>, treePhase' # "walk" PROVE FoundHolds'
  BY DEF FoundHolds

LEMMA FoundStays ==
  ASSUME FoundHolds, UNCHANGED <<found, repeats, noLiterals, target, text, blockEnd, indexOffset>>,
         treePhase' = "walk" /\ walk'.kind = "search" => walk'.best = BestOf(found)
  PROVE  FoundHolds'
<1>1. \A p \in Int : ByteAt(p)' = ByteAt(p)
  BY DEF ByteAt
<1>2. ASSUME NEW i \in 1..Len(found) PROVE IsCandidate(found[i])'
  <2>1. IsCandidate(found[i])
    BY DEF FoundHolds
  <2> QED
    BY <2>1 DEF IsCandidate, DistanceOf, PositionOf, ByteAt
<1>3. \A i \in 1..Len(found') : IsCandidate(found[i])'
  BY <1>2
<1>4. \A i \in 2..Len(found) : found[i - 1].length < found[i].length
  BY DEF FoundHolds
<1> QED
  BY <1>3, <1>4 DEF FoundHolds

LEMMA OrderNext ==
  ASSUME UNCHANGED <<text, blockEnd, indexOffset>> PROVE Order' = Order
  BY DEF Order

LEMMA WalkNext ==
  ASSUME UNCHANGED <<walk, text, blockEnd, indexOffset, lowestIndex, nextToUpdate, target, treeTable>>,
         NEW ins, NEW room, WalkGoes(ins, room)
  PROVE  WalkGoes(ins, room)'
  BY OrderNext, Zenon DEF WalkGoes, Here, PositionOf

LEMMA TreesStay == ASSUME TreesInv, UNCHANGED treeVars PROVE TreesInv'
<1>1. UNCHANGED <<text, blockStart, blockEnd, seeding, indexOffset, lowestIndex, nextToUpdate,
              nextToUpdate3, hashTable, hash3Table, treeTable, target, repeats, noLiterals,
              walk, found, treePhase, inputs>>
  BY Zenon DEF treeVars
<1>2. TreeTypeOK'
  BY <1>1, Zenon DEF TreesInv, TreeTypeOK, BlockTypes, IndexTypes, TableTypes, CallTypes
<1>3. Numbering'
  BY <1>1, Zenon DEF TreesInv, Numbering, PositionOf, IndexOf
<1>4. Hash3Holds'
  BY <1>1, Zenon DEF TreesInv, Hash3Holds, Holds3, IndexOf
<1>5. FoundHolds'
  <2>1. FoundHolds
    BY DEF TreesInv
  <2>2. treePhase' = "walk" /\ walk'.kind = "search" => walk'.best = BestOf(found)
    BY <1>1, <2>1, Zenon DEF FoundHolds
  <2> QED
    BY <1>1, <2>1, <2>2, FoundStays
<1>6. (\E ins, room : TreesGrow(ins, room))'
  <2>1. PICK ins, room : TreesGrow(ins, room)
    BY DEF TreesInv
  <2>2. Inserted(ins)'
    BY <1>1, <2>1, Zenon DEF TreesGrow, Inserted, IndexOf
  <2>3. treePhase' # "walk" => SlotsHold(treeTable', lowestIndex', ins, room, Order', {})
    BY <1>1, <2>1, OrderNext, Zenon DEF TreesGrow
  <2>4. treePhase' = "walk" => WalkGoes(ins, room)'
    BY <1>1, <2>1, WalkNext, Zenon DEF TreesGrow
  <2>5. TreesGrow(ins, room)'
    BY <2>1, <2>2, <2>3, <2>4, Zenon DEF TreesGrow
  <2> QED
    BY <2>5, Zenon
<1> QED
  BY <1>2, <1>3, <1>4, <1>5, <1>6 DEF TreesInv

\* How far prepare_for_block moves the window and next_to_update: never back.
LEMMA PreparedIs ==
  ASSUME NEW before \in Nat, NEW low \in Nat, NEW now \in Nat
  PROVE  /\ CatchUp(GreaterOf(before, low), now) \in Nat
         /\ CatchUp(GreaterOf(before, low), now) >= before
         /\ CatchUp(GreaterOf(before, low), now) >= low
<1> PICK g : g = GreaterOf(before, low)
  OBVIOUS
<1>1. g \in Nat /\ g >= before /\ g >= low
  BY DEF GreaterOf
<1>2. TreeSkipThreshold \in Nat /\ TreeSkipLimit \in Nat
  BY TreeSizes
<1>3. CatchUp(g, now) \in Nat /\ CatchUp(g, now) >= g
  BY <1>1, <1>2 DEF CatchUp, LesserOf
<1> QED
  BY <1>1, <1>3

LEMMA PrepareForBlockKeeps ==
  ASSUME TreesInv, NEW size \in BlockLengths, PrepareForBlock(size) PROVE TreesInv'
<1> PICK now : now = IndexOf(blockEnd)
  OBVIOUS
<1> PICK low : low = IF now > MaxDistance THEN GreaterOf(lowestIndex, now - MaxDistance)
                                          ELSE lowestIndex
  OBVIOUS
<1>1. /\ TreeTypeOK /\ Numbering /\ treePhase = "idle" /\ treePhase' = "idle"
      /\ blockEnd + size <= Len(text)
      /\ blockStart' = blockEnd /\ blockEnd' = blockEnd + size
      /\ lowestIndex' = low
      /\ nextToUpdate' = CatchUp(GreaterOf(nextToUpdate, low), now)
      /\ nextToUpdate3' = nextToUpdate'
      /\ seeding' = (now = low /\ size >= MinSeeding)
      /\ found' = <<>>
      /\ UNCHANGED <<text, indexOffset, hashTable, hash3Table, treeTable, target, repeats,
                     noLiterals, walk>>
  BY Zenon DEF TreesInv, PrepareForBlock
<1>2. /\ text \in Texts /\ blockEnd \in Nat /\ blockEnd <= Len(text)
      /\ indexOffset \in Nat /\ lowestIndex \in Nat /\ nextToUpdate \in Nat
  BY <1>1, Zenon DEF TreeTypeOK, BlockTypes, IndexTypes
<1>3. size \in Nat \ {0} /\ MaxDistance \in Nat
  BY TreeSizes
<1>4. now = blockEnd + indexOffset /\ now \in Nat
  BY <1>2 DEF IndexOf
<1>5. low \in Nat /\ low >= lowestIndex
  BY <1>2, <1>3, <1>4 DEF GreaterOf
<1>6. nextToUpdate' \in Nat /\ nextToUpdate' >= nextToUpdate /\ nextToUpdate' >= low
  BY <1>1, <1>2, <1>4, <1>5, PreparedIs
<1>7. /\ 2 <= lowestIndex /\ indexOffset <= lowestIndex /\ lowestIndex <= nextToUpdate
  BY <1>1, Zenon DEF Numbering, WindowStartIndex
<1>8. TreeTypeOK'
  <2>1. BlockTypes'
    <3>1. seeding' \in BOOLEAN /\ text' \in Texts
      BY <1>1, <1>2, Zenon
    <3>2. blockStart' \in Nat /\ blockEnd' \in Nat /\ blockStart' <= blockEnd' /\ blockEnd' <= Len(text')
      BY <1>1, <1>2, <1>3
    <3> QED
      BY <3>1, <3>2 DEF BlockTypes
  <2>2. IndexTypes'
    BY <1>1, <1>2, <1>5, <1>6 DEF IndexTypes
  <2>3. TableTypes'
    BY <1>1, Zenon DEF TreeTypeOK, TableTypes
  <2>4. CallTypes'
    <3>1. found' \in Seq([value : Nat, length : Nat])
      BY <1>1, EmptySeq
    <3>2. target \in Nat /\ repeats \in Offsets /\ noLiterals \in BOOLEAN /\ walk \in Walks
      BY <1>1, Zenon DEF TreeTypeOK, CallTypes
    <3> QED
      BY <1>1, <3>1, <3>2, Zenon DEF CallTypes
  <2> QED
    BY <2>1, <2>2, <2>3, <2>4 DEF TreeTypeOK
<1>9. Numbering'
  <2>1. seeding' => now = low
    BY <1>1, Zenon
  <2>2. IndexOf(blockStart)' = now
    BY <1>1, <1>4 DEF IndexOf
  <2>3. 2 <= low /\ indexOffset <= low
    BY <1>2, <1>5, <1>7
  <2> QED
    BY <1>1, <1>6, <2>1, <2>2, <2>3 DEF Numbering, WindowStartIndex
<1>10. now <= IndexOf(blockEnd)' /\ IndexOf(blockEnd)' \in Nat
  BY <1>1, <1>2, <1>3, <1>4 DEF IndexOf
<1>11. Hash3Holds'
  <2>1. ASSUME NEW b \in TreeBuckets3, hash3Table[b] >= low PROVE Holds3(hash3Table[b])'
    <3>1. hash3Table[b] \in Nat
      BY <1>1 DEF TreeTypeOK, TableTypes
    <3>2. hash3Table[b] >= lowestIndex
      BY <1>2, <1>5, <2>1, <3>1
    <3>3. hash3Table[b] < now /\ hash3Table[b] < nextToUpdate
      BY <1>1, <3>2 DEF TreesInv, Hash3Holds, Holds3
    <3>4. hash3Table[b] < IndexOf(blockEnd)' /\ hash3Table[b] < nextToUpdate'
      BY <1>2, <1>4, <1>6, <1>10, <3>1, <3>3
    <3> QED
      BY <1>1, <3>4, Zenon DEF Holds3
  <2> QED
    BY <1>1, <2>1 DEF Hash3Holds, Holds3
<1>12. FoundHolds'
  BY <1>1, FoundNothing
<1>13. (\E ins, room : TreesGrow(ins, room))'
  <2>1. PICK ins, room : TreesGrow(ins, room)
    BY DEF TreesInv
  <2>2. /\ ins \in SUBSET Nat /\ (\A c \in ins : c < now /\ c < nextToUpdate)
        /\ \A b \in TreeBuckets : hashTable[b] >= lowestIndex => hashTable[b] \in ins
    BY <1>1, <2>1, Zenon DEF TreesGrow, Inserted
  <2>3. /\ room \in [Int -> SUBSET Int] /\ \A c \in ins : c \in room[c]
        /\ SlotsHold(treeTable, lowestIndex, ins, room, Order, {})
    BY <1>1, <2>1, Zenon DEF TreesGrow
  <2>4. \A c \in ins : c < IndexOf(blockEnd)' /\ c < nextToUpdate'
    <3>1. ASSUME NEW c \in ins PROVE c < IndexOf(blockEnd)' /\ c < nextToUpdate'
      <4>1. c \in Nat /\ c < now /\ c < nextToUpdate
        BY <2>2
      <4> QED
        BY <1>2, <1>4, <1>6, <1>10, <4>1
    <3> QED
      BY <3>1
  <2>5. \A b \in TreeBuckets : hashTable[b] >= low => hashTable[b] \in ins
    <3>1. ASSUME NEW b \in TreeBuckets, hashTable[b] >= low PROVE hashTable[b] >= lowestIndex
      <4>1. hashTable[b] \in Nat
        BY <1>1 DEF TreeTypeOK, TableTypes
      <4> QED
        BY <1>2, <1>5, <3>1, <4>1
    <3> QED
      BY <2>2, <3>1
  <2>6. Inserted(ins)'
    BY <1>1, <2>2, <2>4, <2>5 DEF Inserted
  <2>7. SlotsHold(treeTable', lowestIndex', ins, room, Order', {})
    <3>1. IsBlock(text, blockEnd) /\ Len(text) \in Nat
      BY <1>2, TextIs
    <3>2. blockEnd + size \in blockEnd..Len(text)
      BY <1>1, <1>2, <1>3, <3>1
    <3> PICK under : under = Order
      OBVIOUS
    <3> PICK wider : wider = Order'
      OBVIOUS
    <3>3. under = OrderOf(text, blockEnd, indexOffset) /\ wider = OrderOf(text, blockEnd + size, indexOffset)
      BY <1>1, Zenon DEF Order
    <3>4. \A a, b \in Int : a \in under[b] => a \in wider[b]
      <4>1. indexOffset \in Int
        BY <1>2
      <4> QED
        BY <3>1, <3>2, <3>3, <4>1, OrderLater
    <3>5. treeTable \in [0..2 * TreeMask + 1 -> Int]
      BY <1>1 DEF TreeTypeOK, TableTypes, TreeSlots
    <3>6. SlotsHold(treeTable, low, ins, room, wider, {})
      BY <1>2, <1>5, <2>2, <2>3, <3>4, <3>5, SlotsLater
    <3> QED
      BY <1>1, <3>6, Zenon
  <2>8. TreesGrow(ins, room)'
    BY <1>1, <2>3, <2>6, <2>7 DEF TreesGrow
  <2> QED
    BY <2>8, Zenon
<1> QED
  BY <1>8, <1>9, <1>11, <1>12, <1>13 DEF TreesInv

LEMMA ForgetHistoryKeeps == ASSUME TreesInv, ForgetHistory PROVE TreesInv'
<1> PICK size : size = blockEnd - blockStart
  OBVIOUS
<1>1. /\ TreeTypeOK /\ Numbering /\ treePhase = "idle" /\ treePhase' = "idle" /\ seeding
      /\ indexOffset' = indexOffset + size /\ lowestIndex' = lowestIndex + size
      /\ nextToUpdate' = lowestIndex' /\ nextToUpdate3' = lowestIndex'
      /\ seeding' = FALSE /\ found' = <<>>
      /\ UNCHANGED <<text, blockStart, blockEnd, hashTable, hash3Table, treeTable, target,
                     repeats, noLiterals, walk>>
  BY Zenon DEF TreesInv, ForgetHistory
<1>2. /\ blockStart \in Nat /\ blockEnd \in Nat /\ blockStart <= blockEnd
      /\ indexOffset \in Nat /\ lowestIndex \in Nat
  BY <1>1, Zenon DEF TreeTypeOK, BlockTypes, IndexTypes
<1>3. size \in Nat
  BY <1>2
<1>4. /\ 2 <= lowestIndex /\ indexOffset <= lowestIndex
      /\ IndexOf(blockStart) = lowestIndex
  BY <1>1, Zenon DEF Numbering, WindowStartIndex
<1>5. lowestIndex' = IndexOf(blockEnd) /\ lowestIndex' \in Nat /\ lowestIndex' >= lowestIndex
  BY <1>1, <1>2, <1>3, <1>4 DEF IndexOf
<1>6. TreeTypeOK'
  <2>1. BlockTypes'
    BY <1>1, Zenon DEF TreeTypeOK, BlockTypes
  <2>2. IndexTypes'
    BY <1>1, <1>2, <1>3, <1>5 DEF IndexTypes
  <2>3. TableTypes'
    BY <1>1, Zenon DEF TreeTypeOK, TableTypes
  <2>4. CallTypes'
    <3>1. found' \in Seq([value : Nat, length : Nat])
      BY <1>1, EmptySeq
    <3>2. target \in Nat /\ repeats \in Offsets /\ noLiterals \in BOOLEAN /\ walk \in Walks
      BY <1>1, Zenon DEF TreeTypeOK, CallTypes
    <3> QED
      BY <1>1, <3>1, <3>2, Zenon DEF CallTypes
  <2> QED
    BY <2>1, <2>2, <2>3, <2>4 DEF TreeTypeOK
<1>7. Numbering'
  <2>1. 2 <= lowestIndex' /\ indexOffset' <= lowestIndex' /\ lowestIndex' <= nextToUpdate'
    BY <1>1, <1>2, <1>3, <1>4, <1>5
  <2> QED
    BY <1>1, <2>1, Zenon DEF Numbering, WindowStartIndex
\* Whatever the tables hold is below the lowest index now.
<1>8. \A b \in TreeBuckets3 : ~(hash3Table'[b] >= lowestIndex')
  <2>1. ASSUME NEW b \in TreeBuckets3, hash3Table[b] >= lowestIndex' PROVE FALSE
    <3>1. hash3Table[b] \in Nat
      BY <1>1 DEF TreeTypeOK, TableTypes
    <3>2. hash3Table[b] >= lowestIndex
      BY <1>2, <1>5, <2>1, <3>1
    <3>3. hash3Table[b] < IndexOf(blockEnd)
      BY <3>2 DEF TreesInv, Hash3Holds, Holds3
    <3> QED
      BY <1>5, <2>1, <3>1, <3>3
  <2> QED
    BY <1>1, <2>1
<1>9. Hash3Holds'
  BY <1>8 DEF Hash3Holds
<1>10. FoundHolds'
  BY <1>1, FoundNothing
<1>11. \A b \in TreeBuckets : ~(hashTable'[b] >= lowestIndex')
  <2>1. PICK ins, room : TreesGrow(ins, room)
    BY DEF TreesInv
  <2>2. /\ \A c \in ins : c < IndexOf(blockEnd)
        /\ \A b \in TreeBuckets : hashTable[b] >= lowestIndex => hashTable[b] \in ins
    BY <2>1, Zenon DEF TreesGrow, Inserted
  <2>3. ASSUME NEW b \in TreeBuckets, hashTable[b] >= lowestIndex' PROVE FALSE
    <3>1. hashTable[b] \in Nat
      BY <1>1 DEF TreeTypeOK, TableTypes
    <3>2. hashTable[b] >= lowestIndex
      BY <1>2, <1>5, <2>3, <3>1
    <3>3. hashTable[b] < IndexOf(blockEnd)
      BY <2>2, <3>2
    <3> QED
      BY <1>5, <2>3, <3>1, <3>3
  <2> QED
    BY <1>1, <2>3
<1>12. (\E ins, room : TreesGrow(ins, room))'
  BY <1>1, <1>11, NothingGrowsNext
<1> QED
  BY <1>6, <1>7, <1>9, <1>10, <1>12 DEF TreesInv

LEMMA FindAllMatchesKeeps ==
  ASSUME TreesInv, NEW p \in blockStart..blockEnd, NEW triple \in RepeatTriples, NEW none \in BOOLEAN,
         FindAllMatches(p, triple, none)
  PROVE  TreesInv'
<1>1. /\ TreeTypeOK /\ Numbering /\ Hash3Holds /\ treePhase = "idle" /\ treePhase' = "update"
      /\ p + Reserve <= blockEnd /\ IndexOf(p) >= nextToUpdate
      /\ target' = IndexOf(p) /\ repeats' = triple /\ noLiterals' = none /\ found' = <<>>
      /\ UNCHANGED <<text, blockStart, blockEnd, seeding, indexOffset, lowestIndex, nextToUpdate,
                     nextToUpdate3, hashTable, hash3Table, treeTable, walk>>
  BY Zenon DEF TreesInv, FindAllMatches
<1>2. /\ blockStart \in Nat /\ blockEnd \in Nat
      /\ indexOffset \in Nat /\ lowestIndex \in Nat /\ nextToUpdate \in Nat
  BY <1>1, Zenon DEF TreeTypeOK, BlockTypes, IndexTypes
<1>3. p \in Nat /\ target' = p + indexOffset /\ target' \in Nat /\ PositionOf(target)' = p
  BY <1>1, <1>2 DEF IndexOf, PositionOf
<1>4. nextToUpdate <= target' /\ lowestIndex <= nextToUpdate
  <2>1. lowestIndex <= nextToUpdate
    BY <1>1, Zenon DEF Numbering
  <2> QED
    BY <1>1, <1>2, <1>3, <2>1 DEF IndexOf
<1>5. TreeTypeOK'
  <2>1. BlockTypes' /\ IndexTypes' /\ TableTypes'
    BY <1>1, Zenon DEF TreeTypeOK, BlockTypes, IndexTypes, TableTypes
  <2>2. CallTypes'
    <3>1. found' \in Seq([value : Nat, length : Nat])
      BY <1>1, EmptySeq
    <3>2. triple \in Offsets
      BY TreesAssumption DEF Offsets
    <3>3. walk \in Walks
      BY <1>1, Zenon DEF TreeTypeOK, CallTypes
    <3> QED
      BY <1>1, <1>3, <3>1, <3>2, <3>3, Zenon DEF CallTypes
  <2> QED
    BY <2>1, <2>2 DEF TreeTypeOK
<1>6. Numbering'
  <2>1. lowestIndex' <= target' /\ PositionOf(target)' + Reserve' <= blockEnd'
    BY <1>1, <1>2, <1>3, <1>4
  <2>2. /\ WindowStartIndex <= lowestIndex' /\ indexOffset' <= lowestIndex' /\ lowestIndex' <= nextToUpdate'
        /\ seeding' => IndexOf(blockStart)' = lowestIndex'
    BY <1>1, Zenon DEF Numbering, IndexOf
  <2> QED
    BY <2>1, <2>2, Zenon DEF Numbering
<1>7. Hash3Holds'
  <2>1. ASSUME NEW b \in TreeBuckets3, hash3Table[b] >= lowestIndex PROVE Holds3(hash3Table[b])'
    <3>1. hash3Table[b] \in Nat
      BY <1>1 DEF TreeTypeOK, TableTypes
    <3>2. hash3Table[b] < IndexOf(blockEnd) /\ hash3Table[b] < nextToUpdate
      BY <1>1, <2>1 DEF Hash3Holds, Holds3
    <3>3. hash3Table[b] < target' /\ IndexOf(blockEnd)' = IndexOf(blockEnd)
      BY <1>1, <1>2, <1>3, <1>4, <3>1, <3>2 DEF IndexOf
    <3>4. hash3Table[b] < IndexOf(blockEnd)'
      BY <3>2, <3>3, Zenon
    <3> QED
      BY <1>1, <3>3, <3>4 DEF Holds3
  <2> QED
    BY <1>1, <2>1 DEF Hash3Holds, Holds3
<1>8. FoundHolds'
  BY <1>1, FoundNothing
<1>9. (\E ins, room : TreesGrow(ins, room))'
  <2>1. PICK ins, room : TreesGrow(ins, room)
    BY DEF TreesInv
  <2>2. /\ ins \in SUBSET Nat /\ (\A c \in ins : c < IndexOf(blockEnd) /\ c < nextToUpdate)
        /\ \A b \in TreeBuckets : hashTable[b] >= lowestIndex => hashTable[b] \in ins
    BY <1>1, <2>1, Zenon DEF TreesGrow, Inserted
  <2>3. /\ room \in [Int -> SUBSET Int] /\ \A c \in ins : c \in room[c]
        /\ SlotsHold(treeTable, lowestIndex, ins, room, Order, {})
    BY <1>1, <2>1, Zenon DEF TreesGrow
  <2>4. \A c \in ins : c < nextToUpdate' /\ c < target' /\ c < IndexOf(blockEnd)'
    <3>1. ASSUME NEW c \in ins PROVE c < nextToUpdate' /\ c < target' /\ c < IndexOf(blockEnd)'
      <4>1. c \in Nat /\ c < IndexOf(blockEnd) /\ c < nextToUpdate
        BY <2>2
      <4>2. c < target' /\ c < nextToUpdate'
        BY <1>1, <1>2, <1>3, <1>4, <4>1
      <4> QED
        BY <1>1, <4>1, <4>2, Zenon DEF IndexOf
    <3> QED
      BY <3>1
  <2>5. Inserted(ins)'
    BY <1>1, <2>2, <2>4 DEF Inserted
  <2>6. Order' = Order
    BY <1>1, OrderNext
  <2>7. TreesGrow(ins, room)'
    BY <1>1, <2>3, <2>5, <2>6 DEF TreesGrow
  <2> QED
    BY <2>7, Zenon
<1> QED
  BY <1>5, <1>6, <1>7, <1>8, <1>9 DEF TreesInv

\* An index that is newer than all begins its walk at the root of its tree.
LEMMA WalkBegins ==
  ASSUME TreeTypeOK, Numbering, NEW ins, NEW room, TreesGrow(ins, room), treePhase = "update",
         NEW x \in Nat, \A c \in ins : c < x, lowestIndex <= x,
         PositionOf(x) + Reserve <= blockEnd,
         NEW b \in TreeBuckets, hashTable' = [hashTable EXCEPT ![b] = x],
         treePhase' = "walk", walk'.index = x, walk'.match = hashTable[b],
         walk'.smallerCommon = 0, walk'.largerCommon = 0, walk'.matchEnd = x + Reserve + 1,
         PendingOf(walk') = [way \in 0..1 |-> ChildSlot(x, way)],
         \/ walk'.kind = "insert" /\ x = nextToUpdate' /\ x < target
         \/ walk'.kind = "search" /\ x = target,
         walk'.kind = "search" => PositionOf(x) + walk'.best < blockEnd,
         UNCHANGED <<text, blockEnd, indexOffset, lowestIndex, treeTable, target>>
  PROVE  (\E all, rooms : TreesGrow(all, rooms))'
<1> PICK m : m = hashTable[b]
  OBVIOUS
<1>1. /\ text \in Texts /\ blockEnd \in Nat /\ blockEnd <= Len(text)
      /\ indexOffset \in Nat /\ lowestIndex \in Nat /\ hashTable \in [TreeBuckets -> Nat]
  BY Zenon DEF TreeTypeOK, BlockTypes, IndexTypes, TableTypes
<1>2. /\ ins \in SUBSET Nat /\ (\A c \in ins : c < IndexOf(blockEnd))
      /\ \A e \in TreeBuckets : hashTable[e] >= lowestIndex => hashTable[e] \in ins
      /\ room \in [Int -> SUBSET Int] /\ (\A c \in ins : c \in room[c])
      /\ SlotsHold(treeTable, lowestIndex, ins, room, Order, {})
  BY Zenon DEF TreesGrow, Inserted
<1>3. Order' = Order
  BY OrderNext
<1>4. m \in Nat /\ (m >= lowestIndex => m \in ins)
  BY <1>1, <1>2
<1> PICK under : under = Order
  OBVIOUS
<1> PICK more : more = ins \cup {x}
  OBVIOUS
<1> PICK after : after = [room EXCEPT ![x] = Int]
  OBVIOUS
<1> PICK pending : pending = [way \in 0..1 |-> ChildSlot(x, way)]
  OBVIOUS
<1>5. /\ SlotsHold(treeTable, lowestIndex, more, after, under, {pending[0], pending[1]})
      /\ m >= lowestIndex => m < x /\ PendingHold(pending, m, x, more, after, under)
      /\ \A c \in more : c \in after[c]
      /\ after \in [Int -> SUBSET Int]
  <2>1. SlotsHold(treeTable, lowestIndex, ins, room, under, {})
    BY <1>2
  <2>2. /\ after \in [Int -> SUBSET Int] /\ after[x] = Int /\ \A c \in Int : c # x => after[c] = room[c]
        /\ pending[0] = ChildSlot(x, 0) /\ pending[1] = ChildSlot(x, 1)
    BY <1>2
  <2>3. WalkAhead(treeTable, lowestIndex, ins, room, under, x, m, after, pending)
    BY <1>2, <1>4, <2>1, <2>2, Zenon DEF WalkAhead
  <2>4. WalkBegan(treeTable, lowestIndex, ins, under, x, m, after, pending)
    BY <2>3, SlotsBegin
  <2> QED
    BY <2>2, <2>4, Zenon DEF WalkBegan
<1> PICK h : h = PositionOf(x)
  OBVIOUS
<1>6. Here' = h /\ h = x - indexOffset /\ h \in Nat /\ h < blockEnd /\ h + Reserve <= blockEnd
  <2>1. Here' = x - indexOffset /\ h = x - indexOffset
    BY DEF Here, PositionOf
  <2>2. indexOffset <= lowestIndex
    BY DEF Numbering
  <2> QED
    BY <1>1, <2>1, <2>2, TreeSizes
<1>7. Inserted(more)'
  <2>1. \A c \in more : c < IndexOf(blockEnd)'
    <3>1. IndexOf(blockEnd)' = blockEnd + indexOffset /\ IndexOf(blockEnd) = blockEnd + indexOffset
      BY DEF IndexOf
    <3>2. x < blockEnd + indexOffset
      BY <1>1, <1>6
    <3> QED
      BY <1>2, <3>1, <3>2
  <2>2. \A e \in TreeBuckets : hashTable'[e] >= lowestIndex' => hashTable'[e] \in more
    <3>1. ASSUME NEW e \in TreeBuckets, hashTable'[e] >= lowestIndex' PROVE hashTable'[e] \in more
      <4>1. hashTable'[e] = IF e = b THEN x ELSE hashTable[e]
        BY <1>1
      <4> QED
        BY <1>2, <3>1, <4>1
    <3> QED
      BY <3>1
  <2>3. more \in SUBSET Nat
    BY <1>2
  <2> QED
    BY <2>1, <2>2, <2>3 DEF Inserted
<1>8. x \in more /\ \A c \in more : c <= x
  BY <1>2
<1>9. \A t, e, p, g, y : IsNotOnSide(t, e, p, y, 0, g)
  BY DEF IsNotOnSide
<1>10. WalkGoes(more, after)'
  <2>1. walk'.index \in more /\ \A c \in more : c <= walk'.index
    BY <1>8
  <2>2. \/ walk'.kind = "insert" /\ walk'.index = nextToUpdate' /\ walk'.index < target'
        \/ walk'.kind = "search" /\ walk'.index = target'
    BY Zenon
  <2>3. Here' + Reserve <= blockEnd' /\ walk'.matchEnd > walk'.index + Reserve
    BY <1>6, TreeSizes
  <2>4. Here' + walk'.smallerCommon < blockEnd' /\ Here' + walk'.largerCommon < blockEnd'
    BY <1>6
  <2>5. walk'.kind = "search" /\ walk'.compares > 0 => Here' + walk'.best < blockEnd'
    BY <1>6, Zenon
  <2>6. SlotsHold(treeTable', lowestIndex', more, after, Order', {PendingOf(walk')[0], PendingOf(walk')[1]})
    BY <1>3, <1>5, Zenon
  <2>7. walk'.match >= lowestIndex' => walk'.match \in more /\ walk'.match < walk'.index
    BY <1>4, <1>5
  <2>8. walk'.match >= lowestIndex' =>
          PendingHold(PendingOf(walk'), walk'.match, walk'.index, more, after, Order')
    BY <1>3, <1>5, Zenon
  <2>9. \A p \in after[walk'.match] :
          /\ IsNotOnSide(text', blockEnd', PositionOf(p)', Here', walk'.smallerCommon, 0)
          /\ IsNotOnSide(text', blockEnd', PositionOf(p)', Here', walk'.largerCommon, 1)
    <3>1. ASSUME NEW p \in after[walk'.match]
          PROVE  /\ IsNotOnSide(text', blockEnd', PositionOf(p)', Here', walk'.smallerCommon, 0)
                 /\ IsNotOnSide(text', blockEnd', PositionOf(p)', Here', walk'.largerCommon, 1)
      <4> PICK q : q = PositionOf(p)'
        OBVIOUS
      <4>1. IsNotOnSide(text', blockEnd', q, Here', 0, 0) /\ IsNotOnSide(text', blockEnd', q, Here', 0, 1)
        BY <1>9, Zenon
      <4> QED
        BY <4>1, Zenon
    <3> QED
      BY <3>1, Zenon
  <2> QED
    BY <2>1, <2>2, <2>3, <2>4, <2>5, <2>6, <2>7, <2>8, <2>9, Zenon DEF WalkGoes
<1>11. TreesGrow(more, after)'
  BY <1>5, <1>7, <1>10, Zenon DEF TreesGrow
<1> QED
  BY <1>11, Zenon

LEMMA BeginInsertKeeps == ASSUME TreesInv, BeginInsert PROVE TreesInv'
<1> PICK x : x = nextToUpdate
  OBVIOUS
<1> PICK b : b = Bucket(Word(PositionOf(nextToUpdate), HashBytes))
  OBVIOUS
<1>1. /\ TreeTypeOK /\ Numbering /\ Hash3Holds /\ FoundHolds
      /\ treePhase = "update" /\ treePhase' = "walk" /\ x < target
      /\ walk' = Walk("insert", x, hashTable[b], SearchCount)
      /\ hashTable' = [hashTable EXCEPT ![b] = x]
      /\ UNCHANGED <<text, blockStart, blockEnd, seeding, indexOffset, lowestIndex,
                     nextToUpdate, nextToUpdate3, hash3Table, treeTable, target, repeats,
                     noLiterals, found>>
  BY Zenon DEF TreesInv, BeginInsert
<1>2. /\ text \in Texts /\ blockEnd \in Nat /\ blockEnd <= Len(text)
      /\ indexOffset \in Nat /\ lowestIndex \in Nat /\ x \in Nat /\ target \in Nat
      /\ hashTable \in [TreeBuckets -> Nat]
  BY <1>1, Zenon DEF TreeTypeOK, BlockTypes, IndexTypes, TableTypes, CallTypes
<1>3. indexOffset <= lowestIndex /\ lowestIndex <= x /\ PositionOf(target) + Reserve <= blockEnd
  BY <1>1 DEF Numbering
<1>4. PositionOf(x) = x - indexOffset /\ PositionOf(x) \in Nat /\ PositionOf(x) + Reserve <= blockEnd
  BY <1>1, <1>2, <1>3, TreeSizes DEF PositionOf
<1>5. b \in TreeBuckets
  BY <1>2, <1>4, BucketIs
<1>6. hashTable[b] \in Nat /\ SearchCount \in Nat
  BY <1>2, <1>5, TreeSizes
<1>7. /\ walk' \in Walks /\ walk'.kind = "insert" /\ walk'.index = x /\ walk'.match = hashTable[b]
      /\ walk'.smallerCommon = 0 /\ walk'.largerCommon = 0 /\ walk'.matchEnd = x + Reserve + 1
      /\ PendingOf(walk') = [way \in 0..1 |-> ChildSlot(x, way)]
  <2> PICK m : m = hashTable[b]
    OBVIOUS
  <2> PICK w : w = walk'
    OBVIOUS
  <2>1. w = Walk("insert", x, m, SearchCount) /\ m \in Nat /\ SearchCount \in Nat /\ x \in Nat
    BY <1>1, <1>2, <1>6, Zenon
  <2>2. /\ w \in Walks /\ w.kind = "insert" /\ w.index = x /\ w.match = m
        /\ w.smallerCommon = 0 /\ w.largerCommon = 0 /\ w.matchEnd = x + Reserve + 1
        /\ PendingOf(w) = [way \in 0..1 |-> ChildSlot(x, way)]
    <3>1. IsWalk(w, "insert", x, m, SearchCount)
      BY <2>1, WalkBegun, Zenon
    <3> QED
      BY <3>1, Zenon DEF IsWalk
  <2> QED
    BY <2>2, Zenon
<1>8. TreeTypeOK'
  <2>1. BlockTypes' /\ IndexTypes'
    BY <1>1, Zenon DEF TreeTypeOK, BlockTypes, IndexTypes
  <2>2. hashTable' \in [TreeBuckets -> Nat]
    BY <1>1, <1>2, <1>5
  <2>3. TableTypes'
    BY <1>1, <2>2, Zenon DEF TreeTypeOK, TableTypes
  <2>4. CallTypes'
    <3>1. treePhase' \in {"idle", "update", "walk"}
      BY <1>1
    <3> QED
      BY <1>1, <1>7, <3>1, Zenon DEF TreeTypeOK, CallTypes
  <2> QED
    BY <2>1, <2>3, <2>4 DEF TreeTypeOK
<1>9. Numbering'
  BY <1>1, Zenon DEF Numbering, IndexOf, PositionOf
<1>10. Hash3Holds'
  <2>1. ASSUME NEW e \in TreeBuckets3, hash3Table[e] >= lowestIndex PROVE Holds3(hash3Table[e])'
    <3>1. hash3Table[e] < IndexOf(blockEnd) /\ hash3Table[e] < target
      BY <1>1, <2>1 DEF Hash3Holds, Holds3
    <3> QED
      BY <1>1, <3>1 DEF Holds3, IndexOf
  <2> QED
    BY <1>1, <2>1 DEF Hash3Holds, Holds3
<1>11. FoundHolds'
  BY <1>1, <1>7, FoundStays
<1>12. (\E ins, room : TreesGrow(ins, room))'
  <2>1. PICK ins, room : TreesGrow(ins, room)
    BY DEF TreesInv
  <2>2. \A c \in ins : c < x
    BY <1>1, <2>1, Zenon DEF TreesGrow, Inserted
  <2>3. walk'.kind # "search"
    BY <1>7
  <2> QED
    BY <1>1, <1>2, <1>3, <1>4, <1>5, <1>7, <2>1, <2>2, <2>3, WalkBegins, Zenon
<1> QED
  BY <1>8, <1>9, <1>10, <1>11, <1>12 DEF TreesInv

LEMMA EndWalkKeeps == ASSUME TreesInv, EndWalk PROVE TreesInv'
<1>1. /\ TreeTypeOK /\ Numbering /\ Hash3Holds /\ FoundHolds /\ treePhase = "walk"
      /\ treeTable' = [slot \in DOMAIN treeTable |->
                         IF slot \in {walk.smaller, walk.larger} THEN 0 ELSE treeTable[slot]]
      /\ IF walk.kind = "insert"
         THEN nextToUpdate' = walk.index + Advance /\ treePhase' = "update"
         ELSE nextToUpdate' = walk.matchEnd - Reserve /\ treePhase' = "idle"
      /\ walk' = NoWalk
      /\ UNCHANGED <<text, blockStart, blockEnd, seeding, indexOffset, lowestIndex, nextToUpdate3,
                     hashTable, hash3Table, target, repeats, noLiterals, found>>
  BY Zenon DEF TreesInv, EndWalk
<1> PICK x : x = walk.index
  OBVIOUS
<1> PICK end : end = walk.matchEnd
  OBVIOUS
<1> PICK best : best = walk.best
  OBVIOUS
<1>2. x \in Nat /\ end \in Nat /\ best \in Nat
  BY <1>1, Zenon DEF TreeTypeOK, CallTypes, Walks
<1>3. PICK ins, room : TreesGrow(ins, room)
  BY DEF TreesInv
<1>4. /\ ins \in SUBSET Nat /\ (\A c \in ins : c < IndexOf(blockEnd))
      /\ \A b \in TreeBuckets : hashTable[b] >= lowestIndex => hashTable[b] \in ins
      /\ room \in [Int -> SUBSET Int] /\ (\A c \in ins : c \in room[c])
      /\ WalkGoes(ins, room)
  BY <1>1, <1>3, Zenon DEF TreesGrow, Inserted
<1>5. /\ \A c \in ins : c <= x
      /\ \/ walk.kind = "insert" /\ x = nextToUpdate /\ x < target
         \/ walk.kind = "search" /\ x = target
      /\ end > x + Reserve
      /\ SlotsHold(treeTable, lowestIndex, ins, room, Order, {PendingOf(walk)[0], PendingOf(walk)[1]})
  BY <1>4, Zenon DEF WalkGoes
<1>6. lowestIndex \in Nat /\ nextToUpdate \in Nat /\ target \in Nat /\ treeTable \in [TreeSlots -> Nat]
  BY <1>1, Zenon DEF TreeTypeOK, IndexTypes, TableTypes, CallTypes
<1>7. nextToUpdate' \in Nat /\ nextToUpdate' > x
  <2>1. CASE walk.kind = "insert"
    <3>1. nextToUpdate' = x + Advance
      BY <1>1, <2>1, Zenon
    <3>2. Advance \in Nat /\ Advance > 0
      <4>1. Advance = GreaterOf(IF best > TreeSkipThreshold
                                THEN LesserOf(best - TreeSkipThreshold, TreeSkipLimit) ELSE 0,
                                end - (x + Reserve))
        BY Zenon DEF Advance
      <4> QED
        BY <1>2, <1>5, <4>1, TreeSizes DEF GreaterOf, LesserOf
    <3> QED
      BY <1>2, <3>1, <3>2
  <2>2. CASE walk.kind # "insert"
    <3>1. nextToUpdate' = end - Reserve
      BY <1>1, <2>2, Zenon
    <3> QED
      BY <1>2, <1>5, <3>1, TreeSizes
  <2> QED
    BY <2>1, <2>2
<1>8. treePhase' \in {"idle", "update", "walk"} /\ treePhase' # "walk"
  BY <1>1
<1>9. lowestIndex <= target /\ PositionOf(target) + Reserve <= blockEnd
  BY <1>1 DEF Numbering
<1>10. lowestIndex <= nextToUpdate /\ lowestIndex <= nextToUpdate'
  <2>1. lowestIndex <= nextToUpdate
    BY <1>1, Zenon DEF Numbering
  <2>2. x = nextToUpdate \/ x = target
    BY <1>5, Zenon
  <2> QED
    BY <1>2, <1>6, <1>7, <1>9, <2>1, <2>2
<1>11. treePhase' = "update" => x < target
  <2>1. walk.kind = "search" => treePhase' = "idle"
    BY <1>1
  <2> QED
    BY <1>5, <2>1
<1>12. treePhase' = "idle" => x = target
  <2>1. walk.kind = "insert" => treePhase' = "update"
    BY <1>1
  <2> QED
    BY <1>5, <2>1
<1>13. TreeTypeOK'
  <2>1. BlockTypes'
    BY <1>1, Zenon DEF TreeTypeOK, BlockTypes
  <2>2. IndexTypes'
    BY <1>1, <1>7, Zenon DEF TreeTypeOK, IndexTypes
  <2>3. treeTable' \in [TreeSlots -> Nat]
    BY <1>1, <1>6
  <2>4. TableTypes'
    BY <1>1, <2>3, Zenon DEF TreeTypeOK, TableTypes
  <2>5. walk' \in Walks
    BY <1>1, WalkBegun DEF NoWalk
  <2>6. CallTypes'
    BY <1>1, <1>8, <2>5, Zenon DEF TreeTypeOK, CallTypes
  <2> QED
    BY <2>1, <2>2, <2>4, <2>6 DEF TreeTypeOK
<1>14. Numbering'
  BY <1>1, <1>9, <1>10, Zenon DEF Numbering, IndexOf, PositionOf
<1>15. Hash3Holds'
  <2>1. ASSUME NEW e \in TreeBuckets3, hash3Table[e] >= lowestIndex PROVE Holds3(hash3Table[e])'
    <3>1. hash3Table[e] < IndexOf(blockEnd) /\ hash3Table[e] < target /\ hash3Table[e] \in Nat
      BY <1>1, <2>1 DEF Hash3Holds, Holds3, TreeTypeOK, TableTypes
    <3>2. treePhase' = "idle" => hash3Table[e] < nextToUpdate'
      BY <1>2, <1>6, <1>7, <1>12, <3>1
    <3> QED
      BY <1>1, <3>1, <3>2 DEF Holds3, IndexOf
  <2> QED
    BY <1>1, <2>1 DEF Hash3Holds, Holds3
<1>16. FoundHolds'
  BY <1>1, <1>8, FoundStays
<1>17. TreesGrow(ins, room)'
  <2>1. \A c \in ins : c < nextToUpdate' /\ (treePhase' = "update" => c < target')
    <3>1. ASSUME NEW c \in ins PROVE c < nextToUpdate' /\ (treePhase' = "update" => c < target')
      <4>1. c \in Nat /\ c <= x /\ target' = target
        BY <1>1, <1>4, <1>5
      <4> QED
        BY <1>2, <1>6, <1>7, <1>11, <4>1
    <3> QED
      BY <3>1
  <2>2. Inserted(ins)'
    BY <1>1, <1>4, <2>1 DEF Inserted, IndexOf
  <2>3. SlotsHold(treeTable', lowestIndex', ins, room, Order', {})
    <3> PICK pending : pending = {walk.smaller, walk.larger}
      OBVIOUS
    <3>1. pending = {PendingOf(walk)[0], PendingOf(walk)[1]}
      <4>1. PendingOf(walk)[0] = walk.smaller /\ PendingOf(walk)[1] = walk.larger
        BY DEF PendingOf
      <4> QED
        BY <4>1
    <3> PICK under : under = Order
      OBVIOUS
    <3>2. Order' = under
      BY <1>1, OrderNext
    <3>3. SlotsHold(treeTable, lowestIndex, ins, room, under, pending)
      BY <1>5, <3>1, Zenon
    <3>4. /\ treeTable' = [slot \in 0..2 * TreeMask + 1 |-> IF slot \in pending THEN 0 ELSE treeTable[slot]]
          /\ treeTable \in [0..2 * TreeMask + 1 -> Int]
      BY <1>1, <1>6 DEF TreeSlots
    <3>5. lowestIndex > 0
      BY <1>1, <1>6 DEF Numbering, WindowStartIndex
    <3>6. SlotsHold(treeTable', lowestIndex, ins, room, under, {})
      BY <1>4, <1>6, <3>3, <3>4, <3>5, SlotsEnd
    <3> QED
      BY <1>1, <3>2, <3>6, Zenon
  <2> QED
    BY <1>4, <1>8, <2>2, <2>3, Zenon DEF TreesGrow
<1>18. (\E all, rooms : TreesGrow(all, rooms))'
  BY <1>17, Zenon
<1> QED
  BY <1>13, <1>14, <1>15, <1>16, <1>18 DEF TreesInv

\* Noting a length changes nothing but the best one and the end of the match.
LEMMA NoteIs ==
  ASSUME NEW w \in Walks, NEW n \in Nat
  PROVE  /\ Note(w, n) \in Walks
         /\ Note(w, n).kind = w.kind /\ Note(w, n).index = w.index /\ Note(w, n).match = w.match
         /\ Note(w, n).smallerCommon = w.smallerCommon /\ Note(w, n).largerCommon = w.largerCommon
         /\ Note(w, n).smaller = w.smaller /\ Note(w, n).larger = w.larger
         /\ Note(w, n).compares = w.compares
         /\ Note(w, n).best = IF n > w.best THEN n ELSE w.best
         /\ Note(w, n).matchEnd >= w.matchEnd
<1> PICK end : end = GreaterOf(w.matchEnd, w.match + n)
  OBVIOUS
<1>1. w.matchEnd \in Nat /\ w.match \in Nat
  BY DEF Walks
<1>2. end \in Nat /\ end >= w.matchEnd
  BY <1>1 DEF GreaterOf
<1>3. CASE n > w.best
  <2>1. Note(w, n) = [w EXCEPT !.best = n, !.matchEnd = end]
    BY <1>3 DEF Note
  <2> HIDE DEF Walks
  <2> PICK v : v = [w EXCEPT !.best = n, !.matchEnd = end]
    OBVIOUS
  <2>2. v \in Walks
    BY <1>2 DEF Walks
  <2>3. /\ v.kind = w.kind /\ v.index = w.index /\ v.match = w.match
        /\ v.smallerCommon = w.smallerCommon /\ v.largerCommon = w.largerCommon
        /\ v.smaller = w.smaller /\ v.larger = w.larger /\ v.compares = w.compares
        /\ v.best = n /\ v.matchEnd = end
    BY DEF Walks
  <2> QED
    BY <1>2, <1>3, <2>1, <2>2, <2>3, Zenon
<1>4. CASE ~(n > w.best)
  <2>1. Note(w, n) = w
    BY <1>4 DEF Note
  <2> QED
    BY <1>1, <1>4, <2>1
<1> QED
  BY <1>3, <1>4

LEMMA PendingIs ==
  ASSUME NEW w PROVE PendingOf(w)[0] = w.smaller /\ PendingOf(w)[1] = w.larger
  BY DEF PendingOf

IsLinked(linked, slot, m) ==
  /\ linked \in [TreeSlots -> Nat]
  /\ \A s \in TreeSlots : s # slot => linked[s] = treeTable[s]
  /\ slot # Dummy => linked[slot] = m

LEMMA LinkIs ==
  ASSUME TableTypes, NEW slot \in TreeSlots \cup {Dummy}, NEW m \in Nat
  PROVE  IsLinked(Link(slot, m), slot, m)
  BY DEF TableTypes, Link, IsLinked

\* What a step down changes of a walk.
WentDown(v, w, m, n, way, old, linked) ==
  /\ v \in Walks
  /\ v.kind = w.kind /\ v.index = w.index /\ v.best = w.best /\ v.matchEnd = w.matchEnd
  /\ v.smallerCommon = (IF way = 0 THEN n ELSE w.smallerCommon)
  /\ v.largerCommon = (IF way = 1 THEN n ELSE w.largerCommon)
  /\ v.match = IF old THEN 0 ELSE linked[ChildSlot(m, 1 - way)]
  /\ PendingOf(v)[way] = IF old THEN Dummy ELSE ChildSlot(m, 1 - way)
  /\ PendingOf(v)[1 - way] = PendingOf(w)[1 - way]
  /\ linked \in [TreeSlots -> Nat]
  /\ \A s \in TreeSlots : s # PendingOf(w)[way] => linked[s] = treeTable[s]
  /\ PendingOf(w)[way] # Dummy => linked[PendingOf(w)[way]] = m

LEMMA DescendIs ==
  ASSUME TableTypes, NEW w \in Walks, w.compares > 0, NEW n \in Nat, Descend(w, n),
         NEW way, way = IF ByteAt(There + n) < ByteAt(Here + n) THEN 0 ELSE 1,
         NEW old, old = (w.match <= TreeLow)
  PROVE  WentDown(walk', w, w.match, n, way, old, treeTable')
<1> PICK m : m = w.match
  OBVIOUS
<1> PICK slot : slot = 2 * (w.match % (TreeMask + 1))
  OBVIOUS
<1> PICK linked : linked = treeTable'
  OBVIOUS
<1> PICK v : v = walk'
  OBVIOUS
<1>1. /\ m \in Nat /\ w.smaller \in TreeSlots \cup {Dummy} /\ w.larger \in TreeSlots \cup {Dummy}
      /\ w.compares \in Nat /\ old \in BOOLEAN
  BY DEF Walks
<1>2. slot = ChildSlot(m, 0) /\ slot + 1 = ChildSlot(m, 1)
  <2>1. TreeMask + 1 \in Nat /\ TreeMask + 1 > 0
    BY TreeMaskIs
  <2>2. m % (TreeMask + 1) \in Nat
    BY <1>1, <2>1, Division
  <2> QED
    BY <2>2 DEF ChildSlot
<1>3. slot \in TreeSlots /\ slot + 1 \in TreeSlots
  BY <1>1, <1>2, ChildSlotIs DEF TreeSlots
<1>4. w.compares - 1 \in Nat
  BY <1>1
<1> PICK fewer : fewer = w.compares - 1
  OBVIOUS
<1>5. CASE way = 0
  <2>1. /\ linked = Link(w.smaller, m)
        /\ v = [w EXCEPT !.smallerCommon = n,
                         !.smaller = IF old THEN Dummy ELSE slot + 1,
                         !.match = IF old THEN 0 ELSE linked[slot + 1],
                         !.compares = fewer]
    <3>1. ByteAt(There + n) < ByteAt(Here + n)
      <4>1. 0 # 1
        OBVIOUS
      <4> QED
        BY <1>5, <4>1
    <3> QED
      BY <3>1, Zenon DEF Descend
  <2>2. /\ linked \in [TreeSlots -> Nat]
        /\ \A s \in TreeSlots : s # w.smaller => linked[s] = treeTable[s]
        /\ w.smaller # Dummy => linked[w.smaller] = m
    <3>1. IsLinked(Link(w.smaller, m), w.smaller, m)
      BY <1>1, LinkIs, Zenon
    <3>2. IsLinked(linked, w.smaller, m)
      BY <2>1, <3>1, Zenon
    <3> QED
      BY <3>2, Zenon DEF IsLinked
  <2> PICK onward, child : onward = (IF old THEN Dummy ELSE slot + 1)
                         /\ child = IF old THEN 0 ELSE linked[slot + 1]
    OBVIOUS
  <2>3. onward \in TreeSlots \cup {Dummy} /\ child \in Nat
    <3>1. linked[slot + 1] \in Nat
      BY <1>3, <2>2
    <3> QED
      BY <1>3, <3>1
  <2>4. v = [w EXCEPT !.smallerCommon = n, !.smaller = onward, !.match = child, !.compares = fewer]
    BY <2>1, Zenon
  <2>5. v \in Walks
    BY <1>4, <2>3, <2>4 DEF Walks
  <2>6. /\ v.kind = w.kind /\ v.index = w.index /\ v.best = w.best /\ v.matchEnd = w.matchEnd
        /\ v.smallerCommon = n /\ v.largerCommon = w.largerCommon
        /\ v.match = child /\ v.smaller = onward /\ v.larger = w.larger
    BY <2>4 DEF Walks
  <2>7. PendingOf(v)[0] = onward /\ PendingOf(v)[1] = w.larger
        /\ PendingOf(w)[0] = w.smaller /\ PendingOf(w)[1] = w.larger
    BY <2>6, PendingIs
  <2>8. 1 - way = 1 /\ way = 0 /\ way # 1
    BY <1>5
  <2>9. WentDown(v, w, m, n, way, old, linked)
    <3>1. v.smallerCommon = (IF way = 0 THEN n ELSE w.smallerCommon)
      BY <2>6, <2>8, Zenon
    <3>2. v.largerCommon = (IF way = 1 THEN n ELSE w.largerCommon)
      BY <2>6, <2>8, Zenon
    <3>3. v.match = IF old THEN 0 ELSE linked[ChildSlot(m, 1 - way)]
      BY <1>2, <2>6, <2>8, Zenon
    <3>4. PendingOf(v)[way] = IF old THEN Dummy ELSE ChildSlot(m, 1 - way)
      BY <1>2, <2>7, <2>8, Zenon
    <3>5. PendingOf(v)[1 - way] = PendingOf(w)[1 - way] /\ PendingOf(w)[way] = w.smaller
      BY <2>7, <2>8, Zenon
    <3> QED
      BY <2>2, <2>5, <2>6, <3>1, <3>2, <3>3, <3>4, <3>5, Zenon DEF WentDown
  <2> QED
    BY <2>9
<1>6. CASE way = 1
  <2>1. /\ linked = Link(w.larger, m)
        /\ v = [w EXCEPT !.largerCommon = n,
                         !.larger = IF old THEN Dummy ELSE slot,
                         !.match = IF old THEN 0 ELSE linked[slot],
                         !.compares = fewer]
    <3>1. ~(ByteAt(There + n) < ByteAt(Here + n))
      <4>1. 0 # 1
        OBVIOUS
      <4> QED
        BY <1>6, <4>1
    <3> QED
      BY <3>1, Zenon DEF Descend
  <2>2. /\ linked \in [TreeSlots -> Nat]
        /\ \A s \in TreeSlots : s # w.larger => linked[s] = treeTable[s]
        /\ w.larger # Dummy => linked[w.larger] = m
    <3>1. IsLinked(Link(w.larger, m), w.larger, m)
      BY <1>1, LinkIs, Zenon
    <3>2. IsLinked(linked, w.larger, m)
      BY <2>1, <3>1, Zenon
    <3> QED
      BY <3>2, Zenon DEF IsLinked
  <2> PICK onward, child : onward = (IF old THEN Dummy ELSE slot)
                         /\ child = IF old THEN 0 ELSE linked[slot]
    OBVIOUS
  <2>3. onward \in TreeSlots \cup {Dummy} /\ child \in Nat
    <3>1. linked[slot] \in Nat
      BY <1>3, <2>2
    <3> QED
      BY <1>3, <3>1
  <2>4. v = [w EXCEPT !.largerCommon = n, !.larger = onward, !.match = child, !.compares = fewer]
    BY <2>1, Zenon
  <2>5. v \in Walks
    BY <1>4, <2>3, <2>4 DEF Walks
  <2>6. /\ v.kind = w.kind /\ v.index = w.index /\ v.best = w.best /\ v.matchEnd = w.matchEnd
        /\ v.smallerCommon = w.smallerCommon /\ v.largerCommon = n
        /\ v.match = child /\ v.smaller = w.smaller /\ v.larger = onward
    BY <2>4 DEF Walks
  <2>7. PendingOf(v)[0] = w.smaller /\ PendingOf(v)[1] = onward
        /\ PendingOf(w)[0] = w.smaller /\ PendingOf(w)[1] = w.larger
    BY <2>6, PendingIs
  <2>8. 1 - way = 0 /\ way = 1 /\ way # 0
    BY <1>6
  <2>9. WentDown(v, w, m, n, way, old, linked)
    <3>1. v.smallerCommon = (IF way = 0 THEN n ELSE w.smallerCommon)
      BY <2>6, <2>8, Zenon
    <3>2. v.largerCommon = (IF way = 1 THEN n ELSE w.largerCommon)
      BY <2>6, <2>8, Zenon
    <3>3. v.match = IF old THEN 0 ELSE linked[ChildSlot(m, 1 - way)]
      BY <1>2, <2>6, <2>8, Zenon
    <3>4. PendingOf(v)[way] = IF old THEN Dummy ELSE ChildSlot(m, 1 - way)
      BY <1>2, <2>7, <2>8, Zenon
    <3>5. PendingOf(v)[1 - way] = PendingOf(w)[1 - way] /\ PendingOf(w)[way] = w.larger
      BY <2>7, <2>8, Zenon
    <3> QED
      BY <2>2, <2>5, <2>6, <3>1, <3>2, <3>3, <3>4, <3>5, Zenon DEF WentDown
  <2> QED
    BY <2>9
<1> QED
  BY <1>5, <1>6

\* Candidates that get longer and longer.
FoundAre(f) ==
  /\ f \in Seq([value : Nat, length : Nat])
  /\ \A i \in 1..Len(f) : IsCandidate(f[i])
  /\ \A i \in 2..Len(f) : f[i - 1].length < f[i].length

LEMMA FoundBefore ==
  ASSUME TreeTypeOK, FoundHolds PROVE FoundAre(found)
  BY Zenon DEF TreeTypeOK, CallTypes, FoundHolds, FoundAre

LEMMA BestIs ==
  ASSUME TreeTypeOK, NEW f, FoundAre(f)
  PROVE  /\ BestOf(f) \in Nat /\ BestOf(f) >= MinMatch - 1
         /\ f # <<>> => BestOf(f) <= blockEnd - PositionOf(target)
<1>1. f \in Seq([value : Nat, length : Nat]) /\ \A i \in 1..Len(f) : IsCandidate(f[i])
  BY DEF FoundAre
<1>2. MinMatch \in Nat \ {0} /\ blockEnd \in Nat /\ PositionOf(target) \in Int
  <2>1. target \in Nat /\ indexOffset \in Nat /\ blockEnd \in Nat
    BY Zenon DEF TreeTypeOK, BlockTypes, IndexTypes, CallTypes
  <2> QED
    BY <2>1, TreeSizes DEF PositionOf
<1>3. CASE f = <<>>
  BY <1>2, <1>3 DEF BestOf
<1>4. CASE f # <<>>
  <2>1. Len(f) \in 1..Len(f)
    BY <1>1, <1>4, LenProperties, EmptySeq
  <2>2. IsCandidate(f[Len(f)])
    BY <1>1, <2>1
  <2>3. f[Len(f)].length \in MinMatch..blockEnd - PositionOf(target)
    BY <2>2 DEF IsCandidate
  <2>4. BestOf(f) = f[Len(f)].length
    BY <1>4 DEF BestOf
  <2> QED
    BY <1>2, <2>3, <2>4
<1> QED
  BY <1>3, <1>4

LEMMA MoreFound ==
  ASSUME NEW f, FoundAre(f), NEW c \in [value : Nat, length : Nat], IsCandidate(c),
         c.length > BestOf(f)
  PROVE  FoundAre(Append(f, c)) /\ BestOf(Append(f, c)) = c.length
<1>1. /\ f \in Seq([value : Nat, length : Nat])
      /\ \A i \in 1..Len(f) : IsCandidate(f[i])
      /\ \A i \in 2..Len(f) : f[i - 1].length < f[i].length
  BY DEF FoundAre
<1> PICK g : g = Append(f, c)
  OBVIOUS
<1>2. /\ g \in Seq([value : Nat, length : Nat]) /\ Len(g) = Len(f) + 1 /\ Len(f) \in Nat
      /\ (\A i \in 1..Len(f) : g[i] = f[i]) /\ g[Len(f) + 1] = c
  BY <1>1, AppendProperties, LenProperties
<1>3. ASSUME NEW i \in 1..Len(g) PROVE IsCandidate(g[i])
  <2>1. i \in 1..Len(f) \/ i = Len(f) + 1
    BY <1>2
  <2>2. CASE i = Len(f) + 1
    BY <1>2, <2>2, Zenon
  <2>3. CASE i \in 1..Len(f)
    BY <1>1, <1>2, <2>3, Zenon
  <2> QED
    BY <2>1, <2>2, <2>3
<1>4. ASSUME NEW i \in 2..Len(g) PROVE g[i - 1].length < g[i].length
  <2>1. CASE i \in 2..Len(f)
    <3>1. i \in 1..Len(f) /\ i - 1 \in 1..Len(f)
      BY <1>2, <2>1
    <3>2. g[i] = f[i] /\ g[i - 1] = f[i - 1]
      BY <1>2, <3>1
    <3> QED
      BY <1>1, <2>1, <3>2
  <2>2. CASE i = Len(f) + 1
    <3>1. Len(f) \in 1..Len(f) /\ i - 1 = Len(f)
      BY <1>2, <2>2
    <3>2. g[i - 1] = f[Len(f)] /\ g[i] = c
      BY <1>2, <2>2, <3>1
    <3>3. f # <<>>
      BY <3>1
    <3>4. BestOf(f) = f[Len(f)].length
      BY <3>3 DEF BestOf
    <3>5. f[Len(f)].length \in Nat /\ c.length \in Nat
      <4>1. f[Len(f)] \in [value : Nat, length : Nat]
        BY <1>1, <3>1, ElementOfSeq
      <4> QED
        BY <4>1
    <3> QED
      BY <3>2, <3>4, <3>5
  <2> QED
    BY <1>2, <2>1, <2>2
<1>5. BestOf(g) = c.length
  <2>1. g # <<>>
    BY <1>2
  <2> QED
    BY <1>2, <2>1 DEF BestOf
<1> QED
  BY <1>2, <1>3, <1>4, <1>5 DEF FoundAre

LEMMA FoundNext ==
  ASSUME UNCHANGED <<repeats, noLiterals, target, text, blockEnd, indexOffset>>,
         NEW f, FoundAre(f), found' = f,
         treePhase' = "walk" /\ walk'.kind = "search" => walk'.best = BestOf(f)
  PROVE  FoundHolds'
<1>1. ASSUME NEW c, IsCandidate(c) PROVE IsCandidate(c)'
  BY <1>1 DEF IsCandidate, DistanceOf, PositionOf, ByteAt
<1>2. (\A i \in 1..Len(f) : IsCandidate(f[i])) /\ \A i \in 2..Len(f) : f[i - 1].length < f[i].length
  BY DEF FoundAre
<1>3. ASSUME NEW i \in 1..Len(f) PROVE IsCandidate(found[i])'
  <2> PICK c : c = f[i]
    OBVIOUS
  <2>1. IsCandidate(c)'
    BY <1>1, <1>2
  <2>2. found'[i] = c
    OBVIOUS
  <2> QED
    BY <2>1, <2>2, Zenon DEF IsCandidate, DistanceOf
<1>4. treePhase' = "walk" /\ walk'.kind = "search" => walk'.best = BestOf(found')
  BY Zenon
<1> QED
  BY <1>2, <1>3, <1>4, Zenon DEF FoundHolds

\* A comparison that goes on was undecided inside the block: on which side of
\* the walk's position the node is, its byte there says.
LEMMA SideIs ==
  ASSUME TreeTypeOK, NEW s \in Nat, NEW h \in Nat, NEW n \in Nat, s < h, h + n < blockEnd,
         Alike(text, blockEnd, s, h, n), ByteAt(h + n) # ByteAt(s + n),
         NEW way, way = IF ByteAt(s + n) < ByteAt(h + n) THEN 0 ELSE 1
  PROVE  way \in 0..1 /\ IsOnSide(text, blockEnd, s, h, way)
<1>1. text \in Texts /\ blockEnd \in Nat /\ blockEnd <= Len(text)
  BY Zenon DEF TreeTypeOK, BlockTypes
<1>2. IsBlock(text, blockEnd)
  BY <1>1, TextIs
<1> PICK p, q : p = TreeByte(text, blockEnd, s + n) /\ q = TreeByte(text, blockEnd, h + n)
  OBVIOUS
<1>3. p \in Int /\ q \in Int
  BY <1>2, TreeByteIs
<1>4. ByteAt(s + n) = p /\ ByteAt(h + n) = q
  <2>1. s + n \in Int /\ h + n \in Int
    OBVIOUS
  <2> QED
    BY <2>1, ByteAtIs, Zenon
<1>5. s + n < blockEnd
  BY <1>1
<1>6. CASE p < q
  <2>1. Precedes(text, blockEnd, s, h)
    BY <1>5, <1>6 DEF Precedes
  <2>2. way = 0
    BY <1>4, <1>6, Zenon
  <2> QED
    BY <2>1, <2>2 DEF IsOnSide
<1>7. CASE ~(p < q)
  <2>1. q < p
    BY <1>3, <1>4, <1>7
  <2>2. Alike(text, blockEnd, h, s, n)
    BY AlikeBack
  <2>3. Precedes(text, blockEnd, h, s)
    BY <1>5, <2>1, <2>2 DEF Precedes
  <2>4. way = 1
    BY <1>4, <1>7, Zenon
  <2> QED
    BY <2>3, <2>4 DEF IsOnSide
<1> QED
  BY <1>6, <1>7

\* What a comparison leaves of a walk in any case.
LEMMA WalkGoesOn ==
  ASSUME NEW ins, NEW room, WalkGoes(ins, room), TreeTypeOK,
         UNCHANGED <<text, blockEnd, indexOffset, lowestIndex, nextToUpdate, target>>,
         walk' \in Walks, walk'.index = walk.index, walk'.kind = walk.kind,
         walk'.matchEnd >= walk.matchEnd
  PROVE  /\ walk'.index \in ins /\ \A c \in ins : c <= walk'.index
         /\ \/ walk'.kind = "insert" /\ walk'.index = nextToUpdate' /\ walk'.index < target'
            \/ walk'.kind = "search" /\ walk'.index = target'
         /\ Here' = Here /\ Order' = Order
         /\ Here' + Reserve <= blockEnd' /\ walk'.matchEnd > walk'.index + Reserve
<1>1. walk.matchEnd > walk.index + Reserve /\ Here + Reserve <= blockEnd
  BY Zenon DEF WalkGoes
<1>2. Here' = Here
  BY Zenon DEF Here, PositionOf
<1>3. walk'.matchEnd > walk'.index + Reserve
  <2> PICK e, f, x : e = walk.matchEnd /\ f = walk'.matchEnd /\ x = walk.index
    OBVIOUS
  <2>1. e \in Nat /\ f \in Nat /\ x \in Nat
    BY Zenon DEF TreeTypeOK, CallTypes, Walks
  <2>2. e > x + Reserve /\ f >= e
    BY <1>1, Zenon
  <2>3. f > x + Reserve
    BY <2>1, <2>2, TreeSizes
  <2> QED
    BY <2>3, Zenon
<1>4. walk'.index \in ins /\ \A c \in ins : c <= walk'.index
  BY Zenon DEF WalkGoes
<1>5. \/ walk'.kind = "insert" /\ walk'.index = nextToUpdate' /\ walk'.index < target'
      \/ walk'.kind = "search" /\ walk'.index = target'
  BY Zenon DEF WalkGoes
<1>6. Order' = Order
  BY OrderNext
<1> QED
  BY <1>1, <1>2, <1>3, <1>4, <1>5, <1>6, Zenon

\* The walk goes down from a node.
LEMMA DescendGoes ==
  ASSUME TreeTypeOK, Numbering, NEW ins, NEW room, TreesGrow(ins, room), treePhase = "walk", Goes,
         NEW w, w = Note(walk, MatchLength), Descend(w, MatchLength), Here + MatchLength < blockEnd,
         UNCHANGED <<text, blockEnd, indexOffset, lowestIndex, nextToUpdate, target>>
  PROVE  /\ walk' \in Walks /\ treeTable' \in [TreeSlots -> Nat]
         /\ walk'.kind = walk.kind /\ walk'.best = w.best
         /\ \E after : /\ after \in [Int -> SUBSET Int] /\ \A c \in ins : c \in after[c]
                       /\ WalkGoes(ins, after)'
<1> PICK x : x = walk.index
  OBVIOUS
<1> PICK m : m = walk.match
  OBVIOUS
<1> PICK k0, k1 : k0 = walk.smallerCommon /\ k1 = walk.largerCommon
  OBVIOUS
<1> PICK n : n = MatchLength
  OBVIOUS
<1> PICK h, s : h = Here /\ s = There
  OBVIOUS
<1> PICK v : v = walk'
  OBVIOUS
<1>1. /\ text \in Texts /\ blockEnd \in Nat /\ blockEnd <= Len(text)
      /\ indexOffset \in Nat /\ lowestIndex \in Nat /\ target \in Nat /\ TableTypes /\ walk \in Walks
  BY Zenon DEF TreeTypeOK, BlockTypes, IndexTypes, CallTypes
<1>2. x \in Nat /\ m \in Nat /\ k0 \in Nat /\ k1 \in Nat /\ walk.compares \in Nat
  BY <1>1, Zenon DEF Walks
<1>3. /\ m \in ins /\ x \in ins /\ m < x /\ m >= lowestIndex
      /\ h \in Nat /\ s \in Nat /\ s < h /\ n \in Nat /\ h + n < blockEnd
      /\ Alike(text, blockEnd, s, h, n)
      /\ h + n = blockEnd \/ TreeByte(text, blockEnd, h + n) # TreeByte(text, blockEnd, s + n)
  BY NodeIs, Zenon
<1>4. /\ WalkGoes(ins, room) /\ room \in [Int -> SUBSET Int] /\ (\A c \in ins : c \in room[c])
      /\ ins \in SUBSET Nat
  BY Zenon DEF TreesGrow, Inserted
<1>5. /\ w \in Walks /\ w.kind = walk.kind /\ w.index = x /\ w.match = m
      /\ w.smallerCommon = k0 /\ w.largerCommon = k1
      /\ w.smaller = walk.smaller /\ w.larger = walk.larger /\ w.compares = walk.compares
      /\ w.best = (IF n > walk.best THEN n ELSE walk.best) /\ w.matchEnd >= walk.matchEnd
  BY <1>1, <1>3, NoteIs, Zenon
<1> PICK way : way = IF ByteAt(s + n) < ByteAt(h + n) THEN 0 ELSE 1
  OBVIOUS
<1> PICK old : old = (m <= TreeLow)
  OBVIOUS
<1> PICK linked : linked = treeTable'
  OBVIOUS
<1>6. WentDown(v, w, m, n, way, old, linked)
  <2>1. w.compares > 0
    BY <1>5, Zenon DEF Goes
  <2>2. way = (IF ByteAt(There + n) < ByteAt(Here + n) THEN 0 ELSE 1) /\ old = (w.match <= TreeLow)
    BY <1>5, Zenon
  <2>3. Descend(w, n) /\ n \in Nat
    BY <1>3, Zenon
  <2>4. WentDown(walk', w, w.match, n, way, old, treeTable')
    BY <1>1, <1>5, <2>1, <2>2, <2>3, DescendIs, Zenon
  <2> QED
    BY <1>5, <2>4, Zenon
<1>7. way \in 0..1 /\ IsOnSide(text, blockEnd, s, h, way)
  <2>1. ByteAt(h + n) = TreeByte(text, blockEnd, h + n) /\ ByteAt(s + n) = TreeByte(text, blockEnd, s + n)
    <3>1. h + n \in Int /\ s + n \in Int
      BY <1>3
    <3> QED
      BY <3>1, ByteAtIs
  <2>2. h + n # blockEnd
    BY <1>1, <1>3
  <2>3. ByteAt(h + n) # ByteAt(s + n)
    BY <1>3, <2>1, <2>2, Zenon
  <2> QED
    BY <1>3, <2>3, SideIs, Zenon
<1> PICK under : under = Order
  OBVIOUS
<1>8. /\ IsOrder(under)
      /\ \A p, c \in Int, side \in 0..1 :
           Beside(under, p, c, side) <=> IsOnSide(text, blockEnd, PositionOf(p), PositionOf(c), side)
  <2>1. IsBlock(text, blockEnd) /\ indexOffset \in Int
    BY <1>1, TextIs
  <2>2. \A p : PositionOf(p) = p - indexOffset
    BY DEF PositionOf
  <2>3. under = OrderOf(text, blockEnd, indexOffset)
    BY Zenon DEF Order
  <2> QED
    BY <2>1, <2>2, <2>3, OrderIs, Zenon
<1>9. PositionOf(m) = s /\ PositionOf(x) = h /\ m \in Int /\ x \in Int
  <2>1. PositionOf(m) = s /\ PositionOf(x) = h
    BY Zenon DEF Here, There
  <2> QED
    BY <1>2, <2>1
<1>10. Beside(under, m, x, way)
  BY <1>7, <1>8, <1>9, Zenon
<1>11. old \in BOOLEAN /\ (old <=> m <= x - TreeMask)
  <2>1. TreeLow = GreaterOf(x - TreeMask, 0)
    BY Zenon DEF TreeLow
  <2>2. m > 0
    BY <1>1, <1>2, <1>3 DEF Numbering, WindowStartIndex
  <2>3. m <= TreeLow <=> m <= x - TreeMask
    BY <1>2, <2>1, <2>2, TreeSizes DEF GreaterOf
  <2>4. old \in BOOLEAN
    OBVIOUS
  <2>5. old <=> m <= TreeLow
    BY Zenon
  <2> QED
    BY <2>3, <2>4, <2>5, Zenon
<1> PICK after : after = [room EXCEPT ![m] = {p \in room[m] : Beside(under, p, x, way)}]
  OBVIOUS
<1>12. /\ after[m] = {p \in room[m] : Beside(under, p, x, way)}
       /\ after \in [Int -> SUBSET Int] /\ \A c \in Int : c # m => after[c] = room[c]
  <2>1. {p \in room[m] : Beside(under, p, x, way)} \in SUBSET Int
    BY <1>4, <1>9
  <2> QED
    BY <1>4, <1>9, <2>1
<1> PICK pending, kept : pending = PendingOf(walk) /\ kept = PendingOf(v)
  OBVIOUS
<1>13. pending = PendingOf(w)
  BY <1>5 DEF PendingOf
<1> PICK child : child = v.match
  OBVIOUS
<1>14. /\ \A c \in ins : c <= x
       /\ h + k0 < blockEnd /\ h + k1 < blockEnd
       /\ walk.kind = "search" /\ walk.compares > 0 => h + walk.best < blockEnd
       /\ SlotsHold(treeTable, lowestIndex, ins, room, under, {pending[0], pending[1]})
       /\ PendingHold(pending, m, x, ins, room, under)
       /\ \A p \in room[m] :
            /\ IsNotOnSide(text, blockEnd, PositionOf(p), h, k0, 0)
            /\ IsNotOnSide(text, blockEnd, PositionOf(p), h, k1, 1)
  BY <1>3, <1>4, Zenon DEF WalkGoes
<1>15. WalkVisits(treeTable, lowestIndex, ins, room, under, x, m, way, pending, old, linked, after, kept, child)
  <2>1. lowestIndex > 0
    BY <1>1 DEF Numbering, WindowStartIndex
  <2>2. /\ \A e \in 0..2 * TreeMask + 1 : e # pending[way] => linked[e] = treeTable[e]
        /\ pending[way] # Dummy => linked[pending[way]] = m
        /\ kept[way] = IF old THEN Dummy ELSE ChildSlot(m, 1 - way)
        /\ kept[1 - way] = pending[1 - way]
        /\ child = IF old THEN 0 ELSE linked[ChildSlot(m, 1 - way)]
    BY <1>6, <1>13, Zenon DEF WentDown, TreeSlots
  <2> QED
    BY <1>1, <1>3, <1>4, <1>7, <1>8, <1>10, <1>11, <1>12, <1>14, <2>1, <2>2, Zenon DEF WalkVisits
<1>15a. WalkVisited(lowestIndex, ins, room, under, x, m, way, linked, after, kept, child)
  BY <1>15, SlotsVisit
<1>16. SlotsHold(linked, lowestIndex, ins, after, under, {kept[0], kept[1]})
  BY <1>15a, Zenon DEF WalkVisited
<1>17. child >= lowestIndex =>
         /\ child \in ins /\ child < m
         /\ \A p \in after[child] : Beside(under, p, m, 1 - way) /\ p \in room[m]
         /\ PendingHold(kept, child, x, ins, after, under)
  BY <1>15a, Zenon DEF WalkVisited
<1>18. \A c \in ins : c \in after[c]
  BY <1>15a, Zenon DEF WalkVisited
<1>19. /\ v \in Walks /\ v.kind = w.kind /\ v.index = x /\ v.best = w.best /\ v.matchEnd = w.matchEnd
       /\ v.smallerCommon = (IF way = 0 THEN n ELSE k0)
       /\ v.largerCommon = (IF way = 1 THEN n ELSE k1)
       /\ linked \in [TreeSlots -> Nat]
  BY <1>5, <1>6, Zenon DEF WentDown
<1>20. /\ walk' \in Walks /\ walk'.index = walk.index /\ walk'.kind = walk.kind
       /\ walk'.matchEnd >= walk.matchEnd
  BY <1>5, <1>19, Zenon
<1>21. /\ walk'.index \in ins /\ \A c \in ins : c <= walk'.index
       /\ \/ walk'.kind = "insert" /\ walk'.index = nextToUpdate' /\ walk'.index < target'
          \/ walk'.kind = "search" /\ walk'.index = target'
       /\ Here' = Here /\ Order' = Order
       /\ Here' + Reserve <= blockEnd' /\ walk'.matchEnd > walk'.index + Reserve
  BY <1>4, <1>20, WalkGoesOn
<1>22. h + v.smallerCommon < blockEnd /\ h + v.largerCommon < blockEnd
  BY <1>3, <1>14, <1>19
<1>23. v.kind = "search" => h + v.best < blockEnd
  <2>1. ASSUME v.kind = "search" PROVE h + v.best < blockEnd
    <3>1. walk.kind = "search" /\ walk.compares > 0
      BY <1>5, <1>19, <2>1, Zenon DEF Goes
    <3>2. h + walk.best < blockEnd
      BY <1>14, <3>1, Zenon
    <3> QED
      BY <1>3, <1>5, <1>19, <3>2
  <2> QED
    BY <2>1
<1>24. ASSUME child >= lowestIndex, NEW p \in after[child]
       PROVE  /\ IsNotOnSide(text, blockEnd, PositionOf(p), h, v.smallerCommon, 0)
              /\ IsNotOnSide(text, blockEnd, PositionOf(p), h, v.largerCommon, 1)
  <2>1. p \in room[m] /\ Beside(under, p, m, 1 - way)
    BY <1>17, <1>24, Zenon
  <2>2. p \in Int
    BY <1>4, <1>9, <2>1
  <2> PICK q : q = PositionOf(p)
    OBVIOUS
  <2>3. q \in Int
    BY <1>1, <2>2 DEF PositionOf
  <2>4. 1 - way \in 0..1
    BY <1>7
  <2>5. IsOnSide(text, blockEnd, q, s, 1 - way)
    BY <1>8, <1>9, <2>1, <2>2, <2>4, Zenon
  <2>6. IsNotOnSide(text, blockEnd, q, h, n, way)
    <3>1. IsBlock(text, blockEnd)
      BY <1>1, TextIs
    <3> QED
      BY <1>3, <1>7, <2>3, <2>5, <3>1, BeyondIsNotOnSide, Zenon
  <2>7. IsNotOnSide(text, blockEnd, q, h, k0, 0) /\ IsNotOnSide(text, blockEnd, q, h, k1, 1)
    BY <1>14, <2>1, Zenon
  <2>8. (way = 0 \/ way = 1) /\ 0 # 1
    BY <1>7
  <2> QED
    BY <1>19, <2>6, <2>7, <2>8, Zenon
<1>25. WalkGoes(ins, after)'
  <2>1. Here' = h /\ Order' = under
    BY <1>21, Zenon
  <2>2. Here' + walk'.smallerCommon < blockEnd' /\ Here' + walk'.largerCommon < blockEnd'
    BY <1>22, <2>1, Zenon
  <2>3. walk'.kind = "search" /\ walk'.compares > 0 => Here' + walk'.best < blockEnd'
    BY <1>23, <2>1, Zenon
  <2>4. SlotsHold(treeTable', lowestIndex', ins, after, Order', {PendingOf(walk')[0], PendingOf(walk')[1]})
    BY <1>16, <2>1, Zenon
  <2>5. walk'.match >= lowestIndex' => walk'.match \in ins /\ walk'.match < walk'.index
    <3>1. ASSUME child >= lowestIndex PROVE child \in ins /\ child < x
      <4>1. child \in ins /\ child < m /\ child \in Nat
        BY <1>4, <1>17, <3>1
      <4> QED
        BY <1>2, <1>3, <4>1
    <3> QED
      BY <1>19, <3>1, Zenon
  <2>6. walk'.match >= lowestIndex' =>
          PendingHold(PendingOf(walk'), walk'.match, walk'.index, ins, after, Order')
    BY <1>17, <1>19, <2>1, Zenon
  <2>7. \A p : PositionOf(p)' = PositionOf(p)
    BY DEF PositionOf
  <2>8. walk'.match >= lowestIndex' =>
          \A p \in after[walk'.match] :
            /\ IsNotOnSide(text', blockEnd', PositionOf(p)', Here', walk'.smallerCommon, 0)
            /\ IsNotOnSide(text', blockEnd', PositionOf(p)', Here', walk'.largerCommon, 1)
    BY <1>24, <2>1, <2>7, Zenon
  <2> QED
    BY <1>21, <2>2, <2>3, <2>4, <2>5, <2>6, <2>8, Zenon DEF WalkGoes
<1>26. walk' \in Walks /\ treeTable' \in [TreeSlots -> Nat] /\ walk'.kind = walk.kind /\ walk'.best = w.best
  BY <1>5, <1>19, Zenon
<1> QED
  BY <1>12, <1>18, <1>25, <1>26, Zenon

\* The walk ends with a match that says on no side what it is.
LEMMA EndGoes ==
  ASSUME TreeTypeOK, NEW ins, NEW room, TreesGrow(ins, room), treePhase = "walk",
         NEW n \in Nat, walk' = [Note(walk, n) EXCEPT !.compares = 0],
         UNCHANGED <<text, blockEnd, indexOffset, lowestIndex, nextToUpdate, target, treeTable>>
  PROVE  /\ walk' \in Walks /\ walk'.kind = walk.kind /\ walk'.best = Note(walk, n).best
         /\ room \in [Int -> SUBSET Int] /\ (\A c \in ins : c \in room[c])
         /\ WalkGoes(ins, room)'
<1> PICK w : w = Note(walk, n)
  OBVIOUS
<1> PICK v : v = walk'
  OBVIOUS
<1>1. walk \in Walks
  BY Zenon DEF TreeTypeOK, CallTypes
<1>2. /\ w \in Walks /\ w.kind = walk.kind /\ w.index = walk.index /\ w.match = walk.match
      /\ w.smallerCommon = walk.smallerCommon /\ w.largerCommon = walk.largerCommon
      /\ w.smaller = walk.smaller /\ w.larger = walk.larger /\ w.matchEnd >= walk.matchEnd
  BY <1>1, NoteIs, Zenon
<1>3. v = [w EXCEPT !.compares = 0]
  BY Zenon
<1>4. /\ v \in Walks /\ v.kind = w.kind /\ v.index = w.index /\ v.match = w.match
      /\ v.smallerCommon = w.smallerCommon /\ v.largerCommon = w.largerCommon
      /\ v.smaller = w.smaller /\ v.larger = w.larger /\ v.matchEnd = w.matchEnd /\ v.best = w.best
      /\ v.compares = 0
  BY <1>2, <1>3 DEF Walks
<1>5. WalkGoes(ins, room) /\ room \in [Int -> SUBSET Int] /\ (\A c \in ins : c \in room[c])
  BY Zenon DEF TreesGrow
<1>6. /\ walk' \in Walks /\ walk'.index = walk.index /\ walk'.kind = walk.kind
      /\ walk'.matchEnd >= walk.matchEnd
  BY <1>2, <1>4, Zenon
<1>7. /\ walk'.index \in ins /\ \A c \in ins : c <= walk'.index
      /\ \/ walk'.kind = "insert" /\ walk'.index = nextToUpdate' /\ walk'.index < target'
         \/ walk'.kind = "search" /\ walk'.index = target'
      /\ Here' = Here /\ Order' = Order
      /\ Here' + Reserve <= blockEnd' /\ walk'.matchEnd > walk'.index + Reserve
  BY <1>5, <1>6, WalkGoesOn
<1>8. PendingOf(walk') = PendingOf(walk) /\ walk'.match = walk.match /\ ~(walk'.compares > 0)
      /\ walk'.smallerCommon = walk.smallerCommon /\ walk'.largerCommon = walk.largerCommon
  <2>1. PendingOf(v) = PendingOf(walk)
    BY <1>2, <1>4, Zenon DEF PendingOf
  <2>2. ~(v.compares > 0)
    BY <1>4
  <2> QED
    BY <1>2, <1>4, <2>1, <2>2, Zenon
<1>9. \A p : PositionOf(p)' = PositionOf(p)
  BY DEF PositionOf
<1>10. WalkGoes(ins, room)'
  BY <1>5, <1>6, <1>7, <1>8, <1>9, Zenon DEF WalkGoes
<1> QED
  BY <1>4, <1>5, <1>6, <1>10, Zenon

\* A node that is longer than what was found is a candidate.
LEMMA NodeIsCandidate ==
  ASSUME TreeTypeOK, Numbering, FoundHolds, NEW ins, NEW room, TreesGrow(ins, room),
         treePhase = "walk", Goes, walk.kind = "search", MatchLength > walk.best,
         NEW c, c = CandidateOf(walk.index - walk.match + 3, MatchLength)
  PROVE  c \in [value : Nat, length : Nat] /\ IsCandidate(c) /\ c.length = MatchLength
<1> PICK x, m, n : x = walk.index /\ m = walk.match /\ n = MatchLength
  OBVIOUS
<1> PICK h, s : h = Here /\ s = There
  OBVIOUS
<1>1. /\ blockEnd \in Nat /\ indexOffset \in Nat /\ repeats \in Offsets /\ noLiterals \in BOOLEAN
      /\ walk \in Walks
  BY Zenon DEF TreeTypeOK, BlockTypes, IndexTypes, CallTypes
<1>2. x \in Nat /\ m \in Nat /\ walk.best \in Nat
  BY <1>1, Zenon DEF Walks
<1>3. /\ m < x
      /\ x - m <= MaxDistance \/ walk.kind = "insert"
      /\ h \in Nat /\ s \in Nat /\ s < h /\ n \in Nat /\ h + n <= blockEnd
      /\ Alike(text, blockEnd, s, h, n)
  BY NodeIs, Zenon
<1>4. x - m <= MaxDistance /\ m < x
  <2>1. walk.kind # "insert"
    OBVIOUS
  <2> QED
    BY <1>3, <2>1
<1>5. x = target
  BY Zenon DEF TreesGrow, WalkGoes
<1>6. h = x - indexOffset /\ s = m - indexOffset /\ PositionOf(target) = h
  <2>1. h = PositionOf(x) /\ s = PositionOf(m)
    BY Zenon DEF Here, There
  <2> QED
    BY <1>5, <2>1 DEF PositionOf
<1> PICK d : d = x - m
  OBVIOUS
<1>7. d \in Nat \ {0} /\ d <= MaxDistance /\ d <= h /\ h - d = s
  BY <1>1, <1>2, <1>3, <1>4, <1>6
<1>8. c = CandidateOf(d + 3, n) /\ c.value = d + 3 /\ c.length = n
  BY DEF CandidateOf
<1>9. DistanceOf(c) = d
  <2>1. GetOffset(repeats, d + 3, noLiterals).first = d
    BY <1>1, <1>7, DistanceIsHeld
  <2> QED
    BY <1>8, <2>1, Zenon DEF DistanceOf
<1>10. d \in 1..LesserOf(MaxDistance, h)
  BY <1>3, <1>7, TreeSizes DEF LesserOf
<1>11. n \in MinMatch..blockEnd - h
  <2>1. FoundAre(found)
    BY FoundBefore
  <2>2. walk.best = BestOf(found)
    BY Zenon DEF FoundHolds
  <2>3. walk.best >= MinMatch - 1
    BY <2>1, <2>2, BestIs
  <2>4. n > walk.best
    BY Zenon
  <2> QED
    BY <1>1, <1>2, <1>3, <2>3, <2>4, TreeSizes
<1>12. \A i \in 0..n - 1 : ByteAt(h + i) = ByteAt(h - d + i)
  <2>1. ASSUME NEW i \in 0..n - 1 PROVE ByteAt(h + i) = ByteAt(h - d + i)
    <3>1. TreeByte(text, blockEnd, s + i) = TreeByte(text, blockEnd, h + i)
      BY <1>3, <2>1 DEF Alike
    <3>2. s + i \in Int /\ h + i \in Int /\ h - d + i = s + i
      BY <1>3, <1>7
    <3> QED
      BY <3>1, <3>2, ByteAtIs, Zenon
  <2> QED
    BY <2>1
<1>13. IsCandidate(c)
  BY <1>6, <1>8, <1>9, <1>10, <1>11, <1>12, Zenon DEF IsCandidate
<1>14. c \in [value : Nat, length : Nat]
  <2>1. d + 3 \in Nat
    BY <1>7
  <2> QED
    BY <1>3, <1>8, <2>1 DEF CandidateOf
<1> QED
  BY <1>8, <1>13, <1>14, Zenon

LEMMA CompareNodeKeeps == ASSUME TreesInv, CompareNode PROVE TreesInv'
<1> PICK n : n = MatchLength
  OBVIOUS
<1> PICK w : w = Note(walk, n)
  OBVIOUS
<1>1. /\ TreeTypeOK /\ Numbering /\ Hash3Holds /\ FoundHolds
      /\ treePhase = "walk" /\ treePhase' = "walk" /\ Goes
      /\ found' = IF walk.kind = "search" /\ n > walk.best
                  THEN Append(found, CandidateOf(walk.index - walk.match + 3, n)) ELSE found
      /\ IF EndsWalk(n) THEN walk' = [w EXCEPT !.compares = 0] /\ UNCHANGED treeTable
                        ELSE Descend(w, n)
      /\ UNCHANGED <<text, blockStart, blockEnd, seeding, indexOffset, lowestIndex,
                     nextToUpdate, nextToUpdate3, hashTable, hash3Table, target, repeats,
                     noLiterals>>
  BY Zenon DEF TreesInv, CompareNode
<1>2. PICK ins, room : TreesGrow(ins, room)
  BY DEF TreesInv
<1>3. /\ text \in Texts /\ blockEnd \in Nat /\ treeTable \in [TreeSlots -> Nat] /\ walk \in Walks
      /\ found \in Seq([value : Nat, length : Nat])
  BY <1>1, Zenon DEF TreeTypeOK, BlockTypes, TableTypes, CallTypes
<1>4. n \in Nat /\ Here \in Nat /\ Here + n <= blockEnd
  BY <1>1, <1>2, NodeIs, Zenon
<1>5. w.best = IF n > walk.best THEN n ELSE walk.best
  BY <1>3, <1>4, NoteIs, Zenon
<1>6. /\ walk' \in Walks /\ treeTable' \in [TreeSlots -> Nat]
      /\ walk'.kind = walk.kind /\ walk'.best = w.best
      /\ \E after : /\ after \in [Int -> SUBSET Int] /\ \A c \in ins : c \in after[c]
                    /\ WalkGoes(ins, after)'
  <2>1. CASE EndsWalk(n)
    <3>1. walk' = [Note(walk, n) EXCEPT !.compares = 0] /\ UNCHANGED treeTable
      BY <1>1, <2>1, Zenon
    <3>2. UNCHANGED <<text, blockEnd, indexOffset, lowestIndex, nextToUpdate, target, treeTable>>
      BY <1>1, <3>1
    <3>3. /\ walk' \in Walks /\ walk'.kind = walk.kind /\ walk'.best = Note(walk, n).best
          /\ room \in [Int -> SUBSET Int] /\ (\A c \in ins : c \in room[c])
          /\ WalkGoes(ins, room)'
      BY <1>1, <1>2, <1>4, <3>1, <3>2, EndGoes
    <3> QED
      BY <1>3, <3>1, <3>3, Zenon
  <2>2. CASE ~EndsWalk(n)
    <3>1. Descend(w, MatchLength) /\ w = Note(walk, MatchLength)
      BY <1>1, <2>2, Zenon
    <3>2. UNCHANGED <<text, blockEnd, indexOffset, lowestIndex, nextToUpdate, target>>
      BY <1>1
    <3>3. Here + MatchLength < blockEnd
      <4> PICK h : h = Here
        OBVIOUS
      <4>1. CASE walk.kind = "insert"
        <5>1. h + n # blockEnd
          BY <2>2, <4>1, Zenon DEF EndsWalk
        <5>2. h + n < blockEnd
          BY <1>3, <1>4, <5>1
        <5> QED
          BY <5>2, Zenon
      <4>2. CASE walk.kind # "insert"
        <5>1. ~(n > walk.best) \/ h + n # blockEnd
          BY <2>2, <4>2, Zenon DEF EndsWalk
        <5>2. walk.kind = "search" /\ walk.compares > 0 => h + walk.best < blockEnd
          BY <1>1, <1>2, Zenon DEF TreesGrow, WalkGoes
        <5>3. walk.kind = "search" /\ walk.compares > 0
          BY <1>1, <1>2, <4>2, Zenon DEF TreesGrow, WalkGoes, Goes
        <5>4. h + walk.best < blockEnd /\ walk.best \in Nat
          BY <1>3, <5>2, <5>3, Zenon DEF Walks
        <5>5. h + n < blockEnd
          BY <1>3, <1>4, <5>1, <5>4
        <5> QED
          BY <5>5, Zenon
      <4> QED
        BY <4>1, <4>2
    <3> QED
      BY <1>1, <1>2, <3>1, <3>2, <3>3, DescendGoes
  <2> QED
    BY <2>1, <2>2
<1>7. FoundAre(found') /\ (walk'.kind = "search" => walk'.best = BestOf(found'))
  <2>1. FoundAre(found) /\ (walk.kind = "search" => walk.best = BestOf(found))
    BY <1>1, FoundBefore, Zenon DEF FoundHolds
  <2>2. CASE walk.kind = "search" /\ n > walk.best
    <3> PICK c : c = CandidateOf(walk.index - walk.match + 3, n)
      OBVIOUS
    <3>1. c \in [value : Nat, length : Nat] /\ IsCandidate(c) /\ c.length = n
      BY <1>1, <1>2, <2>2, NodeIsCandidate, Zenon
    <3>2. found' = Append(found, c)
      BY <1>1, <2>2, Zenon
    <3>3. c.length > BestOf(found)
      BY <2>1, <2>2, <3>1, Zenon
    <3>4. FoundAre(Append(found, c)) /\ BestOf(Append(found, c)) = n
      BY <2>1, <3>1, <3>3, MoreFound, Zenon
    <3>5. walk'.best = n
      BY <1>5, <1>6, <2>2, Zenon
    <3> QED
      BY <3>2, <3>4, <3>5, Zenon
  <2>3. CASE ~(walk.kind = "search" /\ n > walk.best)
    <3>1. found' = found
      BY <1>1, <2>3, Zenon
    <3>2. walk.kind = "search" => walk'.best = walk.best
      BY <1>5, <1>6, <2>3, Zenon
    <3> QED
      BY <1>6, <2>1, <3>1, <3>2, Zenon
  <2> QED
    BY <2>2, <2>3
<1>8. TreeTypeOK'
  <2>1. BlockTypes' /\ IndexTypes'
    BY <1>1, Zenon DEF TreeTypeOK, BlockTypes, IndexTypes
  <2>2. TableTypes'
    BY <1>1, <1>6, Zenon DEF TreeTypeOK, TableTypes
  <2>3. found' \in Seq([value : Nat, length : Nat])
    BY <1>7, Zenon DEF FoundAre
  <2>4. treePhase' \in {"idle", "update", "walk"}
    BY <1>1
  <2>5. CallTypes'
    BY <1>1, <1>6, <2>3, <2>4, Zenon DEF TreeTypeOK, CallTypes
  <2> QED
    BY <2>1, <2>2, <2>5 DEF TreeTypeOK
<1>9. Numbering'
  BY <1>1, Zenon DEF Numbering, IndexOf, PositionOf
<1>10. Hash3Holds'
  <2>1. ASSUME NEW e \in TreeBuckets3, hash3Table[e] >= lowestIndex PROVE Holds3(hash3Table[e])'
    <3>1. hash3Table[e] < IndexOf(blockEnd) /\ hash3Table[e] < target
      BY <1>1, <2>1 DEF Hash3Holds, Holds3
    <3> QED
      BY <1>1, <3>1 DEF Holds3, IndexOf
  <2> QED
    BY <1>1, <2>1 DEF Hash3Holds, Holds3
<1>11. FoundHolds'
  <2> PICK f : f = found'
    OBVIOUS
  <2>1. FoundAre(f) /\ (walk'.kind = "search" => walk'.best = BestOf(f))
    BY <1>7, Zenon
  <2> QED
    BY <1>1, <2>1, FoundNext
<1>12. (\E all, rooms : TreesGrow(all, rooms))'
  <2>1. PICK after : /\ after \in [Int -> SUBSET Int] /\ \A c \in ins : c \in after[c]
                     /\ WalkGoes(ins, after)'
    BY <1>6
  <2>2. Inserted(ins)'
    <3>1. treePhase' # "idle" /\ treePhase' # "update"
      BY <1>1
    <3> QED
      BY <1>1, <1>2, <3>1, Zenon DEF TreesGrow, Inserted, IndexOf
  <2>3. TreesGrow(ins, after)'
    BY <1>1, <2>1, <2>2, Zenon DEF TreesGrow
  <2> QED
    BY <2>3, Zenon
<1> QED
  BY <1>8, <1>9, <1>10, <1>11, <1>12 DEF TreesInv

LEMMA GreatestNatural ==
  ASSUME NEW n \in Nat, NEW D, D \subseteq 0..n - 1, D # {}
  PROVE  \E d \in D : \A e \in D : e <= d
<1> DEFINE L == {k \in Nat : \A e \in D : e <= k}
<1>1. n \in L
  OBVIOUS
<1>2. PICK k \in L : \A j \in L : k <= j
  <2>1. L \subseteq Nat /\ L # {}
    BY <1>1
  <2> HIDE DEF L
  <2> QED
    BY <2>1, LeastNatural
<1>3. k \in Nat /\ \A e \in D : e <= k
  OBVIOUS
<1>4. ASSUME k \notin D PROVE FALSE
  <2>1. \A e \in D : e \in Nat /\ e <= k /\ e # k
    BY <1>3, <1>4
  <2>2. PICK e \in D : e \in Nat /\ e < k
    <3>1. PICK e : e \in D
      OBVIOUS
    <3>2. e \in Nat /\ e < k
      BY <1>3, <2>1, <3>1
    <3> QED
      BY <3>1, <3>2
  <2>3. k - 1 \in Nat
    BY <1>3, <2>2
  <2>4. ASSUME NEW a \in D PROVE a <= k - 1
    <3>1. a \in Nat /\ a <= k /\ a # k
      BY <2>1
    <3> QED
      BY <1>3, <3>1
  <2>5. k - 1 \in L
    BY <2>3, <2>4
  <2>6. k <= k - 1
    BY <1>2, <2>5
  <2> QED
    BY <1>3, <2>6
<1> QED
  BY <1>3, <1>4

\* A match of the text that is long enough is a candidate at its distance.
LEMMA MatchIsCandidate ==
  ASSUME TreeTypeOK, Numbering, treePhase # "idle", NEW d \in Nat \ {0}, d <= MaxDistance,
         NEW h, h = PositionOf(target), d <= h,
         NEW c, DistanceOf(c) = d, c.length = Matching(h, h - d), c.length >= MinMatch
  PROVE  IsCandidate(c)
<1> PICK n : n = Matching(h, h - d)
  OBVIOUS
<1>1. blockEnd \in Nat /\ target \in Nat /\ indexOffset \in Nat
  BY Zenon DEF TreeTypeOK, BlockTypes, IndexTypes, CallTypes
<1>2. h \in Nat /\ h <= blockEnd
  <2>1. h = target - indexOffset
    BY DEF PositionOf
  <2>2. indexOffset <= lowestIndex /\ lowestIndex <= target /\ PositionOf(target) + Reserve <= blockEnd
    BY Zenon DEF Numbering
  <2>3. lowestIndex \in Nat
    BY Zenon DEF TreeTypeOK, IndexTypes
  <2>4. h + Reserve <= blockEnd
    BY <2>2, Zenon
  <2> QED
    BY <1>1, <2>1, <2>2, <2>3, <2>4, TreeSizes
<1>3. n \in 0..blockEnd - h /\ Alike(text, blockEnd, h, h - d, n)
  <2>1. h \in 0..blockEnd /\ h - d \in Int
    BY <1>1, <1>2
  <2> QED
    BY <1>1, <2>1, MatchingIs, Zenon
<1>4. n \in MinMatch..blockEnd - h
  <2>1. n >= MinMatch
    BY Zenon
  <2> QED
    BY <1>1, <1>2, <1>3, <2>1, TreeSizes
<1>5. \A i \in 0..n - 1 : ByteAt(h + i) = ByteAt(h - d + i)
  <2>1. ASSUME NEW i \in 0..n - 1 PROVE ByteAt(h + i) = ByteAt(h - d + i)
    <3>1. TreeByte(text, blockEnd, h + i) = TreeByte(text, blockEnd, h - d + i)
      BY <1>3, <2>1 DEF Alike
    <3>2. h - d + i \in Int /\ h + i \in Int
      BY <1>2, <1>3
    <3> QED
      BY <3>1, <3>2, ByteAtIs, Zenon
  <2> QED
    BY <2>1
<1>6. d \in 1..LesserOf(MaxDistance, h)
  BY <1>2, TreeSizes DEF LesserOf
<1>7. c.length = n
  OBVIOUS
<1> QED
  BY <1>4, <1>5, <1>6, <1>7, Zenon DEF IsCandidate

LEMMA TargetIs ==
  ASSUME TreeTypeOK, Numbering, treePhase # "idle"
  PROVE  /\ target \in Nat /\ lowestIndex \in Nat /\ indexOffset \in Nat /\ blockEnd \in Nat
         /\ lowestIndex <= target /\ target < IndexOf(blockEnd)
         /\ PositionOf(target) \in Nat /\ PositionOf(target) + Reserve <= blockEnd
         /\ PositionOf(target) = target - indexOffset
         /\ \A index \in Nat : index >= lowestIndex => target - index <= PositionOf(target)
<1>1. target \in Nat /\ lowestIndex \in Nat /\ indexOffset \in Nat /\ blockEnd \in Nat
  BY Zenon DEF TreeTypeOK, BlockTypes, IndexTypes, CallTypes
<1>2. indexOffset <= lowestIndex /\ lowestIndex <= target /\ PositionOf(target) + Reserve <= blockEnd
  BY Zenon DEF Numbering
<1>3. PositionOf(target) = target - indexOffset
  BY DEF PositionOf
<1>4. Reserve \in Nat /\ Reserve > 0
  BY TreeSizes
<1>5. target < IndexOf(blockEnd)
  BY <1>1, <1>2, <1>3, <1>4 DEF IndexOf
<1> QED
  BY <1>1, <1>2, <1>3, <1>5

LEMMA RepeatIs ==
  ASSUME TreeTypeOK, Numbering, treePhase # "idle", NEW value \in 1..3, RepeatLength(value) > 0
  PROVE  /\ CandidateOf(value, RepeatLength(value)) \in [value : Nat, length : Nat]
         /\ IsCandidate(CandidateOf(value, RepeatLength(value)))
<1> PICK h : h = PositionOf(target)
  OBVIOUS
<1> PICK d : d = RepeatCandidate(repeats, value, noLiterals)
  OBVIOUS
<1> PICK n : n = Matching(h, h - d)
  OBVIOUS
<1> PICK c : c = CandidateOf(value, RepeatLength(value))
  OBVIOUS
<1>1. /\ target \in Nat /\ lowestIndex \in Nat /\ blockEnd \in Nat /\ h \in Nat /\ h + Reserve <= blockEnd
      /\ indexOffset \in Nat /\ lowestIndex <= target
      /\ \A index \in Nat : index >= lowestIndex => target - index <= h
  BY TargetIs, Zenon
<1>2. /\ d \in 1..target - lowestIndex /\ target - d >= FindLowestMatchIndex(target)
      /\ n >= MinMatch /\ RepeatLength(value) = n
  <2> DEFINE Fits == /\ d \in 1..target - lowestIndex /\ target - d >= FindLowestMatchIndex(target)
                     /\ n >= MinMatch
  <2>1. RepeatLength(value) = IF Fits THEN n ELSE 0
    BY Zenon DEF RepeatLength
  <2>2. Fits
    <3> HIDE DEF Fits
    <3> QED
      BY <2>1
  <2> QED
    BY <2>1, <2>2, Zenon
<1>3. d \in Nat \ {0} /\ d <= MaxDistance /\ d <= h
  <2>1. d \in Nat \ {0} /\ d <= target - lowestIndex
    BY <1>1, <1>2
  <2> PICK low : low = FindLowestMatchIndex(target)
    OBVIOUS
  <2>2. low \in Int /\ target - low <= MaxDistance
    BY <1>1, LowestIs, Zenon
  <2>3. target - d >= low
    BY <1>2, Zenon
  <2>4. d <= MaxDistance
    BY <1>1, <2>1, <2>2, <2>3, TreeSizes
  <2>5. target - d \in Nat /\ target - d >= lowestIndex /\ target - (target - d) = d
    BY <1>1, <2>1
  <2> PICK index : index = target - d
    OBVIOUS
  <2>6. target - index <= h
    BY <1>1, <2>5, Zenon
  <2> QED
    BY <1>1, <2>1, <2>4, <2>5, <2>6
<1>4. n \in Nat
  <2>1. h \in 0..blockEnd /\ h - d \in Int
    BY <1>1, <1>3, TreeSizes
  <2> QED
    BY <1>1, <2>1, MatchingIs
<1>5. c.value = value /\ c.length = n /\ c \in [value : Nat, length : Nat]
  <2>1. c = [value |-> value, length |-> n]
    BY <1>2, Zenon DEF CandidateOf
  <2> QED
    BY <1>4, <2>1
<1>6. DistanceOf(c) = d
  <2>1. repeats \in Offsets /\ noLiterals \in BOOLEAN
    BY Zenon DEF TreeTypeOK, CallTypes
  <2>2. RepeatCandidate(repeats, value, noLiterals) = GetOffset(repeats, value, noLiterals).first
    BY <2>1, CandidateIsHeld
  <2> QED
    BY <1>5, <2>2, Zenon DEF DistanceOf
<1>7. IsCandidate(c)
  BY <1>2, <1>3, <1>5, <1>6, MatchIsCandidate, Zenon
<1> QED
  BY <1>5, <1>7, Zenon

LEMMA AfterRepeatIs ==
  ASSUME TreeTypeOK, Numbering, treePhase # "idle", NEW value \in 1..3, NEW f, FoundAre(f)
  PROVE  FoundAre(AfterRepeat(f, value))
<1> PICK n : n = RepeatLength(value)
  OBVIOUS
<1> PICK best : best = BestOf(f)
  OBVIOUS
<1>1. AfterRepeat(f, value) = f \/ (AfterRepeat(f, value) = Append(f, CandidateOf(value, n)) /\ ~(n <= best))
  BY Zenon DEF AfterRepeat
<1>2. CASE AfterRepeat(f, value) = Append(f, CandidateOf(value, n)) /\ ~(n <= best)
  <2>1. best \in Nat /\ n \in Nat
    <3>1. best \in Nat
      BY BestIs
    <3>2. n \in Nat
      <4> PICK h, d : h = PositionOf(target) /\ d = RepeatCandidate(repeats, value, noLiterals)
        OBVIOUS
      <4>1. h \in Nat /\ h + Reserve <= blockEnd /\ blockEnd \in Nat
        BY TargetIs, Zenon
      <4>2. (n = Matching(h, h - d) /\ d \in 1..target - lowestIndex) \/ n = 0
        BY Zenon DEF RepeatLength
      <4>3. CASE n = Matching(h, h - d) /\ d \in 1..target - lowestIndex
        <5>1. h \in 0..blockEnd /\ h - d \in Int
          BY <4>1, <4>3, TreeSizes
        <5> QED
          BY <4>1, <4>3, <5>1, MatchingIs
      <4> QED
        BY <4>2, <4>3
    <3> QED
      BY <3>1, <3>2
  <2>2. n > best /\ n > 0
    BY <1>2, <2>1
  <2> PICK c : c = CandidateOf(value, n)
    OBVIOUS
  <2>3. c \in [value : Nat, length : Nat] /\ IsCandidate(c)
    <3>1. RepeatLength(value) > 0
      BY <2>2, Zenon
    <3> QED
      BY <3>1, RepeatIs, Zenon
  <2>4. c.length > best
    BY <2>2 DEF CandidateOf
  <2>5. FoundAre(Append(f, c))
    BY <2>3, <2>4, MoreFound, Zenon
  <2> QED
    BY <1>2, <2>5, Zenon
<1> QED
  BY <1>1, <1>2

LEMMA NoneAreFound == FoundAre(<<>>)
<1>1. <<>> \in Seq([value : Nat, length : Nat]) /\ Len(<<>>) = 0
  BY EmptySeq
<1> QED
  BY <1>1 DEF FoundAre

LEMMA RepeatsAre ==
  ASSUME TreeTypeOK, Numbering, treePhase # "idle" PROVE FoundAre(RepeatCandidates)
<1>1. 1 \in 1..3 /\ 2 \in 1..3 /\ 3 \in 1..3
  OBVIOUS
<1> PICK f : f = AfterRepeat(<<>>, 1)
  OBVIOUS
<1> PICK g : g = AfterRepeat(f, 2)
  OBVIOUS
<1>2. FoundAre(f)
  BY <1>1, NoneAreFound, AfterRepeatIs, Zenon
<1>3. FoundAre(g)
  BY <1>1, <1>2, AfterRepeatIs, Zenon
<1>4. FoundAre(AfterRepeat(g, 3))
  BY <1>1, <1>3, AfterRepeatIs, Zenon
<1> QED
  BY <1>4, Zenon DEF RepeatCandidates

\* What the table of short words has after the insertions: nothing that is not
\* earlier than the position asked for.
LEMMA Hash3Is ==
  ASSUME TreeTypeOK, Numbering, Hash3Holds, treePhase = "update"
  PROVE  /\ Hash3AfterInsertions \in [TreeBuckets3 -> Nat]
         /\ \A b \in TreeBuckets3 :
              Hash3AfterInsertions[b] >= lowestIndex => Hash3AfterInsertions[b] < target
<1>1. hash3Table \in [TreeBuckets3 -> Nat] /\ nextToUpdate3 \in Nat /\ target \in Nat
  BY Zenon DEF TreeTypeOK, TableTypes, IndexTypes, CallTypes
<1> DEFINE Of(b) == {i \in nextToUpdate3..target - 1 :
                       Bucket3(Word(PositionOf(i), MinMatch)) = b}
           Value(b) == IF Of(b) = {} THEN hash3Table[b] ELSE CHOOSE i \in Of(b) : \A j \in Of(b) : j <= i
<1> PICK table : table = Hash3AfterInsertions
  OBVIOUS
<1>2. table = [b \in DOMAIN hash3Table |-> Value(b)]
  BY Zenon DEF Hash3AfterInsertions
<1>3. DOMAIN hash3Table = TreeBuckets3
  BY <1>1
<1>4. \A b \in TreeBuckets3 : hash3Table[b] >= lowestIndex => hash3Table[b] < target
  BY Zenon DEF Hash3Holds, Holds3
<1>5. ASSUME NEW b \in TreeBuckets3
      PROVE  Value(b) \in Nat /\ (Value(b) >= lowestIndex => Value(b) < target)
  <2>1. CASE Of(b) = {}
    <3>1. Value(b) = hash3Table[b]
      BY <2>1, Zenon
    <3>2. hash3Table[b] \in Nat
      BY <1>1
    <3> QED
      BY <1>4, <3>1, <3>2, Zenon
  <2>2. CASE Of(b) # {}
    <3>1. Of(b) \subseteq 0..target - 1
      BY <1>1
    <3>2. Value(b) = CHOOSE i \in Of(b) : \A j \in Of(b) : j <= i
      BY <2>2, Zenon
    <3>3. Value(b) \in Of(b)
      <4> HIDE DEF Of, Value
      <4>1. \E i \in Of(b) : \A j \in Of(b) : j <= i
        BY <1>1, <2>2, <3>1, GreatestNatural
      <4> QED
        BY <3>2, <4>1
    <3> HIDE DEF Of, Value
    <3>4. Value(b) \in Nat /\ Value(b) < target
      BY <1>1, <3>1, <3>3
    <3> QED
      BY <3>4
  <2> QED
    BY <2>1, <2>2
<1> HIDE DEF Value
<1>6. table \in [TreeBuckets3 -> Nat] /\ \A b \in TreeBuckets3 : table[b] = Value(b)
  BY <1>2, <1>3, <1>5
<1>7. \A b \in TreeBuckets3 : table[b] >= lowestIndex => table[b] < target
  BY <1>5, <1>6, Zenon
<1> QED
  BY <1>6, <1>7

LEMMA ShortsAre ==
  ASSUME TreeTypeOK, Numbering, Hash3Holds, treePhase = "update" PROVE FoundAre(ShortCandidates)
<1> PICK h : h = PositionOf(target)
  OBVIOUS
<1> PICK b : b = Bucket3(Word(PositionOf(target), MinMatch))
  OBVIOUS
<1> PICK table : table = Hash3AfterInsertions
  OBVIOUS
<1> PICK index : index = table[b]
  OBVIOUS
<1> PICK n : n = Matching(h, PositionOf(index))
  OBVIOUS
<1>1. /\ target \in Nat /\ lowestIndex \in Nat /\ blockEnd \in Nat /\ h \in Nat /\ h + Reserve <= blockEnd
      /\ indexOffset \in Nat /\ h = target - indexOffset
      /\ \A i \in Nat : i >= lowestIndex => target - i <= h
  BY TargetIs, Zenon
<1>2. b \in TreeBuckets3
  <2>1. text \in Texts /\ blockEnd <= Len(text)
    BY Zenon DEF TreeTypeOK, BlockTypes
  <2> QED
    BY <1>1, <2>1, BucketIs
<1>3. index \in Nat /\ (index >= lowestIndex => index < target)
  <2>1. /\ table \in [TreeBuckets3 -> Nat]
        /\ \A e \in TreeBuckets3 : table[e] >= lowestIndex => table[e] < target
    BY Hash3Is, Zenon
  <2> QED
    BY <1>2, <2>1
<1>4. \/ ShortCandidates = <<>>
      \/ /\ ShortCandidates = <<CandidateOf(target - index + 3, n)>>
         /\ ~(index < FindLowestMatchIndex(target)) /\ ~(n < MinMatch)
  BY Zenon DEF ShortCandidates
<1>5. CASE ShortCandidates = <<>>
  BY <1>5, NoneAreFound
<1>6. CASE /\ ShortCandidates = <<CandidateOf(target - index + 3, n)>>
           /\ ~(index < FindLowestMatchIndex(target)) /\ ~(n < MinMatch)
  <2> PICK low : low = FindLowestMatchIndex(target)
    OBVIOUS
  <2>1. low \in Int /\ low >= lowestIndex /\ target - low <= MaxDistance
    BY <1>1, LowestIs, Zenon
  <2>2. ~(index < low)
    BY <1>6, Zenon
  <2>3. index >= low /\ index >= lowestIndex
    BY <1>1, <1>3, <2>1, <2>2
  <2>4. index < target /\ target - index <= h
    BY <1>1, <1>3, <2>3
  <2> PICK d : d = target - index
    OBVIOUS
  <2>5. d \in Nat \ {0} /\ d <= MaxDistance /\ d <= h /\ PositionOf(index) = h - d
    <3>1. PositionOf(index) = index - indexOffset
      BY DEF PositionOf
    <3> QED
      BY <1>1, <1>3, <2>1, <2>3, <2>4, <3>1, TreeSizes
  <2> PICK c : c = CandidateOf(target - index + 3, n)
    OBVIOUS
  <2>6. c.value = d + 3 /\ c.length = n
    BY DEF CandidateOf
  <2>7. DistanceOf(c) = d
    <3>1. repeats \in Offsets /\ noLiterals \in BOOLEAN
      BY Zenon DEF TreeTypeOK, CallTypes
    <3>2. GetOffset(repeats, d + 3, noLiterals).first = d
      BY <2>5, <3>1, DistanceIsHeld
    <3> QED
      BY <2>6, <3>2, Zenon DEF DistanceOf
  <2>8. n \in Nat /\ n >= MinMatch
    <3>1. h \in 0..blockEnd /\ h - d \in Int
      BY <1>1, <2>5, TreeSizes
    <3>2. n = Matching(h, h - d)
      BY <2>5, Zenon
    <3>3. n \in Nat
      BY <1>1, <3>1, <3>2, MatchingIs
    <3> QED
      BY <1>6, <3>3, TreeSizes
  <2>9. IsCandidate(c)
    <3>1. c.length = Matching(h, h - d) /\ c.length >= MinMatch
      BY <2>5, <2>6, <2>8, Zenon
    <3>2. treePhase # "idle"
      OBVIOUS
    <3> QED
      BY <2>5, <2>7, <3>1, <3>2, MatchIsCandidate, Zenon
  <2>10. c \in [value : Nat, length : Nat]
    <3>1. c = [value |-> d + 3, length |-> n] /\ d + 3 \in Nat
      BY <2>5 DEF CandidateOf
    <3> QED
      BY <2>8, <3>1
  <2>11. FoundAre(<<c>>)
    <3>1. <<c>> \in Seq([value : Nat, length : Nat]) /\ Len(<<c>>) = 1 /\ <<c>>[1] = c
      BY <2>10
    <3>2. \A i \in 1..Len(<<c>>) : IsCandidate(<<c>>[i])
      BY <2>9, <3>1
    <3>3. \A i \in 2..Len(<<c>>) : <<c>>[i - 1].length < <<c>>[i].length
      BY <3>1
    <3> QED
      BY <3>1, <3>2, <3>3 DEF FoundAre
  <2> QED
    BY <1>6, <2>11, Zenon
<1> QED
  BY <1>4, <1>5, <1>6

\* What a call returns with, or begins its walk with.
LEMMA TreeSearchIs ==
  ASSUME TreesInv, BeginSearch, NEW b, b = Bucket(Word(PositionOf(target), HashBytes))
  PROVE  /\ FoundAre(found')
         /\ hash3Table' \in [TreeBuckets3 -> Nat] /\ nextToUpdate3' \in Nat
         /\ \A e \in TreeBuckets3 : hash3Table'[e] >= lowestIndex => hash3Table'[e] < target
         /\ \/ /\ treePhase' = "idle" /\ UNCHANGED <<walk, hashTable>>
               /\ nextToUpdate' = target \/ nextToUpdate' = target + 1
            \/ /\ treePhase' = "walk" /\ nextToUpdate' = target
               /\ walk' = [Walk("search", target, hashTable[b], SearchCount)
                             EXCEPT !.best = BestOf(found')]
               /\ hashTable' = [hashTable EXCEPT ![b] = target]
               /\ found' = <<>> \/ ~Enough(BestOf(found'))
<1>1. TreeTypeOK /\ Numbering /\ Hash3Holds /\ treePhase = "update"
  BY Zenon DEF TreesInv, BeginSearch
<1>2. treePhase # "idle"
  BY <1>1
<1>3. /\ hash3Table \in [TreeBuckets3 -> Nat] /\ nextToUpdate3 \in Nat /\ target \in Nat
      /\ \A e \in TreeBuckets3 : hash3Table[e] >= lowestIndex => hash3Table[e] < target
  <2>1. hash3Table \in [TreeBuckets3 -> Nat] /\ nextToUpdate3 \in Nat /\ target \in Nat
    BY <1>1, Zenon DEF TreeTypeOK, TableTypes, IndexTypes, CallTypes
  <2>2. \A e \in TreeBuckets3 : hash3Table[e] >= lowestIndex => hash3Table[e] < target
    BY <1>1, <1>2, Zenon DEF Hash3Holds, Holds3
  <2> QED
    BY <2>1, <2>2
<1> PICK again : again = RepeatCandidates
  OBVIOUS
<1> PICK short : short = ShortCandidates
  OBVIOUS
<1>4. FoundAre(again) /\ FoundAre(short)
  BY <1>1, <1>2, RepeatsAre, ShortsAre, Zenon
<1> DEFINE Return(candidates, onward) ==
             /\ found' = candidates /\ nextToUpdate' = onward /\ treePhase' = "idle"
             /\ UNCHANGED <<walk, hashTable>>
           Search(candidates) ==
             /\ found' = candidates /\ nextToUpdate' = target /\ treePhase' = "walk"
             /\ walk' = [Walk("search", target, hashTable[b], SearchCount)
                           EXCEPT !.best = BestOf(candidates)]
             /\ hashTable' = [hashTable EXCEPT ![b] = target]
<1>5. IF again # <<>>
      THEN /\ UNCHANGED <<hash3Table, nextToUpdate3>>
           /\ IF Enough(BestOf(again)) THEN Return(again, target) ELSE Search(again)
      ELSE /\ hash3Table' = Hash3AfterInsertions /\ nextToUpdate3' = target
           /\ IF short # <<>> /\ Enough(BestOf(short)) THEN Return(short, target + 1)
                                                       ELSE Search(short)
  BY Zenon DEF BeginSearch
<1>6. /\ hash3Table' \in [TreeBuckets3 -> Nat] /\ nextToUpdate3' \in Nat
      /\ \A e \in TreeBuckets3 : hash3Table'[e] >= lowestIndex => hash3Table'[e] < target
  <2>1. CASE again # <<>>
    <3>1. hash3Table' = hash3Table /\ nextToUpdate3' = nextToUpdate3
      BY <1>5, <2>1, Zenon
    <3> QED
      BY <1>3, <3>1, Zenon
  <2>2. CASE again = <<>>
    <3>1. hash3Table' = Hash3AfterInsertions /\ nextToUpdate3' = target
      BY <1>5, <2>2, Zenon
    <3>2. /\ Hash3AfterInsertions \in [TreeBuckets3 -> Nat]
          /\ \A e \in TreeBuckets3 :
               Hash3AfterInsertions[e] >= lowestIndex => Hash3AfterInsertions[e] < target
      BY <1>1, Hash3Is, Zenon
    <3> QED
      BY <1>3, <3>1, <3>2, Zenon
  <2> QED
    BY <2>1, <2>2
<1>7. \E c : /\ FoundAre(c)
             /\ \/ Return(c, target) \/ Return(c, target + 1)
                \/ Search(c) /\ (c = <<>> \/ ~Enough(BestOf(c)))
  <2> HIDE DEF Return, Search
  <2> QED
    BY <1>4, <1>5, Zenon
<1>8. PICK c : /\ FoundAre(c)
               /\ \/ Return(c, target) \/ Return(c, target + 1)
                  \/ Search(c) /\ (c = <<>> \/ ~Enough(BestOf(c)))
  BY <1>7, Zenon
<1>9. found' = c
  BY <1>8, Zenon
<1>10. \/ /\ treePhase' = "idle" /\ UNCHANGED <<walk, hashTable>>
          /\ nextToUpdate' = target \/ nextToUpdate' = target + 1
       \/ /\ treePhase' = "walk" /\ nextToUpdate' = target
          /\ walk' = [Walk("search", target, hashTable[b], SearchCount)
                        EXCEPT !.best = BestOf(found')]
          /\ hashTable' = [hashTable EXCEPT ![b] = target]
          /\ found' = <<>> \/ ~Enough(BestOf(found'))
  BY <1>8, <1>9, Zenon
<1> QED
  BY <1>6, <1>8, <1>9, <1>10, Zenon

LEMMA BeginSearchKeeps == ASSUME TreesInv, BeginSearch PROVE TreesInv'
<1> PICK b : b = Bucket(Word(PositionOf(target), HashBytes))
  OBVIOUS
<1>1. /\ TreeTypeOK /\ Numbering /\ Hash3Holds /\ treePhase = "update"
      /\ UNCHANGED <<text, blockStart, blockEnd, seeding, indexOffset, lowestIndex, treeTable,
                     target, repeats, noLiterals>>
  BY Zenon DEF TreesInv, BeginSearch
<1>2. /\ FoundAre(found')
      /\ hash3Table' \in [TreeBuckets3 -> Nat] /\ nextToUpdate3' \in Nat
      /\ \A e \in TreeBuckets3 : hash3Table'[e] >= lowestIndex => hash3Table'[e] < target
  BY TreeSearchIs
<1> DEFINE Returns == /\ treePhase' = "idle" /\ UNCHANGED <<walk, hashTable>>
                      /\ nextToUpdate' = target \/ nextToUpdate' = target + 1
           Searches == /\ treePhase' = "walk" /\ nextToUpdate' = target
                       /\ walk' = [Walk("search", target, hashTable[b], SearchCount)
                                     EXCEPT !.best = BestOf(found')]
                       /\ hashTable' = [hashTable EXCEPT ![b] = target]
                       /\ found' = <<>> \/ ~Enough(BestOf(found'))
<1>3. Returns \/ Searches
  BY TreeSearchIs
<1>4. /\ target \in Nat /\ lowestIndex \in Nat /\ indexOffset \in Nat /\ blockEnd \in Nat
      /\ lowestIndex <= target /\ target < IndexOf(blockEnd)
      /\ PositionOf(target) \in Nat /\ PositionOf(target) + Reserve <= blockEnd
  <2>1. treePhase # "idle"
    BY <1>1
  <2> QED
    BY <1>1, <2>1, TargetIs, Zenon
<1>5. /\ text \in Texts /\ blockEnd <= Len(text) /\ hashTable \in [TreeBuckets -> Nat]
      /\ treeTable \in [TreeSlots -> Nat] /\ walk \in Walks
  BY <1>1, Zenon DEF TreeTypeOK, BlockTypes, TableTypes, CallTypes
<1>6. b \in TreeBuckets
  BY <1>4, <1>5, BucketIs
<1>7. hashTable[b] \in Nat /\ SearchCount \in Nat
  BY <1>5, <1>6, TreeSizes
<1>8. nextToUpdate' \in Nat /\ nextToUpdate' >= target
  <2>1. nextToUpdate' = target \/ nextToUpdate' = target + 1
    BY <1>3, Zenon
  <2> QED
    BY <1>4, <2>1
<1> PICK best : best = BestOf(found')
  OBVIOUS
<1>9. best \in Nat /\ (found' # <<>> => best <= blockEnd - PositionOf(target))
  <2> PICK f : f = found'
    OBVIOUS
  <2>1. FoundAre(f)
    BY <1>2, Zenon
  <2>2. BestOf(f) \in Nat /\ (f # <<>> => BestOf(f) <= blockEnd - PositionOf(target))
    BY <1>1, <2>1, BestIs
  <2> QED
    BY <2>2, Zenon
<1>10. ASSUME Searches
       PROVE  /\ walk' \in Walks /\ walk'.kind = "search" /\ walk'.index = target
              /\ walk'.match = hashTable[b] /\ walk'.smallerCommon = 0 /\ walk'.largerCommon = 0
              /\ walk'.matchEnd = target + Reserve + 1 /\ walk'.best = best
              /\ PendingOf(walk') = [way \in 0..1 |-> ChildSlot(target, way)]
  <2> PICK m, x : m = hashTable[b] /\ x = target
    OBVIOUS
  <2> PICK w : w = Walk("search", x, m, SearchCount)
    OBVIOUS
  <2> PICK v : v = walk'
    OBVIOUS
  <2>1. x \in Nat /\ m \in Nat /\ SearchCount \in Nat
    BY <1>4, <1>7, Zenon
  <2>2. IsWalk(w, "search", x, m, SearchCount)
    BY <2>1, WalkBegun, Zenon
  <2>3. /\ w \in Walks /\ w.kind = "search" /\ w.index = x /\ w.match = m
        /\ w.smallerCommon = 0 /\ w.largerCommon = 0 /\ w.matchEnd = x + Reserve + 1
        /\ PendingOf(w) = [way \in 0..1 |-> ChildSlot(x, way)]
    BY <2>2, Zenon DEF IsWalk
  <2>4. v = [w EXCEPT !.best = best]
    BY <1>10, Zenon
  <2> HIDE DEF Searches, Returns
  <2>5. v \in Walks
    BY <1>9, <2>3, <2>4 DEF Walks
  <2>6. /\ v.kind = w.kind /\ v.index = w.index /\ v.match = w.match
        /\ v.smallerCommon = w.smallerCommon /\ v.largerCommon = w.largerCommon
        /\ v.matchEnd = w.matchEnd /\ v.best = best
        /\ v.smaller = w.smaller /\ v.larger = w.larger
    BY <2>3, <2>4 DEF Walks
  <2>7. PendingOf(v) = PendingOf(w)
    BY <2>6, Zenon DEF PendingOf
  <2> QED
    BY <2>3, <2>5, <2>6, <2>7, Zenon
<1>11. TreeTypeOK'
  <2>1. BlockTypes'
    BY <1>1, Zenon DEF TreeTypeOK, BlockTypes
  <2>2. IndexTypes'
    BY <1>1, <1>2, <1>4, <1>8, Zenon DEF IndexTypes
  <2>3. hashTable' \in [TreeBuckets -> Nat]
    <3>1. CASE Returns
      BY <1>5, <3>1, Zenon
    <3>2. CASE Searches
      BY <1>4, <1>5, <1>6, <3>2
    <3> QED
      BY <1>3, <3>1, <3>2
  <2>4. TableTypes'
    BY <1>1, <1>2, <1>5, <2>3, Zenon DEF TableTypes
  <2>5. walk' \in Walks
    BY <1>3, <1>5, <1>10, Zenon
  <2>6. found' \in Seq([value : Nat, length : Nat])
    BY <1>2, Zenon DEF FoundAre
  <2>7. treePhase' \in {"idle", "update", "walk"}
    BY <1>3
  <2>8. CallTypes'
    <3> HIDE DEF Returns, Searches
    <3> QED
      BY <1>1, <2>5, <2>6, <2>7, Zenon DEF TreeTypeOK, CallTypes
  <2> QED
    BY <2>1, <2>2, <2>4, <2>8 DEF TreeTypeOK
<1>12. Numbering'
  <2>1. lowestIndex <= nextToUpdate'
    BY <1>4, <1>8
  <2>2. /\ WindowStartIndex <= lowestIndex' /\ indexOffset' <= lowestIndex' /\ lowestIndex' <= nextToUpdate'
        /\ seeding' => IndexOf(blockStart)' = lowestIndex'
    BY <1>1, <2>1, Zenon DEF Numbering, IndexOf
  <2>3. lowestIndex' <= target' /\ PositionOf(target)' + Reserve' <= blockEnd'
    BY <1>1, <1>4, Zenon DEF PositionOf
  <2> QED
    BY <2>2, <2>3, Zenon DEF Numbering
<1>13. Hash3Holds'
  <2>1. ASSUME NEW e \in TreeBuckets3, hash3Table'[e] >= lowestIndex PROVE Holds3(hash3Table[e])'
    <3> PICK index : index = hash3Table'[e]
      OBVIOUS
    <3>1. index < target /\ index \in Nat
      BY <1>2, <2>1
    <3>2. index < IndexOf(blockEnd) /\ index < nextToUpdate'
      <4>1. IndexOf(blockEnd) \in Nat
        BY <1>4 DEF IndexOf
      <4> QED
        BY <1>4, <1>8, <3>1, <4>1
    <3>3. IndexOf(blockEnd)' = IndexOf(blockEnd) /\ target' = target
      BY <1>1, Zenon DEF IndexOf
    <3> HIDE DEF Returns, Searches
    <3> QED
      BY <3>1, <3>2, <3>3, Zenon DEF Holds3
  <2> HIDE DEF Returns, Searches
  <2> QED
    BY <1>1, <2>1, Zenon DEF Hash3Holds
<1>14. FoundHolds'
  <2> PICK f : f = found'
    OBVIOUS
  <2>1. treePhase' = "walk" => Searches
    <3>1. Returns => treePhase' # "walk"
      OBVIOUS
    <3> QED
      BY <1>3, <3>1, Zenon
  <2>2. treePhase' = "walk" /\ walk'.kind = "search" => walk'.best = BestOf(f)
    BY <1>10, <2>1, Zenon
  <2>3. FoundAre(f)
    BY <1>2, Zenon
  <2> HIDE DEF Returns, Searches
  <2> QED
    BY <1>1, <2>2, <2>3, FoundNext
<1>15. (\E all, rooms : TreesGrow(all, rooms))'
  <2>1. PICK ins, room : TreesGrow(ins, room)
    BY DEF TreesInv
  <2>2. \A c \in ins : c < target
    BY <1>1, <2>1, Zenon DEF TreesGrow, Inserted
  <2>3. CASE Returns
    <3>1. /\ ins \in SUBSET Nat /\ (\A c \in ins : c < IndexOf(blockEnd))
          /\ \A e \in TreeBuckets : hashTable[e] >= lowestIndex => hashTable[e] \in ins
          /\ room \in [Int -> SUBSET Int] /\ (\A c \in ins : c \in room[c])
      BY <2>1, Zenon DEF TreesGrow, Inserted
    <3>2. SlotsHold(treeTable, lowestIndex, ins, room, Order, {})
      <4>1. treePhase # "walk"
        BY <1>1
      <4> QED
        BY <2>1, <4>1, Zenon DEF TreesGrow
    <3>3. \A c \in ins : c < nextToUpdate'
      <4>1. ASSUME NEW c \in ins PROVE c < nextToUpdate'
        <5>1. c \in Nat /\ c < target
          BY <2>2, <3>1
        <5> QED
          BY <1>4, <1>8, <5>1
      <4> QED
        BY <4>1
    <3>4. treePhase' # "update" /\ treePhase' # "walk" /\ hashTable' = hashTable
      BY <2>3
    <3> HIDE DEF Returns, Searches
    <3>5. Inserted(ins)'
      BY <1>1, <3>1, <3>3, <3>4, Zenon DEF Inserted, IndexOf
    <3>6. SlotsHold(treeTable', lowestIndex', ins, room, Order', {})
      BY <1>1, <3>2, OrderNext, Zenon
    <3>7. TreesGrow(ins, room)'
      BY <3>1, <3>4, <3>5, <3>6, Zenon DEF TreesGrow
    <3> QED
      BY <3>7, Zenon
  <2>4. CASE Searches
    <3> PICK x : x = target
      OBVIOUS
    <3>1. /\ walk'.kind = "search" /\ walk'.index = x /\ walk'.match = hashTable[b]
          /\ walk'.smallerCommon = 0 /\ walk'.largerCommon = 0 /\ walk'.matchEnd = x + Reserve + 1
          /\ walk'.best = best
          /\ PendingOf(walk') = [way \in 0..1 |-> ChildSlot(x, way)]
      BY <1>10, <2>4, Zenon
    <3>2. hashTable' = [hashTable EXCEPT ![b] = x] /\ treePhase' = "walk"
          /\ (found' = <<>> \/ ~Enough(best))
      BY <2>4, Zenon
    <3> HIDE DEF Returns, Searches
    <3>3. PositionOf(x) + best < blockEnd
      <4> PICK h : h = PositionOf(x)
        OBVIOUS
      <4>1. h \in Nat /\ h + Reserve <= blockEnd
        BY <1>4, Zenon
      <4>2. CASE found' = <<>>
        <5>1. best = MinMatch - 1
          BY <4>2 DEF BestOf
        <5> QED
          BY <1>4, <4>1, <5>1, TreeSizes
      <4>3. CASE found' # <<>>
        <5>1. ~Enough(best)
          BY <3>2, <4>3
        <5>2. h + best # blockEnd
          BY <5>1, Zenon DEF Enough
        <5>3. best <= blockEnd - h
          BY <1>9, <4>3, Zenon
        <5> QED
          BY <1>4, <1>9, <4>1, <5>2, <5>3
      <4> QED
        BY <4>2, <4>3
    <3>4. x \in Nat /\ lowestIndex <= x /\ PositionOf(x) + Reserve <= blockEnd /\ \A c \in ins : c < x
      BY <1>4, <2>2, Zenon
    <3>5. walk'.kind = "search" => PositionOf(x) + walk'.best < blockEnd
      BY <3>1, <3>3, Zenon
    <3> QED
      BY <1>1, <1>6, <2>1, <3>1, <3>2, <3>4, <3>5, WalkBegins, Zenon
  <2> QED
    BY <1>3, <2>3, <2>4
<1> QED
  BY <1>11, <1>12, <1>13, <1>14, <1>15 DEF TreesInv

\* One step of the finder, or of something else.
LEMMA TreesStep ==
  ASSUME TreesInv, TreesNext \/ UNCHANGED treeVars PROVE TreesInv'
<1>1. ASSUME NEW t \in Texts, ResetTrees(t) PROVE TreesInv'
  BY <1>1, ResetTreesKeeps
<1>2. ASSUME NEW size \in BlockLengths, PrepareForBlock(size) PROVE TreesInv'
  BY <1>2, PrepareForBlockKeeps
<1>3. CASE ForgetHistory
  BY <1>3, ForgetHistoryKeeps
<1>4. ASSUME NEW p \in blockStart..blockEnd, NEW triple \in RepeatTriples, NEW none \in BOOLEAN,
             FindAllMatches(p, triple, none)
      PROVE  TreesInv'
  BY <1>4, FindAllMatchesKeeps
<1>5. CASE BeginInsert
  BY <1>5, BeginInsertKeeps
<1>6. CASE BeginSearch
  BY <1>6, BeginSearchKeeps
<1>7. CASE CompareNode
  BY <1>7, CompareNodeKeeps
<1>8. CASE EndWalk
  BY <1>8, EndWalkKeeps
<1>9. CASE TreesOver \/ UNCHANGED treeVars
  BY <1>9, TreesStay DEF TreesOver
<1> QED
  BY <1>1, <1>2, <1>3, <1>4, <1>5, <1>6, <1>7, <1>8, <1>9, Zenon DEF TreesNext

LEMMA TreesStayInside == ASSUME TreesInv PROVE WalksStayInside
<1> SUFFICES ASSUME treePhase = "walk", Goes
             PROVE  /\ There \in 0..Here - 1
                    /\ Here + MatchLength < blockEnd \/ EndsWalk(MatchLength)
                    /\ Known <= Matching(Here, There)
  BY DEF WalksStayInside
<1> PICK n : n = MatchLength
  OBVIOUS
<1> PICK h, s : h = Here /\ s = There
  OBVIOUS
<1>1. TreeTypeOK /\ Numbering
  BY DEF TreesInv
<1>2. PICK ins, room : TreesGrow(ins, room)
  BY DEF TreesInv
<1>3. /\ h \in Nat /\ s \in Nat /\ s < h /\ n \in Nat /\ h + n <= blockEnd
      /\ Known <= Matching(Here, There)
  BY <1>1, <1>2, NodeIs, Zenon
<1>4. s \in 0..h - 1
  BY <1>3
<1>5. h + n < blockEnd \/ EndsWalk(n)
  <2>1. blockEnd \in Nat /\ walk \in Walks
    BY <1>1, Zenon DEF TreeTypeOK, BlockTypes, CallTypes
  <2>2. CASE h + n = blockEnd
    <3>1. CASE walk.kind = "insert"
      BY <2>2, <3>1, Zenon DEF EndsWalk
    <3>2. CASE walk.kind # "insert"
      <4>1. walk.kind = "search" /\ walk.compares > 0
        BY <1>2, <3>2, Zenon DEF TreesGrow, WalkGoes, Goes
      <4>2. h + walk.best < blockEnd /\ walk.best \in Nat
        BY <1>2, <2>1, <4>1, Zenon DEF TreesGrow, WalkGoes, Walks
      <4>3. n > walk.best
        BY <1>3, <2>1, <2>2, <4>2
      <4> QED
        BY <2>2, <3>2, <4>3, Zenon DEF EndsWalk
    <3> QED
      BY <3>1, <3>2
  <2> QED
    BY <1>3, <2>1, <2>2
<1> QED
  BY <1>3, <1>4, <1>5, Zenon

LEMMA TreesFind == ASSUME TreesInv PROVE CandidatesAreMatches
<1>1. FoundHolds
  BY DEF TreesInv
<1> QED
  BY <1>1, Zenon DEF FoundHolds, IsCandidate, CandidatesAreMatches

\* The binary trees' tables always hold trees: what hangs in a slot that nothing
\* newer has taken is older than its node, on its side, and inside its room.

\* However large the tables are and whatever they still hold: the trees of the
\* positions since history was last forgotten are trees, what hangs below a
\* position is older and on its side of it, and what a walk has found so far are
\* matches.
THEOREM TreesAlwaysHold == MCSpec => []TreesInv
<1>1. MCInit => TreesInv
  BY TreesInitially DEF MCInit
<1>2. TreesInv /\ [MCNext]_<<vars, cacheVars, rowVars, treeVars, parseVars, part>> => TreesInv'
  BY TreesStep DEF MCNext
<1> QED
  BY <1>1, <1>2, PTL DEF MCSpec

\* So insert_position and insert_and_find_all_matches look only at earlier
\* positions of this text, read no byte beyond the block to choose a side, and
\* start a comparison at bytes that are alike.
THEOREM WalksAlwaysStayInside == MCSpec => []WalksStayInside
<1>1. TreesInv => WalksStayInside
  BY TreesStayInside
<1> QED
  BY <1>1, TreesAlwaysHold, PTL

\* And find_all_matches gives the parser longer and longer matches, at distances
\* inside the window that the decoder will take their values for.
THEOREM CandidatesAreAlwaysMatches == MCSpec => []CandidatesAreMatches
<1>1. TreesInv => CandidatesAreMatches
  BY TreesFind
<1> QED
  BY <1>1, TreesAlwaysHold, PTL
=============================================================================
