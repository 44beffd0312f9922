----------------------------- MODULE HashCache -----------------------------
(***************************************************************************)
(* Lazy2Finder's cache of hashes.  The hash of a position is computed      *)
(* HASH_CACHE_SIZE positions ahead of its use and waits in the slot the    *)
(* position has modulo that size.  That works while positions are taken    *)
(* one after the other; every jump has to fill the cache anew: over the    *)
(* inside of a long match, from one block to the next, behind a stretch    *)
(* searched with large steps, and to the next input.                       *)
(*                                                                         *)
(* A hash is named by the input and position it was computed from.  What   *)
(* matches is left open: a search finds a match of any length, or none.    *)
(***************************************************************************)
EXTENDS Integers, FiniteSetsExt

CONSTANTS
  CacheSize,       \* HASH_CACHE_SIZE: 8
  ReadSize,        \* HASH_READ_SIZE: 8
  SkipThreshold,   \* UPDATE_SKIP_THRESHOLD: 384
  MatchStart,      \* UPDATE_MATCH_START_POSITIONS: 96
  MatchEnd,        \* UPDATE_MATCH_END_POSITIONS: 32
  Strength,        \* 1 << SEARCH_STRENGTH: 256
  SkippingStep,    \* LAZY_SKIPPING_STEP: 8
  MaxLength,       \* bound: length of an input
  MaxInputs        \* bound: inputs, one after the other

HashCacheAssumption ==
  /\ CacheSize \in Nat \ {0} /\ ReadSize \in Nat \ {0}
  /\ MatchStart \in Nat /\ MatchEnd \in Nat /\ MatchEnd >= CacheSize
  /\ SkipThreshold \in Nat /\ SkipThreshold >= MatchStart + MatchEnd
  /\ Strength \in Nat \ {0} /\ SkippingStep \in Nat
  /\ MaxLength \in Nat /\ MaxInputs \in Nat \ {0}

VARIABLES
  input,      \* which input this is
  length,     \* how much of it is there: the end of the block
  next,       \* next_to_insert
  cache,      \* hash_cache
  skipping,   \* lazy_skipping
  stage,      \* "idle", "search", "first", "second" (looking for better), "found"
  position,   \* position
  anchor,     \* anchor
  matchEnd,   \* start + match_length of the best match so far
  faults      \* history: what went wrong in the searches

vars == <<input, length, next, cache, skipping, stage, position, anchor, matchEnd, faults>>

finder == [next |-> next, cache |-> cache, faults |-> faults]

Slots == 0..CacheSize - 1
TailReserve == ReadSize + CacheSize
ShortestMatch == 4

\* input_limit.
Limit == length - TailReserve

\* Broken: a match of two.
BrokenBestEnds(start) == start + 2..length

\* Where a match that starts at "start" may end.
BestEnds(start) == start + ShortestMatch..length

Hash(p) == <<input, p>>

\* The cache after the hashes of from..to - 1 have been put into their slots.
Store(hashes, from, to) ==
  [s \in Slots |-> LET stored == {p \in from..to - 1 : p % CacheSize = s}
                   IN  IF stored = {} THEN hashes[s] ELSE Hash(Max(stored))]

\* fill_hash_cache_unchecked.
Fill(f, start, last) ==
  [f EXCEPT !.cache = Store(@, start, Min({start + CacheSize, last + 1}))]

\* The fault of a hash computed where the input has too few bytes left.
Outside(p) == IF p + TailReserve > length THEN {"outside"} ELSE {}

\* next_cached_hash_unchecked and insert_unchecked for the positions from..to
\* - 1, one after the other: each takes its hash from the cache and leaves the
\* hash of the position CacheSize further on.
Insert(f, from, to) ==
  IF from >= to THEN f
  ELSE [f EXCEPT
    !.cache = Store(@, from + CacheSize, to + CacheSize),
    !.faults = @
      \cup (IF \E p \in from..Min({to, from + CacheSize}) - 1 : f.cache[p % CacheSize] # Hash(p)
            THEN {"stale"} ELSE {})
      \cup Outside(to - 1)]

\* The inside of a long match is left out.
Jump(f, target) ==
  LET started == Insert(f, f.next, f.next + MatchStart)
  IN  Insert(Fill(started, target - MatchEnd, target), target - MatchEnd, target)

\* update_up_to_unchecked.
UpdateUpTo(f, target) ==
  [(IF target > f.next + SkipThreshold THEN Jump(f, target) ELSE Insert(f, f.next, target))
     EXCEPT !.next = Max({@, target})]

\* search_unchecked: of the finder, what it does to the cache.  A position that
\* was inserted before is inserted out of order.
Search(f, p) ==
  LET found == IF skipping THEN [f EXCEPT !.faults = @ \cup Outside(p)]
                           ELSE Insert(UpdateUpTo(f, p), p, p + 1)
  IN  [found EXCEPT !.next = p + 1,
                    !.faults = @ \cup (IF p < f.next THEN {"again"} ELSE {})]

SetFinder(f) ==
  /\ next' = f.next
  /\ cache' = f.cache
  /\ faults' = f.faults

-----------------------------------------------------------------------------
Init ==
  /\ input = 1 /\ length = 0
  /\ next = 0 /\ skipping = FALSE
  /\ cache = [s \in Slots |-> <<0, 0>>]
  /\ stage = "idle" /\ position = 0 /\ anchor = 0 /\ matchEnd = 0
  /\ faults = {}

\* MatchFinder::reset.
Reset ==
  /\ stage = "idle" /\ input < MaxInputs
  /\ input' = input + 1
  /\ next' = 0 /\ skipping' = FALSE
  /\ length' = 0 /\ position' = 0 /\ anchor' = 0 /\ matchEnd' = 0
  /\ UNCHANGED <<cache, stage, faults>>

\* A block too short to search.
ShortBlock(end) ==
  /\ stage = "idle" /\ length + TailReserve >= end
  /\ length' = end
  /\ UNCHANGED <<input, next, cache, skipping, stage, position, anchor, matchEnd, faults>>

\* The cache for the first searches of a block.
Prepared(f, last) == Fill(f, f.next, last)

\* Where the insertions of the block begin.
FirstToInsert(start) ==
  IF next < start - SkipThreshold THEN Max({start - MatchEnd, 0}) ELSE next

\* The beginning of find_sequences_unchecked, for the block length..end - 1.
BeginBlock(end) ==
  /\ stage = "idle" /\ length + TailReserve < end
  /\ length' = end
  /\ SetFinder(Prepared([finder EXCEPT !.next = FirstToInsert(length)], end - TailReserve))
  /\ skipping' = FALSE
  /\ stage' = "search" /\ position' = length /\ anchor' = length
  /\ UNCHANGED <<input, matchEnd>>

\* Nothing at this position.
Miss ==
  /\ stage = "search" /\ position < Limit
  /\ SetFinder(Search(finder, position))
  /\ LET step == (position - anchor) \div Strength + 1
     IN  position' = position + step /\ skipping' = (step > SkippingStep)
  /\ UNCHANGED <<input, length, stage, anchor, matchEnd>>

\* A match here, or the first repeat offset at the next position.
Match ==
  /\ stage = "search" /\ position < Limit
  /\ SetFinder(Search(finder, position))
  /\ \E start \in {position, position + 1} : matchEnd' \in BestEnds(start)
  /\ stage' = "first"
  /\ UNCHANGED <<input, length, skipping, position, anchor>>

\* The next position may have a better repeat, which is kept, or a better
\* match, after which the look ahead begins again.
LookAhead(here, after) ==
  /\ stage = here
  /\ position < Limit
  /\ position' = position + 1
  /\ SetFinder(Search(finder, position + 1))
  /\ \/ matchEnd' = matchEnd /\ stage' = after
     \/ matchEnd' \in BestEnds(position + 1) /\ stage' \in {after, "first"}
  /\ UNCHANGED <<input, length, skipping, anchor>>

\* Broken: the cache stays as it was before the large steps.
BrokenAfterSkipping(f) == f

AfterSkipping(f) == IF skipping THEN Fill(f, f.next, Limit) ELSE f

\* The match is stored, and the search goes on behind it and behind the
\* repeats of the second offset that follow.
StoreMatch ==
  /\ stage = "found" \/ (stage \in {"first", "second"} /\ position >= Limit)
  /\ SetFinder(AfterSkipping(finder))
  /\ skipping' = FALSE
  /\ position' \in {matchEnd}
       \cup (IF matchEnd <= Limit THEN matchEnd + ShortestMatch..length ELSE {})
  /\ anchor' = position' /\ stage' = "search"
  /\ UNCHANGED <<input, length, matchEnd>>

\* The block is searched, or there is no room for more sequences.
EndBlock ==
  /\ stage = "search"
  /\ position >= Limit \/ (position = anchor /\ matchEnd # 0)
  /\ stage' = "idle"
  /\ matchEnd' = 0 /\ position' = 0 /\ anchor' = 0
  /\ UNCHANGED <<input, length, next, cache, skipping, faults>>

Next ==
  \/ Reset
  \/ \E end \in length + 1..MaxLength : ShortBlock(end) \/ BeginBlock(end)
  \/ Miss
  \/ Match
  \/ LookAhead("first", "second") \/ LookAhead("second", "found")
  \/ StoreMatch
  \/ EndBlock

Spec == Init /\ [][Next]_vars
-----------------------------------------------------------------------------
\* The hash taken from the cache is that of the position it is taken for, of
\* this input, and none is computed from beyond the end of the block: the
\* assertions in next_cached_hash_unchecked and on INPUT_TAIL_RESERVE, which
\* release builds leave out.
CachedHashesAreSound == faults \cap {"stale", "outside"} = {}

\* Every position is inserted at most once, and in increasing order, which
\* searches rely on when they stop at the first candidate out of reach.
InsertedInOrder == "again" \notin faults
=============================================================================
