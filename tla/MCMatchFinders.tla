--------------------------- MODULE MCMatchFinders ---------------------------
(***************************************************************************)
(* Parts of the match finders that hold state of their own: the table of  *)
(* FastFinder, of Lazy2Finder its cache of hashes and a row of its table,  *)
(* of Ultra2Finder its binary trees and its parse.  None reads what        *)
(* another writes here: a behaviour is a behaviour of one of them, while   *)
(* the others rest.                                                        *)
(***************************************************************************)
EXTENDS FastTable, BinaryTrees, OptimalParse

CONSTANTS
  CacheSize, CacheReadSize, SkipThreshold, MatchStart, MatchEnd,  \* of HashCache
  Strength, SkippingStep, MaxCacheLength, MaxInputs,
  Mask, Tags, TableLength, RowWindow, Attempts, MaxRowLength      \* of RowTable

VARIABLES
  input, cacheLength, next, cache, skipping,                      \* of HashCache
  stage, position, anchor, matchEnd, faults,
  head, tags, positions, base, rowLength, inserted,               \* of RowTable
  part           \* which part moves: "fast", "cache", "row", "trees" or "parse"

cacheVars == <<input, cacheLength, next, cache, skipping, stage, position, anchor, matchEnd, faults>>
rowVars == <<head, tags, positions, base, rowLength, inserted>>

Cache == INSTANCE HashCache
  WITH ReadSize <- CacheReadSize, MaxLength <- MaxCacheLength, length <- cacheLength

Row == INSTANCE RowTable
  WITH Window <- RowWindow, MaxLength <- MaxRowLength, length <- rowLength

ASSUME CacheAssumption == Cache!HashCacheAssumption
ASSUME RowAssumption == Row!RowTableAssumption

\* Inputs of the tree: two whose trees grow past the ring of slots, a run, and
\* one block alone; buckets hold what begins with the same byte.
MCTexts == {<<0, 0, 1, 1, 1, 0, 1, 0, 0, 0>>, <<0, 0, 0, 1, 0, 0, 0, 1, 0, 1>>,
            <<1, 1, 1, 1, 1, 1, 1, 1, 1, 1>>, <<1, 0, 1, 0>>}
MCBucket(word) == word[1]
MCRepeatTriples == {NewOffsets, [first |-> 2, second |-> 3, third |-> 1]}

\* Blocks to parse, behind two bytes of history: with matches at old distances,
\* with runs, and with several distances at one position.
MCParseTexts == {<<0, 1, 0, 0, 1, 0, 0, 1, 0, 1, 0, 0, 1>>,
                 <<1, 1, 1, 1, 1, 1, 1, 1, 1, 1, 1, 1, 0>>,
                 <<0, 1, 2, 0, 1, 2, 2, 0, 1, 2, 0, 1, 1>>}

\* The parts that do not move rest in one of their initial states.
MCInit ==
  /\ Init /\ Cache!Init /\ Row!Init /\ TreesInit /\ ParseInit
  /\ part \in {"fast", "cache", "row", "trees", "parse"}
  /\ part # "fast" => length = 0
  /\ part # "trees" => text = <<1, 0, 1, 0>>
  /\ part # "parse" => parseText = <<1, 1, 1, 1, 1, 1, 1, 1, 1, 1, 1, 1, 0>>

MCNext ==
  /\ UNCHANGED part
  /\ \/ part = "fast" /\ Next /\ UNCHANGED <<cacheVars, rowVars, treeVars, parseVars>>
     \/ part = "cache" /\ Cache!Next /\ UNCHANGED <<vars, rowVars, treeVars, parseVars>>
     \/ part = "row" /\ Row!Next /\ UNCHANGED <<vars, cacheVars, treeVars, parseVars>>
     \/ part = "trees" /\ TreesNext /\ UNCHANGED <<vars, cacheVars, rowVars, parseVars>>
     \/ part = "parse" /\ ParseNext /\ UNCHANGED <<vars, cacheVars, rowVars, treeVars>>

MCSpec == MCInit /\ [][MCNext]_<<vars, cacheVars, rowVars, treeVars, parseVars, part>>
-----------------------------------------------------------------------------
\* A hash taken from the cache is the hash of the position it is taken for, and
\* none is computed from beyond the end of the block.
CachedHashesAreSound == Cache!CachedHashesAreSound

\* Positions are inserted once, in increasing order.
InsertedInOrder == Cache!InsertedInOrder

\* A search of a row finds the newest positions of this input with its tag.
SearchFindsTheNewest == Row!SearchFindsTheNewest
=============================================================================
