----------------------------- MODULE BinaryTrees ----------------------------
(***************************************************************************)
(* BinaryTreeMatcher: for every bucket of the hash table a binary tree of  *)
(* the positions in it, ordered by what stands there, newest at the root.  *)
(* The two children of a position lie in a ring of slots that later        *)
(* positions overwrite.  Walking down, a comparison starts at the length   *)
(* that the walk already knows to be common, and nothing of the tables is  *)
(* cleared when history is forgotten: positions are numbered so that older *)
(* ones fall below the lowest index.  One step compares one node.          *)
(***************************************************************************)
EXTENDS RepeatOffsets, Sequences

CONSTANTS
  Bytes,          \* what inputs consist of
  Texts,          \* inputs: nonempty sequences of bytes
  Bucket(_), Bucket3(_),   \* hashes of HashBytes, and of MinMatch, bytes
  HashBytes,      \* 4
  MinMatch,       \* SHORTEST_MATCH: 3
  Reserve,        \* INPUT_TAIL_RESERVE: 8
  LongestMatch,   \* LONGEST_OPTIMAL_MATCH: 4096
  TreeSkipThreshold, TreeSkipLimit,   \* LONG_MATCH_SKIP_THRESHOLD, _LIMIT: 384, 192
  MaxDistance,    \* 1 << window_log
  MaxDistance3,   \* MAX_HASH3_DISTANCE
  TreeMask,       \* tree_mask
  SearchCount,    \* search_count
  SufficientLength,  \* sufficient_length
  MinSeeding,     \* MIN_SEEDING_BLOCK_LENGTH: 9
  BlockLengths,   \* of blocks
  RepeatTriples,  \* repeat offsets that the parser comes with
  MaxTreeInputs   \* bound: inputs given to one finder

ASSUME TreesAssumption ==
  /\ Bytes \subseteq Nat /\ \A input \in Texts : input \in Seq(Bytes)
  /\ MinMatch \in Nat \ {0} /\ HashBytes \in Nat /\ Reserve \in Nat
  /\ HashBytes >= MinMatch /\ Reserve >= HashBytes
  /\ LongestMatch \in Nat /\ TreeSkipThreshold \in Nat /\ TreeSkipLimit \in Nat
  /\ MaxDistance \in Nat \ {0} /\ MaxDistance3 \in Nat \ {0} /\ TreeMask \in Nat
  /\ SearchCount \in Nat /\ SufficientLength \in Nat
  /\ MinSeeding \in Nat /\ BlockLengths \subseteq Nat \ {0}
  /\ \A triple \in RepeatTriples : triple \in Triple /\ NonZero(triple)

VARIABLES
  text,        \* the input, whole
  blockStart, blockEnd,   \* the block being parsed; input.len() is blockEnd
  seeding,     \* the first block is being parsed to learn from
  indexOffset, lowestIndex, nextToUpdate, nextToUpdate3,
  hashTable, hash3Table, treeTable,
  target,      \* index that find_all_matches was asked for
  repeats, noLiterals,    \* what it was given
  walk,        \* insert_position or insert_and_find_all_matches
  found,       \* its candidates
  treePhase,   \* "idle", "update", "walk"
  inputs       \* inputs begun

treeVars == <<text, blockStart, blockEnd, seeding, indexOffset, lowestIndex, nextToUpdate,
              nextToUpdate3, hashTable, hash3Table, treeTable, target, repeats, noLiterals,
              walk, found, treePhase, inputs>>

WindowStartIndex == 2    \* WINDOW_START_INDEX
Dummy == 0 - 1

LesserOf(m, n) == IF m < n THEN m ELSE n
GreaterOf(m, n) == IF m > n THEN m ELSE n

IndexOf(position) == position + indexOffset
PositionOf(index) == index - indexOffset

Word(position, length) == SubSeq(text, position + 1, position + length)

Walk(kind, index, match, compares) ==
  [kind |-> kind, index |-> index, match |-> match,
   smaller |-> 2 * (index % (TreeMask + 1)), larger |-> 2 * (index % (TreeMask + 1)) + 1,
   smallerCommon |-> 0, largerCommon |-> 0,
   best |-> Reserve, matchEnd |-> index + Reserve + 1, compares |-> compares]

NoWalk == Walk("none", 0, 0, 0)

CandidateOf(value, length) == [value |-> value, length |-> length]

EmptyTables ==
  /\ hashTable = [b \in {Bucket(w) : w \in [1..HashBytes -> Bytes]} |-> 0]
  /\ hash3Table = [b \in {Bucket3(w) : w \in [1..MinMatch -> Bytes]} |-> 0]
  /\ treeTable = [slot \in 0..2 * TreeMask + 1 |-> 0]

TreesInit ==
  /\ text \in Texts
  /\ blockStart = 0 /\ blockEnd = 0 /\ seeding = FALSE
  /\ indexOffset = WindowStartIndex /\ lowestIndex = WindowStartIndex
  /\ nextToUpdate = WindowStartIndex /\ nextToUpdate3 = WindowStartIndex
  /\ EmptyTables
  /\ target = 0 /\ repeats = NewOffsets /\ noLiterals = FALSE
  /\ walk = NoWalk /\ found = <<>> /\ treePhase = "idle" /\ inputs = 1

callVars == <<target, repeats, noLiterals, walk, found, treePhase>>
-----------------------------------------------------------------------------
(* Blocks                                                                  *)

\* Another block does not fit.
InputDone == treePhase = "idle" /\ \A length \in BlockLengths : blockEnd + length > Len(text)

\* reset: the children stay, nothing leads to them.
ResetTrees(input) ==
  /\ InputDone /\ inputs < MaxTreeInputs
  /\ text' = input /\ inputs' = inputs + 1
  /\ blockStart' = 0 /\ blockEnd' = 0 /\ seeding' = FALSE
  /\ indexOffset' = WindowStartIndex /\ lowestIndex' = WindowStartIndex
  /\ nextToUpdate' = WindowStartIndex /\ nextToUpdate3' = WindowStartIndex
  /\ hashTable' = [b \in DOMAIN hashTable |-> 0]
  /\ hash3Table' = [b \in DOMAIN hash3Table |-> 0]
  /\ found' = <<>>
  /\ UNCHANGED <<treeTable, target, repeats, noLiterals, walk, treePhase>>

\* What prepare_for_block makes of next_to_update: far behind, it gives up most.
CatchUp(next, current) ==
  IF current > next + TreeSkipThreshold
  THEN current - LesserOf(current - next - TreeSkipThreshold, TreeSkipLimit)
  ELSE next

\* prepare_for_block, and compress_block for the first time.
PrepareForBlock(length) ==
  LET current == IndexOf(blockEnd)
      lowest  == IF current > MaxDistance THEN GreaterOf(lowestIndex, current - MaxDistance)
                                          ELSE lowestIndex
  IN  /\ treePhase = "idle" /\ ~seeding
      /\ blockEnd + length <= Len(text)
      /\ blockStart' = blockEnd /\ blockEnd' = blockEnd + length
      /\ lowestIndex' = lowest
      /\ nextToUpdate' = CatchUp(GreaterOf(nextToUpdate, lowest), current)
      /\ nextToUpdate3' = nextToUpdate'
      /\ seeding' = (current = lowest /\ length >= MinSeeding)
      /\ found' = <<>>
      /\ UNCHANGED <<text, indexOffset, hashTable, hash3Table, treeTable, target, repeats,
                     noLiterals, walk, treePhase, inputs>>

\* Broken: the positions get new numbers, but old ones are not below them.
BrokenForgetHistory ==
  /\ treePhase = "idle" /\ seeding
  /\ indexOffset' = indexOffset + (blockEnd - blockStart)
  /\ nextToUpdate' = indexOffset' /\ nextToUpdate3' = indexOffset'
  /\ seeding' = FALSE /\ found' = <<>>
  /\ UNCHANGED <<text, blockStart, blockEnd, lowestIndex, hashTable, hash3Table, treeTable,
                 target, repeats, noLiterals, walk, treePhase, inputs>>

\* forget_history_before: the block is parsed once more.
ForgetHistory ==
  LET length == blockEnd - blockStart
  IN  /\ treePhase = "idle" /\ seeding
      /\ indexOffset' = indexOffset + length
      /\ lowestIndex' = lowestIndex + length
      /\ nextToUpdate' = lowestIndex' /\ nextToUpdate3' = lowestIndex'
      /\ seeding' = FALSE /\ found' = <<>>
      /\ UNCHANGED <<text, blockStart, blockEnd, hashTable, hash3Table, treeTable, target,
                     repeats, noLiterals, walk, treePhase, inputs>>
-----------------------------------------------------------------------------
(* find_all_matches                                                        *)

\* The parser asks for a position of the block; before next_to_update, and at
\* the start of history, there is nothing to find.
FindAllMatches(position, triple, isZero) ==
  /\ treePhase = "idle"
  /\ position >= blockStart /\ position + Reserve <= blockEnd
  /\ IndexOf(position) >= nextToUpdate /\ IndexOf(position) # lowestIndex
  /\ target' = IndexOf(position) /\ repeats' = triple /\ noLiterals' = isZero
  /\ found' = <<>> /\ treePhase' = "update"
  /\ UNCHANGED <<text, blockStart, blockEnd, seeding, indexOffset, lowestIndex, nextToUpdate,
                 nextToUpdate3, hashTable, hash3Table, treeTable, walk, inputs>>

\* The byte at a position, or what lies around the input.
ByteAt(position) == IF position \in 0..blockEnd - 1 THEN text[position + 1] ELSE 0 - 1

\* count_unchecked: how far the text goes on alike, inside the block.
Matching(first, second) ==
  CHOOSE n \in 0..blockEnd - first :
    /\ \A i \in 0..n - 1 : ByteAt(first + i) = ByteAt(second + i)
    /\ first + n = blockEnd \/ ByteAt(first + n) # ByteAt(second + n)

FindLowestMatchIndex(current) ==
  IF current - lowestIndex > MaxDistance THEN current - MaxDistance ELSE lowestIndex

\* update_tree: the next position to insert; nextToUpdate is its loop's index.
BeginInsert ==
  LET bucket == Bucket(Word(PositionOf(nextToUpdate), HashBytes))
  IN  /\ treePhase = "update" /\ nextToUpdate < target
      /\ walk' = Walk("insert", nextToUpdate, hashTable[bucket], SearchCount)
      /\ hashTable' = [hashTable EXCEPT ![bucket] = nextToUpdate]
      /\ treePhase' = "walk"
      /\ UNCHANGED <<text, blockStart, blockEnd, seeding, indexOffset, lowestIndex,
                     nextToUpdate, nextToUpdate3, hash3Table, treeTable, target, repeats,
                     noLiterals, found, inputs>>

\* The match at one of the repeat offsets, of length 0 if it is none.
RepeatLength(value) ==
  LET offset == RepeatCandidate(repeats, value, noLiterals)
      length == Matching(PositionOf(target), PositionOf(target) - offset)
  IN  IF /\ offset \in 1..target - lowestIndex
         /\ target - offset >= FindLowestMatchIndex(target)
         /\ length >= MinMatch
      THEN length ELSE 0

\* Nothing longer is worth looking for.
Enough(length) == length > SufficientLength \/ PositionOf(target) + length = blockEnd

BestOf(candidates) ==
  IF candidates = <<>> THEN MinMatch - 1 ELSE candidates[Len(candidates)].length

\* The candidates when one more repeat offset was tried: it has to be longer,
\* and one that is enough is the last.
AfterRepeat(candidates, value) ==
  LET length == RepeatLength(value)
  IN  IF (candidates # <<>> /\ Enough(BestOf(candidates))) \/ length <= BestOf(candidates)
      THEN candidates ELSE Append(candidates, CandidateOf(value, length))

RepeatCandidates == AfterRepeat(AfterRepeat(AfterRepeat(<<>>, 1), 2), 3)

\* insert_hash3_and_find_first: what the table has after the insertions.
Hash3AfterInsertions ==
  LET of(b) == {i \in nextToUpdate3..target - 1 :
                  Bucket3(Word(PositionOf(i), MinMatch)) = b}
  IN  [b \in DOMAIN hash3Table |->
         IF of(b) = {} THEN hash3Table[b] ELSE CHOOSE i \in of(b) : \A j \in of(b) : j <= i]

\* The short match that stands in when no repeat offset fits.
ShortCandidates ==
  LET index == Hash3AfterInsertions[Bucket3(Word(PositionOf(target), MinMatch))]
  IN  IF index < FindLowestMatchIndex(target) \/ target - index >= MaxDistance3
         \/ Matching(PositionOf(target), PositionOf(index)) < MinMatch
      THEN <<>>
      ELSE <<CandidateOf(target - index + 3, Matching(PositionOf(target), PositionOf(index)))>>

\* insert_and_find_all_matches, up to its walk.
BeginSearch ==
  LET again  == RepeatCandidates
      short  == ShortCandidates
      bucket == Bucket(Word(PositionOf(target), HashBytes))
      Return(candidates, next) ==
        /\ found' = candidates /\ nextToUpdate' = next /\ treePhase' = "idle"
        /\ UNCHANGED <<walk, hashTable>>
      Search(candidates) ==
        /\ found' = candidates /\ nextToUpdate' = target /\ treePhase' = "walk"
        /\ walk' = [Walk("search", target, hashTable[bucket], SearchCount)
                      EXCEPT !.best = BestOf(candidates)]
        /\ hashTable' = [hashTable EXCEPT ![bucket] = target]
  IN  /\ treePhase = "update" /\ nextToUpdate >= target
      /\ IF again # <<>>
         THEN /\ UNCHANGED <<hash3Table, nextToUpdate3>>
              /\ IF Enough(BestOf(again)) THEN Return(again, target) ELSE Search(again)
         ELSE /\ hash3Table' = Hash3AfterInsertions /\ nextToUpdate3' = target
              /\ IF short # <<>> /\ Enough(BestOf(short)) THEN Return(short, target + 1)
                                                          ELSE Search(short)
      /\ UNCHANGED <<text, blockStart, blockEnd, seeding, indexOffset, lowestIndex, treeTable,
                     target, repeats, noLiterals, inputs>>
-----------------------------------------------------------------------------
(* Walking down a tree                                                     *)

Link(slot, index) == IF slot = Dummy THEN treeTable ELSE [treeTable EXCEPT ![slot] = index]

\* A node is looked at while comparisons are left and it is inside the window.
Goes == walk.compares > 0 /\ walk.match >= FindLowestMatchIndex(target)

\* What is known to be alike between the walk's position and every node below.
Known == LesserOf(walk.smallerCommon, walk.largerCommon)

Here == PositionOf(walk.index)
There == PositionOf(walk.match)

\* The length of the match; its first bytes are not compared again.
MatchLength == Known + Matching(Here + Known, There + Known)

\* match_length > best_length.
Note(w, length) ==
  IF length > w.best
  THEN [w EXCEPT !.best = length, !.matchEnd = GreaterOf(@, w.match + length)]
  ELSE w

\* Broken: a node is taken for whole as long as its children were ever written.
BrokenTreeLow == 0

\* Children of older nodes may belong to newer ones by now.
TreeLow == GreaterOf(walk.index - TreeMask, 0)

\* The walk goes on below the node, on the side that the next byte says.
Descend(w, length) ==
  LET slot == 2 * (w.match % (TreeMask + 1))
      old  == w.match <= TreeLow
  IN  IF ByteAt(There + length) < ByteAt(Here + length)
      THEN /\ treeTable' = Link(w.smaller, w.match)
           /\ walk' = [w EXCEPT !.smallerCommon = length,
                                !.smaller = IF old THEN Dummy ELSE slot + 1,
                                !.match = IF old THEN 0 ELSE treeTable'[slot + 1],
                                !.compares = @ - 1]
      ELSE /\ treeTable' = Link(w.larger, w.match)
           /\ walk' = [w EXCEPT !.largerCommon = length,
                                !.larger = IF old THEN Dummy ELSE slot,
                                !.match = IF old THEN 0 ELSE treeTable'[slot],
                                !.compares = @ - 1]

\* Of a match that ends the walk nothing says on which side it is.
EndsWalk(length) ==
  IF walk.kind = "insert" THEN Here + length = blockEnd
  ELSE length > walk.best /\ (length > LongestMatch \/ Here + length = blockEnd)

CompareNode ==
  LET length == MatchLength
      noted  == Note(walk, length)
  IN  /\ treePhase = "walk" /\ Goes
      /\ found' = IF walk.kind = "search" /\ length > walk.best
                  THEN Append(found, CandidateOf(walk.index - walk.match + 3, length)) ELSE found
      /\ IF EndsWalk(length)
         THEN walk' = [noted EXCEPT !.compares = 0] /\ UNCHANGED treeTable
         ELSE Descend(noted, length)
      /\ UNCHANGED <<text, blockStart, blockEnd, seeding, indexOffset, lowestIndex,
                     nextToUpdate, nextToUpdate3, hashTable, hash3Table, target, repeats,
                     noLiterals, treePhase, inputs>>

\* How far insert_position lets update_tree go on.
Advance ==
  LET skipped == IF walk.best > TreeSkipThreshold
                 THEN LesserOf(walk.best - TreeSkipThreshold, TreeSkipLimit) ELSE 0
  IN  GreaterOf(skipped, walk.matchEnd - (walk.index + Reserve))

\* The lowest two slots of the walk have no children any more.
EndWalk ==
  /\ treePhase = "walk" /\ ~Goes
  /\ treeTable' = [slot \in DOMAIN treeTable |->
                     IF slot \in {walk.smaller, walk.larger} THEN 0 ELSE treeTable[slot]]
  /\ IF walk.kind = "insert"
     THEN nextToUpdate' = walk.index + Advance /\ treePhase' = "update"
     ELSE nextToUpdate' = walk.matchEnd - Reserve /\ treePhase' = "idle"
  /\ walk' = NoWalk
  /\ UNCHANGED <<text, blockStart, blockEnd, seeding, indexOffset, lowestIndex, nextToUpdate3,
                 hashTable, hash3Table, target, repeats, noLiterals, found, inputs>>

TreesOver == InputDone /\ UNCHANGED treeVars

TreesNext ==
  \/ \E input \in Texts : ResetTrees(input)
  \/ \E length \in BlockLengths : PrepareForBlock(length)
  \/ ForgetHistory
  \/ \E position \in blockStart..blockEnd, triple \in RepeatTriples, isZero \in BOOLEAN :
       FindAllMatches(position, triple, isZero)
  \/ BeginInsert \/ BeginSearch \/ CompareNode \/ EndWalk
  \/ TreesOver

TreesSpec == TreesInit /\ [][TreesNext]_treeVars
-----------------------------------------------------------------------------
\* The distance that the decoder will resolve a candidate's value to.
DistanceOf(candidate) == GetOffset(repeats, candidate.value, noLiterals).first

\* What the matcher hands to the parser are matches of the text, longer and
\* longer, at distances inside the window and the history, though a walk
\* compares no byte twice and the tables still hold forgotten positions.
CandidatesAreMatches ==
  /\ \A i \in 1..Len(found) :
       LET distance == DistanceOf(found[i])
           here     == PositionOf(target)
       IN  /\ distance \in 1..LesserOf(MaxDistance, here)
           /\ found[i].length \in MinMatch..blockEnd - here
           /\ \A n \in 0..found[i].length - 1 : ByteAt(here + n) = ByteAt(here - distance + n)
  /\ \A i \in 2..Len(found) : found[i - 1].length < found[i].length

\* Every node that a walk looks at is an earlier position of this input and its
\* next byte is inside the block: no number of a forgotten position is taken
\* for one of this text.
WalksStayInside ==
  treePhase = "walk" /\ Goes =>
    /\ There \in 0..Here - 1
    /\ Here + MatchLength < blockEnd \/ EndsWalk(MatchLength)
    /\ Known <= Matching(Here, There)
=============================================================================
