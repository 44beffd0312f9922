---------------------------- MODULE OptimalParse ----------------------------
(***************************************************************************)
(* How Ultra2Finder parses a block: forward over a table of nodes, one for *)
(* each position that some sequence of literals and matches reaches, then  *)
(* back along the best path, then forward again to store its sequences.    *)
(* A node carries the repeat offsets that its path leads to, because they  *)
(* decide what the next matches are and which values stand for them.       *)
(*                                                                         *)
(* Prices are left open: every comparison of two real prices may come out  *)
(* either way, and only MAX_PRICE is more than any.  The matcher's answers *)
(* are what BinaryTrees finds: matches of the text, longer and longer.     *)
(***************************************************************************)
EXTENDS RepeatOffsets, Sequences, FiniteSets

CONSTANTS
  ParseTexts,       \* blocks: nonempty sequences; history is a part of them
  ParseStart,       \* where the block begins in them
  ParseReserve,     \* INPUT_TAIL_RESERVE: 8
  ParseMinMatch,    \* SHORTEST_MATCH: 3
  ParseLongest,     \* LONGEST_OPTIMAL_MATCH: 4096
  ParseSufficient,  \* sufficient_length: less than LONGEST_OPTIMAL_MATCH
  MaxCandidates     \* bound: matches found at one position

ASSUME ParseAssumption ==
  /\ ParseMinMatch \in Nat \ {0} /\ ParseReserve \in Nat /\ ParseReserve >= ParseMinMatch
  /\ ParseSufficient \in Nat /\ ParseSufficient >= ParseMinMatch
  /\ ParseLongest \in Nat /\ ParseLongest > ParseSufficient
  /\ ParseStart \in Nat /\ MaxCandidates \in Nat
  /\ \A block \in ParseTexts : Len(block) \in Nat \ {0} /\ ParseStart <= Len(block)

VARIABLES
  parseText,      \* the input up to the block's end
  parsePosition,  \* position
  parseAnchor,    \* anchor: up to here there are sequences
  parseRepeats,   \* repeats
  nodes,          \* nodes
  current,        \* current
  lastPosition,   \* last_position
  lastStretch,    \* last_stretch
  storeStart,     \* store_start, and store_position behind it
  stretchAt,      \* stretch_position
  parsePhase,     \* "parse", "forward", "store", "back" or "write"
  decoder,        \* history: repeat offsets of a decoder of the sequences stored
  faithful        \* history: that decoder writes the text

parseVars == <<parseText, parsePosition, parseAnchor, parseRepeats, nodes, current,
               lastPosition, lastStretch, storeStart, stretchAt, parsePhase, decoder, faithful>>

NodeCount == ParseLongest + 3   \* OPTIMAL_TABLE_LENGTH

\* `priced' is FALSE for MAX_PRICE; `match' is match_length, `literals' is literal_length.
Node(priced, match, value, literals, offsets) ==
  [priced |-> priced, match |-> match, value |-> value, literals |-> literals, repeats |-> offsets]

\* What an earlier pass may have left in a node: nothing that could be used.
StaleNode == Node(TRUE, 0 - 1, 0, 0 - 1, [first |-> 0, second |-> 0, third |-> 0])

StaleNodes == [i \in 0..NodeCount - 1 |-> StaleNode]

ParseInit ==
  /\ parseText \in ParseTexts
  /\ parsePosition = (IF ParseStart = 0 THEN 1 ELSE ParseStart)   \* is_history_start
  /\ parseAnchor = ParseStart
  /\ parseRepeats = NewOffsets /\ decoder = NewOffsets
  /\ nodes = StaleNodes /\ current = 0 /\ lastPosition = 0 /\ lastStretch = StaleNode
  /\ storeStart = 0 /\ stretchAt = 0
  /\ parsePhase = "parse" /\ faithful = TRUE

Earlier(i, j) == IF i < j THEN i ELSE j
Later(i, j) == IF i > j THEN i ELSE j

End == Len(parseText)
InputLimit == End - ParseReserve
-----------------------------------------------------------------------------
(* The matcher                                                             *)

MatchAt(here, distance) ==
  CHOOSE n \in 0..End - here :
    /\ \A i \in 1..n : parseText[here + i] = parseText[here - distance + i]
    /\ here + n = End \/ parseText[here + n + 1] # parseText[here - distance + n + 1]

\* The matches at a position, by their values.
Matches(here, offsets, noLiterals) ==
  LET Of(value, distance) == [value |-> value, length |-> MatchAt(here, distance)]
      all == {Of(v, RepeatCandidate(offsets, v, noLiterals)) :
                v \in {u \in 1..3 : RepeatCandidate(offsets, u, noLiterals) \in 1..here}}
             \cup {Of(d + 3, d) : d \in 1..here}
  IN  {m \in all : m.length >= ParseMinMatch}

\* Answers of find_all_matches: some of the matches, each longer than the last.
Answers(here, offsets, noLiterals) ==
  LET matches == Matches(here, offsets, noLiterals)
  IN  {<<>>} \cup {answer \in UNION {[1..n -> matches] : n \in 1..MaxCandidates} :
                     \A i \in 2..Len(answer) : answer[i - 1].length < answer[i].length}

Longest(answer) == answer[Len(answer)].length

\* The first candidate at least so long.
CandidateFor(answer, length) ==
  answer[CHOOSE i \in 1..Len(answer) :
           answer[i].length >= length /\ \A j \in 1..i - 1 : answer[j].length < length]
-----------------------------------------------------------------------------
(* Forward                                                                 *)

\* The start of a pass over `answer', the matches at its first position.
FirstNodes(answer, literals) ==
  [i \in 0..NodeCount - 1 |->
     IF i = 0 THEN Node(TRUE, 0, 0, literals, parseRepeats)
     ELSE IF i < ParseMinMatch THEN [StaleNode EXCEPT !.priced = FALSE, !.match = 0, !.literals = literals + i]
     ELSE IF i <= Longest(answer)
     THEN Node(TRUE, i, CandidateFor(answer, i).value, 0, StaleNode.repeats)
     ELSE IF i = Longest(answer) + 1 THEN [StaleNode EXCEPT !.priced = FALSE]
     ELSE StaleNode]

\* The head of the loop of compress_block: a pass begins where something matches.
BeginPass ==
  LET literals == parsePosition - parseAnchor
  IN  /\ parsePhase = "parse" /\ parsePosition < InputLimit
      /\ \E answer \in Answers(parsePosition, parseRepeats, literals = 0) :
           IF answer = <<>>
           THEN /\ parsePosition' = parsePosition + 1
                /\ UNCHANGED <<nodes, current, lastPosition, lastStretch, parsePhase>>
           ELSE IF Longest(answer) > ParseSufficient
           THEN /\ nodes' = [nodes EXCEPT ![0] = Node(TRUE, 0, 0, literals, parseRepeats)]
                /\ lastStretch' = Node(TRUE, Longest(answer), answer[Len(answer)].value, 0, StaleNode.repeats)
                /\ current' = 0 /\ lastPosition' = Longest(answer)
                /\ parsePhase' = "store"
                /\ UNCHANGED parsePosition
           ELSE /\ nodes' = FirstNodes(answer, literals)
                /\ current' = 1 /\ lastPosition' = Longest(answer)
                /\ parsePhase' = "forward"
                /\ UNCHANGED <<parsePosition, lastStretch>>
      /\ UNCHANGED <<parseText, parseAnchor, parseRepeats, storeStart, stretchAt, decoder, faithful>>

\* The repeat offsets behind the match that ends at node i.
RepeatsOver(table, i, node) ==
  LET before == table[i - node.match]
  IN  GetUpdatedRepeats(before.repeats, node.value, before.literals = 0)

\* nodes[current] becomes nodes[current - 1] with one literal more.
WithLiteral(table) ==
  [table EXCEPT ![current] = [table[current - 1] EXCEPT !.literals = @ + 1, !.priced = TRUE]]

\* nodes[current + 1] becomes the match that ended at current, with one literal.
WithOneLiteral(table, match) ==
  [WithLiteral(table) EXCEPT ![current + 1] =
     [match EXCEPT !.literals = 1, !.repeats = RepeatsOver(table, current, match)]]

\* The table and last_position after the literal in front of `current' was tried:
\* it may be cheaper than the match that ends there, and that match may yet be
\* better with a literal behind it.
LiteralTried ==
  LET match  == nodes[current]
      behind == Later(lastPosition, current + 1)
  IN  {<<WithLiteral(nodes), lastPosition>>}
      \cup (IF match.priced THEN {<<nodes, lastPosition>>} ELSE {})
      \cup (IF match.literals = 0 /\ parsePosition + current < End
            THEN {<<WithOneLiteral(nodes, match), behind>>} ELSE {})

\* A node that a match ends at gets the repeat offsets behind that match.
RepeatsSettled(table) ==
  IF table[current].literals = 0
  THEN [table EXCEPT ![current].repeats = RepeatsOver(table, current, table[current])]
  ELSE table

\* The nodes that matches at `current' reach: new ones, and those in `better'.
Reached(table, last, answer, better) ==
  LET end == Later(last, current + Longest(answer))
      New(i) == Node(TRUE, i - current, CandidateFor(answer, i - current).value, 0,
                     table[i].repeats)
  IN  [i \in 0..NodeCount - 1 |->
         IF i \in current + ParseMinMatch..current + Longest(answer)
            /\ (i > last \/ ~table[i].priced \/ i \in better)
         THEN New(i)
         ELSE IF i \in last + 1..end THEN [table[i] EXCEPT !.priced = FALSE, !.literals = 1]
         ELSE IF i = end + 1 THEN [table[i] EXCEPT !.priced = FALSE]
         ELSE table[i]]

\* The matches at `current' end the pass: the longest is taken as it is.
EndsPass(answer) ==
  \/ Longest(answer) > ParseSufficient
  \/ current + Longest(answer) >= ParseLongest
  \/ parsePosition + current + Longest(answer) >= End

\* The loop over current: `table' and `last' are what the literal led to.
Forward(table, last) ==
  \/ /\ parsePosition + current > InputLimit
     /\ nodes' = table /\ lastPosition' = last /\ current' = current + 1
     /\ UNCHANGED <<lastStretch, parsePhase>>
  \/ /\ parsePosition + current <= InputLimit /\ current = last
     /\ nodes' = table /\ lastPosition' = last
     /\ lastStretch' = table[last] /\ current' = last - table[last].match
     /\ parsePhase' = "store"
  \/ /\ parsePosition + current <= InputLimit /\ current < last
     /\ \E answer \in Answers(parsePosition + current, table[current].repeats,
                              table[current].literals = 0) :
          IF answer = <<>>
          THEN /\ nodes' = table /\ lastPosition' = last /\ current' = current + 1
               /\ UNCHANGED <<lastStretch, parsePhase>>
          ELSE IF EndsPass(answer)
          THEN /\ nodes' = table
               /\ lastStretch' = Node(TRUE, Longest(answer), answer[Len(answer)].value, 0,
                                      StaleNode.repeats)
               /\ lastPosition' = current + Longest(answer)
               /\ parsePhase' = "store"
               /\ UNCHANGED current
          ELSE \E better \in SUBSET (current + ParseMinMatch..Earlier(last, current + Longest(answer))) :
               /\ nodes' = Reached(table, last, answer, better)
               /\ lastPosition' = Later(last, current + Longest(answer))
               /\ current' = current + 1
               /\ UNCHANGED <<lastStretch, parsePhase>>

ForwardStep ==
  /\ parsePhase = "forward"
  /\ IF current > lastPosition
     THEN /\ lastStretch' = nodes[lastPosition]
          /\ current' = lastPosition - nodes[lastPosition].match
          /\ parsePhase' = "store"
          /\ UNCHANGED <<nodes, lastPosition>>
     ELSE \E tried \in LiteralTried : Forward(RepeatsSettled(tried[1]), tried[2])
  /\ UNCHANGED <<parseText, parsePosition, parseAnchor, parseRepeats, storeStart, stretchAt,
                 decoder, faithful>>
-----------------------------------------------------------------------------
(* Back along the best path, and forward over its sequences                *)

\* The next pass starts over; what the nodes hold is not looked at again.
NextPass ==
  /\ parsePhase' = "parse"
  /\ nodes' = StaleNodes /\ current' = 0 /\ lastPosition' = 0 /\ lastStretch' = StaleNode
  /\ storeStart' = 0 /\ stretchAt' = 0

\* Broken: literals behind the last match count as part of its path.
BrokenPathEnd == current

\* Literals behind the last match are left to the next pass.
PathEnd == current - lastStretch.literals

BeginStore ==
  /\ parsePhase = "store"
  /\ IF lastStretch.match = 0
     THEN /\ parsePosition' = parsePosition + lastPosition
          /\ NextPass
          /\ UNCHANGED parseRepeats
     ELSE /\ parseRepeats' = IF lastStretch.literals = 0
                             THEN GetUpdatedRepeats(nodes[current].repeats, lastStretch.value,
                                                    nodes[current].literals = 0)
                             ELSE lastStretch.repeats
          /\ current' = PathEnd
          /\ nodes' = [nodes EXCEPT ![PathEnd + 2] = lastStretch]
          /\ storeStart' = PathEnd + 2 /\ stretchAt' = PathEnd
          /\ parsePhase' = "back"
          /\ UNCHANGED <<parsePosition, lastPosition, lastStretch>>
  /\ UNCHANGED <<parseText, parseAnchor, decoder, faithful>>

\* The literals of a stretch come in front of the match of the next one.
StepBack ==
  LET stretch == nodes[stretchAt]
      given   == [nodes EXCEPT ![storeStart].literals = stretch.literals]
  IN  /\ parsePhase = "back"
      /\ IF stretch.match = 0
         THEN nodes' = given /\ parsePhase' = "write" /\ UNCHANGED <<storeStart, stretchAt>>
         ELSE /\ nodes' = [given EXCEPT ![storeStart - 1] = stretch]
              /\ storeStart' = storeStart - 1
              /\ stretchAt' = stretchAt - (stretch.literals + stretch.match)
              /\ UNCHANGED parsePhase
      /\ UNCHANGED <<parseText, parsePosition, parseAnchor, parseRepeats, current, lastPosition,
                     lastStretch, decoder, faithful>>

\* A decoder copies what the text has there.
Copies(start, length, distance) ==
  /\ distance \in 1..start /\ start + length <= End
  /\ \A i \in 1..length : parseText[start + i] = parseText[start - distance + i]

\* A sequence is stored; every node here has a match.
StoreSequenceOf ==
  LET node   == nodes[storeStart]
      start  == parseAnchor + node.literals
      after  == GetOffset(decoder, node.value, node.literals = 0)
  IN  /\ parsePhase = "write"
      /\ parseAnchor' = start + node.match /\ parsePosition' = parseAnchor'
      /\ decoder' = after
      /\ faithful' = (faithful /\ Copies(start, node.match, after.first))
      /\ IF storeStart = current + 2 THEN NextPass
         ELSE /\ storeStart' = storeStart + 1
              /\ UNCHANGED <<nodes, current, lastPosition, lastStretch, stretchAt, parsePhase>>
      /\ UNCHANGED <<parseText, parseRepeats>>

\* The rest of the block becomes literals.
ParseOver == parsePhase = "parse" /\ parsePosition >= InputLimit /\ UNCHANGED parseVars

ParseNext == BeginPass \/ ForwardStep \/ BeginStore \/ StepBack \/ StoreSequenceOf \/ ParseOver

ParseSpec == ParseInit /\ [][ParseNext]_parseVars
-----------------------------------------------------------------------------
\* Whatever the prices say, a decoder of the sequences stored so far has written
\* the text up to the anchor, with repeat offsets of its own that the parser
\* foresaw: along the path that was chosen in the end, not along the ones that
\* were tried.  The nodes that a pass and its way back touch are in the table.
ParseIsFaithful ==
  /\ faithful
  /\ parsePhase = "parse" => decoder = parseRepeats /\ parseAnchor <= parsePosition
  /\ parsePosition <= End
  /\ parsePhase = "forward" => current + 1 < NodeCount /\ lastPosition + 1 < NodeCount
  /\ parsePhase \in {"back", "write"} => storeStart \in 1..current + 2 /\ current + 2 < NodeCount
  /\ parsePhase = "back" => stretchAt \in 0..current
=============================================================================
