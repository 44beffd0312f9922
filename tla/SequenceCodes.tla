---------------------------- MODULE SequenceCodes ----------------------------
(***************************************************************************)
(* The codes of the three numbers of a sequence: a code stands for a base  *)
(* and a number of extra bits.  Decoders go from the code to the base by   *)
(* tables; the encoder finds the code of a length in small tables or from  *)
(* its highest bit, and takes the extra bits from the length itself.       *)
(***************************************************************************)
EXTENDS FseTables

\* The three numbers, in the order in which their tables are told.
Fields == {"literal_length", "offset", "match_length"}

\* From code 16 on; from code 32 on.
LITERAL_LENGTH_EXTRA_BASE ==
  << <<16, 1>>, <<18, 1>>, <<20, 1>>, <<22, 1>>, <<24, 2>>, <<28, 2>>, <<32, 3>>, <<40, 3>>,
     <<48, 4>>, <<64, 6>>, <<128, 7>>, <<256, 8>>, <<512, 9>>, <<1024, 10>>, <<2048, 11>>,
     <<4096, 12>>, <<8192, 13>>, <<16384, 14>>, <<32768, 15>>, <<65536, 16>> >>

MATCH_LENGTH_EXTRA_BASE ==
  << <<35, 1>>, <<37, 1>>, <<39, 1>>, <<41, 1>>, <<43, 2>>, <<47, 2>>, <<51, 3>>, <<59, 3>>,
     <<67, 4>>, <<83, 4>>, <<99, 5>>, <<131, 7>>, <<259, 8>>, <<515, 9>>, <<1027, 10>>,
     <<2051, 11>>, <<4099, 12>>, <<8195, 13>>, <<16387, 14>>, <<32771, 15>>, <<65539, 16>> >>

MIN_MATCH_LENGTH == 3

\* The decoder's side: where the values of a code begin, and their extra bits.
BaseOf(field, code) ==
  CASE field = "offset" -> 2^code
    [] field = "literal_length" -> IF code <= 15 THEN code ELSE LITERAL_LENGTH_EXTRA_BASE[code - 15][1]
    [] OTHER -> IF code <= 31 THEN code + MIN_MATCH_LENGTH ELSE MATCH_LENGTH_EXTRA_BASE[code - 31][1]

ExtraBitsOf(field, code) ==
  CASE field = "offset" -> code
    [] field = "literal_length" -> IF code <= 15 THEN 0 ELSE LITERAL_LENGTH_EXTRA_BASE[code - 15][2]
    [] OTHER -> IF code <= 31 THEN 0 ELSE MATCH_LENGTH_EXTRA_BASE[code - 31][2]

\* find_small_literal_length_code, find_small_match_length_code: the first
\* range of a table that the length lies in.
SmallCode(extraBase, length) ==
  SelectInSeq(extraBase, LAMBDA range : range[1] <= length /\ length < range[1] + 2^range[2])

\* The encoder's side: literals below 64 and matches below 131 by table.
FindLiteralLengthCode(length) ==
  IF length >= 64 THEN HighestBit(length) + 19
  ELSE IF length <= 15 THEN length
  ELSE SmallCode(LITERAL_LENGTH_EXTRA_BASE, length) + 15

FindMatchLengthCode(length) ==
  IF length - MIN_MATCH_LENGTH >= 128 THEN HighestBit(length - MIN_MATCH_LENGTH) + 36
  ELSE IF length < 35 THEN length - MIN_MATCH_LENGTH
  ELSE SmallCode(MATCH_LENGTH_EXTRA_BASE, length) + 31

CodeOf(field, value) ==
  CASE field = "offset" -> HighestBit(value)
    [] field = "literal_length" -> FindLiteralLengthCode(value)
    [] OTHER -> FindMatchLengthCode(value)

\* get_literal_length_code and its like: the distance from the base.
ExtraOf(field, value) ==
  LET code == CodeOf(field, value)
  IN CASE field = "offset" -> value - 2^code
       [] field = "literal_length" ->
            IF value > 63 THEN value - 2^HighestBit(value) ELSE value - BaseOf(field, code)
       [] OTHER ->
            IF value > 130 THEN value - (2^HighestBit(value - MIN_MATCH_LENGTH) + MIN_MATCH_LENGTH)
            ELSE value - BaseOf(field, code)

\* Without that: the low bits of the value, from the smallest match for matches.
LowExtraBits(field, value) ==
  Bits(IF field = "match_length" THEN value - MIN_MATCH_LENGTH ELSE value,
       ExtraBitsOf(field, CodeOf(field, value)))
=============================================================================
