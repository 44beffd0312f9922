------------------------- MODULE SequencesSections --------------------------
(***************************************************************************)
(* The sequences of the blocks of a frame, down to the bit: how many there *)
(* are, the three tables their codes are written with (agreed on, of one   *)
(* symbol, described, or kept from an earlier section), and one stream in  *)
(* which three states take turns.  The writer keeps its tables and their   *)
(* modes from section to section, and so does the reader.                  *)
(*                                                                         *)
(* Left open is which of the modes it may take is the cheapest.  A write   *)
(* that fails leaves nothing here: write_block takes its tables back (see  *)
(* BlockWriter).  What the offset values stand for is in RepeatOffsets.    *)
(*                                                                         *)
(* The definitions named Broken... are the bugs the runs must notice;      *)
(* nothing uses them.                                                      *)
(***************************************************************************)
EXTENDS SequenceCodes, BitStreams

CONSTANTS
  CountBase,      \* values of a byte of the count: 256
  FirstRecords,   \* what the first section of a frame may hold: records by field
  LaterRecords,   \* what the others may hold
  ForeignSections,  \* sections of another writer
  Rooms,          \* bytes there may be for the stream
  MaxWritten      \* bound: sections of a frame

ASSUME SequencesAssumption == CountBase \in Nat /\ CountBase >= 4 /\ CountBase % 2 = 0

LITERAL_LENGTH_DEFAULT_COUNTS ==
  <<4, 3, 2, 2, 2, 2, 2, 2, 2, 2, 2, 2, 2, 1, 1, 1, 2, 2, 2, 2, 2, 2, 2, 2, 2, 3, 2, 1, 1, 1, 1, 1>>
    \o [i \in 1..4 |-> -1]

MATCH_LENGTH_DEFAULT_COUNTS ==
  <<1, 4, 3, 2, 2, 2, 2, 2, 2>> \o [i \in 1..37 |-> 1] \o [i \in 1..7 |-> -1]

OFFSET_DEFAULT_COUNTS ==
  <<1, 1, 1, 1, 1, 1, 2, 2, 2>> \o [i \in 1..15 |-> 1] \o [i \in 1..5 |-> -1]

FromZero(counts) == [s \in 0..(Len(counts) - 1) |-> counts[s + 1]]

\* TableSettings.
Settings ==
  [literal_length |-> [maxSymbol |-> 35, counts |-> FromZero(LITERAL_LENGTH_DEFAULT_COUNTS),
                       log |-> 6, maxLog |-> 9],
   offset         |-> [maxSymbol |-> 31, counts |-> FromZero(OFFSET_DEFAULT_COUNTS),
                       log |-> 5, maxLog |-> 8],
   match_length   |-> [maxSymbol |-> 52, counts |-> FromZero(MATCH_LENGTH_DEFAULT_COUNTS),
                       log |-> 6, maxLog |-> 9]]

PredefinedEncodeTables == [f \in Fields |-> BuildEncodeTable(Settings[f].counts, Settings[f].log)]
PredefinedDecodeTables == [f \in Fields |-> BuildDecodeTable(Settings[f].counts, Settings[f].log)]

NoSection == [count |-> <<>>]

VARIABLES
  encodeTables,  \* SequenceEncodeTables: a mode and a table each
  decodeTables,  \* SequenceTables: ready, and the table
  records,       \* history: the sequences of the last section
  onTheWay,      \* the section on its way
  outcome,       \* what the reader returned last
  written,       \* history: how many were written
  foreign        \* history: the last one is another writer's

sequencesVars == <<encodeTables, decodeTables, records, onTheWay, outcome, written, foreign>>

SequencesInit ==
  /\ encodeTables = [f \in Fields |-> [mode |-> "Predefined", table |-> [log |-> 0]]]
  /\ decodeTables = [f \in Fields |-> [ready |-> FALSE, table |-> [log |-> 0]]]
  /\ records = <<>> /\ onTheWay = NoSection /\ written = 0 /\ foreign = FALSE
  /\ outcome = [ok |-> TRUE, records |-> <<>>]

(***************************************************************************)
(* The count, in one, two or three bytes.                                  *)
(***************************************************************************)
ThreeByteCounts == (CountBase \div 2 - 1) * CountBase

WriteCount(n) ==
  IF n < CountBase \div 2 THEN <<n>>
  ELSE IF n < ThreeByteCounts THEN <<CountBase \div 2 + n \div CountBase, n % CountBase>>
  ELSE <<CountBase - 1, (n - ThreeByteCounts) % CountBase, (n - ThreeByteCounts) \div CountBase>>

ReadCount(bytes) ==
  IF bytes[1] < CountBase \div 2 THEN bytes[1]
  ELSE IF bytes[1] < CountBase - 1 THEN (bytes[1] - CountBase \div 2) * CountBase + bytes[2]
  ELSE bytes[2] + bytes[3] * CountBase + ThreeByteCounts

(***************************************************************************)
(* pick_table_mode: the modes and tables it may choose from, none if it    *)
(* fails.                                                                  *)
(***************************************************************************)
CountsOf(field, sequences) ==
  [code \in 0..Settings[field].maxSymbol |->
     Quantify(DOMAIN sequences, LAMBDA i : CodeOf(field, sequences[i][field]) = code)]

\* build_rle_encode_table.
OneSymbolTable(symbol) ==
  [log |-> 0,
   norm |-> [s \in 0..symbol |-> IF s = symbol THEN 1 ELSE 0],
   nextState |-> [i \in {0} |-> 0],
   transforms |-> [s \in 0..symbol |-> [bitsDelta |-> 0, findState |-> 0]]]

OwnTables(field, counts, total) ==
  LET log == PickAccuracyLog(total, Max(Present(counts)) + 1, Settings[field].maxLog)
      Built(normalized) ==
        IF normalized.ok
        THEN {[mode |-> "Compressed", table |-> BuildEncodeTable(normalized.norm, log)]}
        ELSE {}
  IN Built(NormalizeCounts(counts, total, log))

PredefinedSupports(field, counts) == Max(Present(counts)) \in DOMAIN Settings[field].counts

\* Too few sequences for a table of their own, or none frequent.
QuicklyPredefined(field, counts, total) ==
  LET log == Settings[field].log
  IN \/ total < (2^log * 9) \div 8
     \/ \A s \in DOMAIN counts : counts[s] < total \div 2^(log - 1)

\* get_encode_table_bits has an answer: the table is there and no code it is
\* asked for costs more bits than it has.
CanRepeat(kept, counts) ==
  /\ kept.mode \in {"Compressed", "Repeat"}
  /\ kept.table.log # 0
  /\ Cardinality(DOMAIN kept.table.norm) >= Cardinality(DOMAIN counts)
  /\ \A s \in Present(counts) : kept.table.transforms[s].bitsDelta \div 2^16 < kept.table.log

TableChoices(field, sequences, quick) ==
  LET total == Len(sequences)
      kept == encodeTables[field]
      predefined(counts) ==
        IF PredefinedSupports(field, counts)
        THEN {[mode |-> "Predefined", table |-> PredefinedEncodeTables[field]]} ELSE {}
      repeated(counts) ==
        IF ~quick /\ CanRepeat(kept, counts) THEN {[mode |-> "Repeat", table |-> kept.table]} ELSE {}
      AnyOf(own, counts) == IF own = {} THEN {} ELSE own \cup predefined(counts) \cup repeated(counts)
      Allowed(counts) ==
        IF Cardinality(Present(counts)) = 1
        THEN {[mode |-> "Rle", table |-> OneSymbolTable(Max(Present(counts)))]}
        ELSE IF quick /\ PredefinedSupports(field, counts) /\ QuicklyPredefined(field, counts, total)
        THEN predefined(counts)
        ELSE AnyOf(OwnTables(field, counts, total), counts)
  IN Allowed(CountsOf(field, sequences))

\* write_table_description.
DescriptionOf(chosen) ==
  CASE chosen.mode = "Rle" -> Bits(Min({s \in DOMAIN chosen.table.norm : chosen.table.norm[s] > 0}), 8)
    [] chosen.mode = "Compressed" -> WriteDescription(chosen.table)
    [] OTHER -> <<>>

(***************************************************************************)
(* write_one_stream, from the last sequence to the first.                  *)
(***************************************************************************)
TurnsWritten == <<"offset", "match_length", "literal_length">>

\* encode_symbol_without_flush for one of the three states.
StateOut(chosen, so_far, field, code) ==
  LET table == chosen[field].table
      state == so_far.states[field]
  IN [w |-> AddBitsWithoutFlush(so_far.w, Bits(state, BitsOut(table, state, code))),
      states |-> [so_far.states EXCEPT ![field] = NextState(table, state, code)]]

\* The last sequence: its extra bits, and states that begin at its codes.
BeginStream(chosen, last, room) ==
  LET Extra(w, field) ==
        AddBits(w, Bits(ExtraOf(field, last[field]), ExtraBitsOf(field, CodeOf(field, last[field]))))
  IN [w |-> Extra(Extra(Extra(OpenWriter(room), "literal_length"), "match_length"), "offset"),
      states |-> [f \in Fields |-> StateFor(chosen[f].table, CodeOf(f, last[f]))]]

\* Another one, in front of those.
WriteSequence(chosen, so_far, record) ==
  LET turn == FoldLeft(LAMBDA s, f : StateOut(chosen, s, f, CodeOf(f, record[f])), so_far, TurnsWritten)
      lengths == FoldLeft(LAMBDA w, f : AddBitsWithoutFlush(w, LowExtraBits(f, record[f])),
                          FlushWholeBytes(turn.w), <<"literal_length", "match_length">>)
  IN [w |-> AddBitsWithoutFlush(FlushWholeBytes(lengths), LowExtraBits("offset", record["offset"])),
      states |-> turn.states]

\* Broken: the states are flushed in the order in which their tables are told.
BrokenFlushOrder == <<"match_length", "literal_length", "offset">>

FlushOrder == <<"match_length", "offset", "literal_length">>

EndStream(chosen, so_far) ==
  FinishMarked(FoldLeft(LAMBDA w, f : AddBits(w, Bits(so_far.states[f], chosen[f].table.log)),
                        FlushWholeBytes(so_far.w), FlushOrder))

StreamOf(chosen, sequences, room) ==
  EndStream(chosen,
            FoldLeft(LAMBDA s, record : The({WriteSequence(chosen, t, record) : t \in {s}}),
                     BeginStream(chosen, Last(sequences), room), Tail(Reverse(sequences))))

\* write_sequences.
WriteSequences(sequences, quick, room) ==
  /\ onTheWay = NoSection /\ outcome.ok /\ written < MaxWritten
  /\ \/ /\ sequences = <<>>
        /\ onTheWay' = [count |-> <<0>>]
        /\ UNCHANGED encodeTables
     \/ /\ sequences # <<>>
        /\ \E l \in TableChoices("literal_length", sequences, quick),
              o \in TableChoices("offset", sequences, quick),
              m \in TableChoices("match_length", sequences, quick) :
             LET chosen == [literal_length |-> l, offset |-> o, match_length |-> m]
             IN /\ encodeTables' = chosen
                /\ \E stream \in {StreamOf(chosen, sequences, room)} :
                     /\ stream.ok
                     /\ onTheWay' = [count |-> WriteCount(Len(sequences)),
                                     modes |-> [f \in Fields |-> chosen[f].mode],
                                     bits |-> DescriptionOf(l) \o DescriptionOf(o) \o DescriptionOf(m)
                                                \o stream.bits]
  /\ records' = sequences
  /\ written' = written + 1
  /\ UNCHANGED <<decodeTables, outcome, foreign>>

(***************************************************************************)
(* read_sequence_tables and SequenceDecoder.                               *)
(***************************************************************************)
RleDecodeTable(symbol) ==
  [log |-> 0, entries |-> [cell \in {0} |-> [symbol |-> symbol, bits |-> 0, base |-> 0]]]

Unreadable == [ok |-> FALSE]

\* Broken: a symbol without a base is taken.
BrokenToldTable(field, mode, input) ==
  IF mode = "Compressed" THEN DescribedTable(input, Settings[field].maxLog, Settings[field].maxSymbol)
  ELSE IF input = <<>> THEN Unreadable
  ELSE [ok |-> TRUE, table |-> RleDecodeTable(BitsAt(input, 0, 8)), bytes |-> 1]

\* A table that is told, by its symbol or its description.  A description is
\* refused when it takes more bytes than there are, and then its table is there.
ToldTable(field, mode, input) ==
  LET symbol == BitsAt(input, 0, 8)
  IN IF mode = "Compressed"
     THEN DescribedTable(input, Settings[field].maxLog, Settings[field].maxSymbol)
     ELSE IF input = <<>> \/ symbol > Settings[field].maxSymbol THEN Unreadable
     ELSE [ok |-> TRUE, table |-> RleDecodeTable(symbol), bytes |-> 1]

\* read_table_for_mode: the table it leaves, and the bytes it took.
TableForMode(field, mode, input) ==
  LET kept == decodeTables[field]
      Checked(told) ==
        IF told.ok THEN [told EXCEPT !.ok = 8 * told.bytes <= Len(input)]
        ELSE [ok |-> FALSE, table |-> kept.table, bytes |-> 0]
  IN CASE mode = "Predefined" -> [ok |-> TRUE, table |-> PredefinedDecodeTables[field], bytes |-> 0]
       [] mode = "Repeat" -> [ok |-> kept.ready, table |-> kept.table, bytes |-> 0]
       [] OTHER -> Checked(ToldTable(field, mode, input))

\* The table of the next field, behind those read so far.
ReadTable(section, so_far, field) ==
  LET With(read) ==
        [ok |-> read.ok, bytes |-> so_far.bytes + read.bytes,
         tables |-> [so_far.tables EXCEPT ![field] = [ready |-> @.ready \/ read.ok, table |-> read.table]]]
  IN IF so_far.ok
     THEN With(TableForMode(field, section.modes[field],
                           SubSeq(section.bits, 8 * so_far.bytes + 1, Len(section.bits))))
     ELSE so_far

TablesTold == <<"literal_length", "offset", "match_length">>

ReadTables(section) ==
  FoldLeft(LAMBDA s, f : The({ReadTable(section, t, f) : t \in {s}}),
           [ok |-> TRUE, bytes |-> 0, tables |-> decodeTables], TablesTold)

ValueRead(stream, reader, field, code) ==
  BaseOf(field, code) + Peek(stream, reader, ExtraBitsOf(field, code))

\* next_sequence: extra bits of the offset, the match and the literals, and
\* then, unless it was the last, the bits that move the states on.
NextSequence(stream, tables, so_far, isLast) ==
  LET entry == [f \in Fields |-> tables[f].table.entries[so_far.states[f]]]
      Value(s, f) ==
        [reader |-> Skip(s.reader, ExtraBitsOf(f, entry[f].symbol)),
         record |-> [s.record EXCEPT ![f] = ValueRead(stream, s.reader, f, entry[f].symbol)],
         states |-> s.states]
      Update(s, f) ==
        [s EXCEPT !.reader = Skip(@, entry[f].bits),
                  !.states[f] = entry[f].base + Peek(stream, s.reader, entry[f].bits)]
      values == FoldLeft(Value, [reader |-> so_far.reader, record |-> [f \in Fields |-> 0],
                                 states |-> so_far.states],
                         <<"offset", "match_length", "literal_length">>)
      moved == IF isLast THEN values
               ELSE FoldLeft(Update, values, <<"literal_length", "match_length", "offset">>)
  IN IF so_far.reader.overflowed THEN so_far
     ELSE [reader |-> moved.reader, states |-> moved.states,
           records |-> Append(so_far.records, moved.record)]

\* SequenceStream::new.
OpenSequences(stream, tables) ==
  LET State(s, f) == [reader |-> Skip(s.reader, tables[f].table.log),
                      states |-> [s.states EXCEPT ![f] = Peek(stream, s.reader, tables[f].table.log)],
                      records |-> <<>>]
  IN FoldLeft(State, [reader |-> OpenBackward(stream), states |-> [f \in Fields |-> 0], records |-> <<>>],
              <<"literal_length", "offset", "match_length">>)

\* An overflow ends the loop, and bits that are left are an error.
DecodeSequences(stream, tables, count) ==
  LET Whole(end) == IF ReadExactly(end.reader) THEN [ok |-> TRUE, records |-> end.records] ELSE Unreadable
  IN IF ~HasMarker(stream) THEN Unreadable
     ELSE Whole(FoldLeft(LAMBDA s, n : The({NextSequence(stream, tables, t, n = count) : t \in {s}}),
                         OpenSequences(stream, tables), [n \in 1..count |-> n]))

\* decode_sequences_section.
ReadSequences ==
  /\ onTheWay # NoSection
  /\ IF ReadCount(onTheWay.count) = 0
     THEN /\ outcome' = [ok |-> TRUE, records |-> <<>>]
          /\ UNCHANGED decodeTables
     ELSE \E read \in {ReadTables(onTheWay)} :
            /\ decodeTables' = read.tables
            /\ outcome' = IF read.ok
                          THEN DecodeSequences(SubSeq(onTheWay.bits, 8 * read.bytes + 1, Len(onTheWay.bits)),
                                               read.tables, ReadCount(onTheWay.count))
                          ELSE Unreadable
  /\ onTheWay' = NoSection
  /\ UNCHANGED <<encodeTables, records, written, foreign>>

\* A section of another writer ends what this frame's writer may say.
ForeignSequences(section) ==
  /\ onTheWay = NoSection /\ outcome.ok /\ written = 0
  /\ onTheWay' = section
  /\ records' = <<>>
  /\ written' = MaxWritten
  /\ foreign' = TRUE
  /\ UNCHANGED <<encodeTables, decodeTables, outcome>>

SequencesNext ==
  \/ \E sequences \in IF written = 0 THEN FirstRecords ELSE LaterRecords,
        quick \in BOOLEAN, room \in Rooms : WriteSequences(sequences, quick, room)
  \/ ReadSequences
  \/ \E section \in ForeignSections : ForeignSequences(section)

SequencesSpec == SequencesInit /\ [][SequencesNext]_sequencesVars
-----------------------------------------------------------------------------
\* The sequences that are written are the sequences that are read, whatever
\* modes their tables were given, and with whatever room there was: a stream
\* that does not fit is refused and never cut.
SequencesArrive ==
  written > 0 /\ ~foreign /\ onTheWay = NoSection => outcome.ok /\ outcome.records = records

\* Whoever wrote them, the tables that are read or kept name no code without a
\* base, and their states stay inside them: they are read without a check.
SequenceTablesAreSound ==
  \A f \in Fields :
    decodeTables[f].ready =>
      /\ \A cell \in DOMAIN decodeTables[f].table.entries :
           decodeTables[f].table.entries[cell].symbol \in 0..Settings[f].maxSymbol
      /\ StatesInside(decodeTables[f].table)
=============================================================================
