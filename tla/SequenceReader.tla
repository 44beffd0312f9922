--------------------------- MODULE SequenceReader --------------------------
(***************************************************************************)
(* The bit stream of a block's sequences, read by the fast path with a     *)
(* FastBitReader and by the slow one with a BackwardBitReader.  How many   *)
(* bits a code or a state takes is in the tables, which are left open; in  *)
(* both paths the same ones.  The fast path counts on its word: it refills *)
(* once for each sequence, twice for long ones, and looks for an overflow  *)
(* only then.                                                              *)
(***************************************************************************)
EXTENDS BitContainers, Sequences

CONSTANTS
  SequenceStreams,   \* bytes of streams
  TableLogs,         \* accuracy logs of the three tables: at most 9, 8 and 9
  OffsetBits,        \* extra bits of an offset: at most 31
  LengthBits,        \* extra bits of a match or of literals: at most 16
  StateBits,         \* bits of a new state: at most the table's log
  RefillAbove,       \* 30: extra bits of a sequence behind which it refills again
  MaxSequencesRead   \* bound: sequences of a stream

\* decode_sequences_section leaves shorter streams to the slow path.
ASSUME SequenceReaderAssumption ==
  /\ \A length \in SequenceStreams : length \in Nat /\ length >= WordBytes
  /\ OffsetBits \subseteq 0..31 /\ LengthBits \subseteq 0..16
  /\ TableLogs \subseteq 0..9 /\ StateBits \subseteq 0..9
  /\ RefillAbove \in Nat /\ MaxSequencesRead \in Nat \ {0}
  /\ (ByteBits - 1) + 31 + 16 <= WordBits
  /\ (ByteBits - 1) + RefillAbove + 9 + 9 + 9 <= WordBits

VARIABLES
  fastReader,      \* SequenceStreamState::reader
  slowReader,      \* SequenceStream::reader
  fastVerdict, slowVerdict,   \* "reading", "accepted" or "refused"
  sequencesLeft,   \* the same in both; while no stream is opened, 0
  blind            \* history: a read went past its word with the stream going on

readerVars == <<fastReader, slowReader, fastVerdict, slowVerdict, sequencesLeft, blind>>

\* A reader after reads of these many bits, one after the other.
FastReads(r, counts) ==
  LET after[i \in 0..Len(counts)] ==
        IF i = 0 THEN r ELSE SkipFast(after[i - 1], counts[i])
  IN  after[Len(counts)]

BackwardReads(b, counts) ==
  LET after[i \in 0..Len(counts)] ==
        IF i = 0 THEN b ELSE SkipBackward(after[i - 1], counts[i])
  IN  after[Len(counts)]

\* One of these reads needs bits that are not in the word, but in the stream.
ReadsBlindly(r, counts) ==
  \E i \in 1..Len(counts) : ~FastSees(FastReads(r, SubSeq(counts, 1, i - 1)), counts[i])

ReaderInit ==
  /\ fastReader = OpenFast(WordBytes, 1) /\ slowReader = OpenBackward(WordBytes, 1)
  /\ fastVerdict = "closed" /\ slowVerdict = "closed"
  /\ sequencesLeft = 0 /\ blind = FALSE

\* SequenceStreamState::new and SequenceStream::new: the first three states.
OpenStream(length, marker, count, literalLog, offsetLog, matchLog) ==
  LET logs == <<literalLog, offsetLog, matchLog>>
  IN  /\ fastVerdict = "closed"
      /\ fastReader' = FastReads(OpenFast(length, marker), logs)
      /\ slowReader' = BackwardReads(OpenBackward(length, marker), logs)
      /\ fastVerdict' = "reading" /\ slowVerdict' = "reading"
      /\ sequencesLeft' = count
      /\ blind' = ReadsBlindly(OpenFast(length, marker), logs)

\* Behind the last sequence no states are read.
StatesRead(bits) == IF sequencesLeft > 1 THEN bits ELSE <<>>

\* decode_one_sequence_unchecked.
ReadFast(offset, match, literals, states) ==
  LET first  == Refill(fastReader)
      extra  == <<offset, match>>
      middle == FastReads(first, extra)
      long   == offset + match + literals > RefillAbove
      second == IF long THEN Refill(middle) ELSE middle
      rest   == <<literals>> \o StatesRead(states)
  IN  IF Overflows(fastReader) \/ (long /\ Overflows(middle))
      THEN /\ fastVerdict' = "refused"
           /\ UNCHANGED <<fastReader, blind>>
      ELSE /\ fastReader' = FastReads(second, rest)
           /\ blind' = (blind \/ ReadsBlindly(first, extra) \/ ReadsBlindly(second, rest))
           /\ UNCHANGED fastVerdict

\* SequenceStream::next_sequence.
ReadSlow(offset, match, literals, states) ==
  LET after == BackwardReads(slowReader, <<offset, match, literals>> \o StatesRead(states))
  IN  /\ slowReader' = after
      /\ slowVerdict' = IF after.overflowed THEN "refused" ELSE slowVerdict

\* Both paths read the next sequence, if they have not stopped.
ReadSequence(offset, match, literals, states) ==
  /\ sequencesLeft > 0
  /\ IF fastVerdict = "reading" THEN ReadFast(offset, match, literals, states)
                                ELSE UNCHANGED <<fastReader, fastVerdict, blind>>
  /\ IF slowVerdict = "reading" THEN ReadSlow(offset, match, literals, states)
                                ELSE UNCHANGED <<slowReader, slowVerdict>>
  /\ sequencesLeft' = sequencesLeft - 1

FastVerdict(r) == IF FastIsFinished(r) THEN "accepted" ELSE "refused"

SlowVerdict(b) == IF BackwardIsFinished(b) THEN "accepted" ELSE "refused"

\* Behind the last sequence the stream has to be used up.
CloseStream ==
  /\ sequencesLeft = 0 /\ "reading" \in {fastVerdict, slowVerdict}
  /\ fastVerdict' = IF fastVerdict = "reading" THEN FastVerdict(fastReader) ELSE fastVerdict
  /\ slowVerdict' = IF slowVerdict = "reading" THEN SlowVerdict(slowReader) ELSE slowVerdict
  /\ UNCHANGED <<fastReader, slowReader, sequencesLeft, blind>>

StreamOver ==
  /\ sequencesLeft = 0 /\ {fastVerdict, slowVerdict} \subseteq {"accepted", "refused"}
  /\ UNCHANGED readerVars

ReaderNext ==
  \/ \E length \in SequenceStreams, marker \in Markers, count \in 1..MaxSequencesRead,
        literalLog, offsetLog, matchLog \in TableLogs :
       OpenStream(length, marker, count, literalLog, offsetLog, matchLog)
  \/ \E offset \in OffsetBits, match, literals \in LengthBits, bits \in StateBits :
       ReadSequence(offset, match, literals, <<bits, bits, bits>>)
  \/ CloseStream
  \/ StreamOver

ReaderSpec == ReaderInit /\ [][ReaderNext]_readerVars
-----------------------------------------------------------------------------
\* As long as the stream lasts, both paths are at the same bit of it and no read
\* of the fast path takes bits that its word does not hold; and in the end both
\* accept or both refuse the stream, though the fast path does not look for an
\* overflow behind every read.
SequenceReadersAgree ==
  /\ ~slowReader.overflowed /\ fastVerdict # "refused" =>
       FastBitsLeft(fastReader) = BackwardBitsLeft(slowReader)
  /\ ~blind
  /\ sequencesLeft = 0 /\ "reading" \notin {fastVerdict, slowVerdict} =>
       fastVerdict = slowVerdict
=============================================================================
