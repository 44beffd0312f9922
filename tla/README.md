# cosmoz in TLA+

cosmoz is a Zstandard codec in pure Rust: a compressor with four levels (1, 9,
12, 22), a decompressor, one-shot, streaming and WebAssembly interfaces. This
directory models its control - what is kept from one block, call or frame to
the next, and what happens when something fails in between - in TLA+ modules,
checks them with TLC on small instances and proves theorems about some of them
with TLAPS. Source paths below are relative to `src/src/`.

## 1. The system

| Part | Source | State it keeps | Operations |
|---|---|---|---|
| Repeat offsets | `block/repeat_offsets.rs`, and inlined in `block/block_decoder_fast.rs`, `algorithms/ultra2.rs`, `algorithms/binary_tree_matcher.rs` | three distances, in the encoder's and in the decoder's workspace | value to distance (twice), distance to value (three times) |
| Block writer | `block/block_writer.rs`, `literals_writer.rs`, `sequence_writer.rs` | Huffman table, three sequence tables with their modes, repeat offsets | `write_block`: raw, RLE, one compressed block, a split |
| Block decoder | `block/block_decoder.rs`, `literals.rs`, `sequences.rs`, `sequence_tables_fast.rs` | two Huffman tables, three field tables, three fast copies with dirty flags, repeat offsets | one block, two blocks side by side, `reset_history` |
| Frame encoder and decoder | `encoder.rs`, `decoder.rs`, `frame/*` | none between calls but the workspaces | `compress`, `decompress_checked`, the walks that only measure |
| Stream encoder | `stream_encoder.rs` | segment, block start, savings, hasher, two flags | `write`, `finish` |
| Compressor | `api/stream.rs` | stream encoder, `pending`, the sink | `write`, `flush`, `finish`, drop |
| Decompressor | `api/stream.rs` | `pending`, output buffer and position, flags | `write`, `finish`, `read` |
| Match finders | `algorithms/*` | tables of positions, hash cache, indices | `reset`, `find_sequences` |
| Entropy coding, bit streams | `entropy/*`, `bits/*` | tables; containers of 64 bits | build, describe, encode, decode, refill, flush |
| Literals and sequences sections | `block/literals*.rs`, `block/sequence*.rs` | the tree and the three tables kept by either side | write, read, reuse |
| Sequence execution | `block/block_decoder.rs`, `block/block_decoder_fast.rs`, `block/copy_bytes.rs` | output, history, cursors into the literals | one block or a pair, in vectors or byte by byte |
| One-shot API, workspaces | `api/one_shot.rs`, `workspace.rs` | the two workspaces | `compress`, `decompress` and variants |
| Levels, tables, headers | `levels/*`, `encoder.rs`, `frame/*` | the tables of a level's matcher, grown from input to input | `prepare_tables_for_input`, write and read a header |
| Checksum, vector helpers, WebAssembly | `hash/*`, `simd/*`, `wasm.rs` | pending stripe; none; a heap's start, used and end | `update`; -; allocate, free, reset |

How they interact. `Compressor` calls `StreamEncoder`, which calls
`write_block` for every block, with one `EncodeWorkspace` behind them;
`Decompressor`, the one-shot functions and the WebAssembly exports call
`decompress_checked`, which calls `decode_block_sequence` with one
`DecodeWorkspace`. Encoder and decoder meet only through the bytes of a frame:
each carries a context (tables and offsets) from block to block, and the frame
is readable only if both change it in lockstep. Nothing runs concurrently. What
is hard is the rest: contexts changed before it is known whether a block is
kept, workspaces that outlive their frame or the error that ended it, five
separate implementations of one rule, calls made again after an error, input
cut anywhere, segment and table boundaries that lie megabytes apart.

What makes each part correct:

- repeat offsets: both decoding paths and all encoding codes resolve a value to
  the same distance, and a zero distance never becomes the base of another;
- blocks: every body is decoded with the tables and offsets it was written for,
  whatever was tried and given up before it;
- workspaces: nothing of an earlier frame, good, bad or abandoned, is reachable;
- streams: every byte in, once and in order, the last block and only it marked
  last, the frame independent of the chunks;
- compressor and decompressor: nothing lost or repeated across errors, and
  success reported only for a whole frame;
- sections: literals and sequences are read as they were written, whichever of
  their many forms was chosen, and a table accepted from anyone is complete;
- fast paths: they decode what the plain ones decode, and write and read
  nowhere else;
- frames: `max_compressed_size` is enough room, a header promises a window that
  holds, and a workspace has tables as large as its input asks for;
- match finders: a position of another input is never taken for one of this,
  what is offered as a match is one, and a parse stands for the input.

The full list of hazards, each at its line and with the properties aimed at
it, is `hazards` in `PROJECT.json`.

## 2. The modules

Each module has one component's state as VARIABLES, one action per operation
and the properties below `Next`. A definition carries the name of the code
where it has one; `map` in `PROJECT.json` gives the lines of every one. The
definitions named `Broken...` are plausible bugs of the definition that
follows them. Nothing uses them; putting one in the place of the right one
must make a property of the module fail, which shows that it can.

### Repeat offsets

`RepeatOffsets` has the five implementations of the rule as operators on three
distances, with the decoder's arithmetic modulo `WordSize` (the zero that `get_offset`
computes from a repeat code is kept as the error it becomes). `OffsetLockstep`
runs them side by side: `encoder` is the encoder's copy, `slow` and `fast` what
the decoder holds had it always taken one path or the other. `StoreSequence` is
what the greedy finders store, `StoreTreeMatch` and `StoreRepeatMatch` what
Ultra2 stores, `DecodeForeign` a value of another encoder, `NewFrame` a reset.
`OffsetLockstepProofs` has the proofs.

### Blocks

`BlockFormat` says what a block may describe: a Huffman table, a table for each
sequence field, each with its mode. Tables are opaque names, so that using a
wrong one is visible. `BlockWriter` is `write_block`: save, write, and on every
way out - raw, RLE, one block, a split into pieces, a piece that fails, output
too small - put back or keep. `BlockReader` is `decode_block_sequence` with
`BlockWorkspace`: single blocks and pairs, two slots for Huffman tables, fast
copies with dirty flags, and failures at any point. `BlockPipeline` composes
them over workspaces that outlive frames, with damage between, and implements
the abstract `FrameTransfer` (blocks arrive in order, once, or the frame is
given up) under the mapping at its end. `BlockPipelineProofs` has the proofs,
the refinement among them.

### Bodies

These go below that abstraction, to the bit, with the limits and sizes of the
code. `BitStreams` is what a stream of bits holds, with its marker and its
filling, and how it is written, through a container of 64 bits that `add_bits`
makes room in and `add_bits_without_flush` does not, into a buffer that may end.
`FseTables` has the scaling of counts (with the truncated quotient
that makes a whole share fall short by one), the spread of symbols, both tables,
the encoder's states and the description read and written. `HuffmanTables` has
package-merge under the limit of `get_cheap_depth`, both forms of a tree's
description, and streams. `SequenceCodes` has the codes of a sequence's three
numbers as the encoder computes and the decoder looks them up.

`LiteralsSections` is a writer that keeps `huffman` and a reader that keeps
`tree` and `weightTable`: `Write` is `write_literals`, `Read` is
`decode_literals`, which refuses more literals than a block may have before it
reads a tree (`TooLong`), and `Foreign` brings a section of another writer.
`SequencesSections` does the same for `write_sequences` and `decode_sequences`:
count, modes and tables, and the one stream in which three states take turns;
which of the modes it may take is the cheapest is left open. `MCBodies` has the
texts, records and foreign sections.

### Fast paths

Four places in the decoder have a plain and a fast implementation.
`RepeatOffsets` is one. `SequenceExecution` carries sequences out on the output:
a step moves one vector, which may reach past what is asked for; a byte is a
name that says where it comes from, and `text` is what copying byte by byte
gives. `StartPair` parks the second block's literals ahead in the output.
`BitContainers` has the words of `FastBitReader` and `BackwardBitReader` with
their refills, `SequenceReader` the order in which either path takes the bits of
a sequence from them. `HuffmanCursors` has the rounds of five symbols in which
two streams, of one block or of a pair, are decoded without looking at their
bounds. `MCFastPaths` runs the four; they hand each other nothing that is not
left open. `FastPathsProofs` has the proofs about the vectors, the readers and the
cursors.

### Streams

`StreamEncoder` is one frame written from chunks. Bytes are their positions;
`text` says where the presplitter cuts and which blocks come out smaller. The
loops of `write` and `finish` are actions (`FlushFullSegment`, `TakeInput`,
`WriteBlock`, `EndKeepLookahead`, `EndWholeSegment`, `EndFinish`), and the
first block of a segment may find no memory (`RunOutOfMemory`). The call ends
there: what the segment has not taken of its chunk is gone, which `lost` counts,
and the caller may go on; only a finished stream refuses calls. The hasher is
that of `XxHash64`: the pending stripe and the stripes are the code's, and what
is mixed is listed in its order. `StreamEncoderProofs` has the proofs.
`CompressorSink` is `Compressor` over a sink that fails, takes all, or (with
`PartialWrites`) takes a part and fails. `Decompressor` has `drain_complete_frames` as an operator and
both of its uses, pushing and reading. `MCStreaming` runs the two side by side;
`StreamingProofs` has the proofs about both.

### One input into one frame

`FrameHeaders` writes and reads a header byte for byte. `EncodeTables` has the
parameters of the levels, shrunk to the input by `shrink_to_input`, the lengths
of the tables they ask for, and a workspace that
meets one input after another: what `prepare_tables_for_input` keeps or grows, or fails to, and the
window that the header promises for it. `FrameWriter` is `compress` into a
buffer of the caller's, of which only lengths matter: blocks of any length up to
`MaxBlockSize` behind the presplitter's savings, written whole or in pieces.
`MCEncoding` runs `StreamEncoder`, `FrameWriter` and `EncodeTables`, and
`EncodingProofs` has the proofs about the last two and the headers.

### One-shot decompression

`FrameWalk` has the three walks over the units of a file that each compute for
themselves where the next thing begins; a unit knows what it is, so that a walk
that lost its place is seen to. A frame header is two units, a block header
one, a checksum two; `PairRoom` is the room `decode_block_sequence` asks for a
pair. `OneShot` is `allocate_and_decode` over them. A missing checksum nobody
verifies may go unnoticed, as in the code (`MayMissItsChecksum`).

### Match finders

`FastTable` runs a reused `FastFinder` table beside a fresh one; what the input
holds is open, so any position may have any hash. `HashCache` is `Lazy2Finder`'s search with its cache of hashes, with the
positions and jumps of the code and matches left open; `RowTable` one row of
its table across inputs. `BinaryTrees` is `BinaryTreeMatcher` over whole texts:
a step compares one node; the ring of children, the indices rebased when
history is forgotten, the seeding parse of a first block, and the table of
three-byte matches are the code's. `OptimalParse` is a block's parse in
`Ultra2Finder`, forward, back and forward again, where every comparison of two
real prices may come out either way. `MCMatchFinders` runs them,
`MatchFinderProofs` has the proofs about all of these.

### WebAssembly heap

`WasmHeap` is `cosmoz_allocate`, `cosmoz_free` and `cosmoz_reset_heap`, with
Rust's allocator growing the same memory between calls (`OthersGrow`) and a host
that may refuse. `live` is a history of what callers hold. A memory of exactly
4 GiB, where the page count times the page size wraps, is outside the model.
`WasmHeapProofs` has the proofs.

## 3. The runs

Components of one kind that share no state are checked in one run; a variable
`part` says which of them a behaviour is of, so no state is a product of two.

| Run | States | Bounds | What it shows |
|---|---|---|---|
| `pipeline` | 798,532 | level 22; one frame of 3 blocks, or 2 of 2 with one block damaged; splits in 2; one sequence field | every block is read with the tables and offsets it was written for; nothing of an earlier frame is reachable; fast copies are never stale; refines `FrameTransfer` |
| `fast_paths` | 566,210 | distances up to 5, a word of 64; vectors of 4, slack of 8, blocks of 8, outputs of 16 and 46; sequence streams of 8 to 18 bytes with up to 31 + 16 + 16 extra bits; Huffman streams of 2 to 21 bytes | offsets agree on every path and own frames resolve to what was meant; vectors write what bytes write, inside the output, and leave parked literals alone; both readers read the same bits or refuse the same stream; cursors stay inside theirs |
| `bodies` | 5,770 | frames of 2 sections; 79 first and 4 later texts of up to 140 byte values; records on each edge of codes and counts; some 3,000 foreign sections; rooms of 5 and 400 | a section is read as written, in every form; codes are optimal under the limit (up to nine byte values); accepted tables are complete and their states stay inside |
| `encoding` | 89,601 | streams of 15 bytes, blocks of 3, segments of 7, 48 texts; inputs of 13, blocks of 5, buffers 0, 1, 3 or 7 short; 4 levels, 21 lengths up to 2^30 + 1, 6 lengths of segments | blocks tile the input, no chunking shows in the frame, the checksum is of all the input, calls return; a buffer of `get_max_compressed_size` suffices; tables are large enough for every input in any order, and a header is read as what it promises |
| `streaming` | 4,038 | 3 calls that produce up to 2 bytes each, 2 failures; 5 shapes of up to 4 frames cut at every byte, reads of 3, buffers of 2, 2 errors | no byte lost or sent twice across failures and retries; a finish tells the truth; a read ends, and only at the end |
| `one_shot` | 738,295 | files of 1 or 2 frames cut anywhere, blocks of 8, first buffer of 2, maxima 5 and 11 | all the content of good, whole files, an error for the rest, for every first buffer, pairing and maximum |
| `match_finders` | 897,685 | a `u32` of 16 values, inputs of 18; a cache of 3, 2 inputs of 26; rows of 3 slots, a word of 20; 2 texts, a window of 5 positions, a ring of 4; parses of texts of 12 | a reused table finds what a fresh one finds, through several clearings; the cached hash is that of the position and nothing is read behind the block; a row's search finds the newest; candidates of the trees are matches inside the window; a parse stands for its text; `IInv` of `FastTable` is the invariant of the proof |
| `wasm_heap` | 39,139 | memory of 12 in pages of 3, alignment 2, blocks up to 5 | blocks are disjoint and granted; `IInv` is the invariant of the proof |
| `sink_partial` | - | as `streaming`, with partial writes | violates `FinishTellsTheTruth` (section 6) |
| `decompressor_errors` | - | as `streaming` | violates `ChunksDoNotMatter` (section 6) |
| `fast_table_32bit` | - | a `usize` no wider than the `u32` | violates `ReusedMatchesFresh` (section 6) |
| `sequences_long` | - | as `bodies`, with long sequences far apart | violates `SequencesArrive` (section 6) |

Why the bounds are enough. In `pipeline` the three sequence fields are handled
by one loop body with no reference to each other, so one stands for three; a
block can be wrong because of the block before, the pair it is in, the frame
before or what was tried and given up, and two or three blocks and two frames
contain all of these. In `fast_paths` an output of 16 has no room to overshoot
and one of 46 has it for a pair; matches are shorter, as long and longer than
the vector, at distances on both sides of it and into the history; extra bits
reach the most that the format allows. In `bodies` the texts and records were
chosen so that each type of section, one stream and four, a tree told either
way, reused and not, every mode of every table, and every kind of refusal occurs
(confirmed on the reachable states). `CountBase` 8 in place of 256 scales the
forms of a count of two and three bytes, so that they take a dozen sequences and
not thousands. The records of `bodies` keep the extra bits of the last sequence
below what `sequences_long` is about.

In `encoding` a segment of 7 and blocks of 3 let a block end before, at and
behind every kind of segment boundary, and 15 bytes pass it twice. For the bound
a header of 1, the longest `MaxHeader` allows, leaves no slack that would hide a
missing byte, and blocks of 5 leave room for pieces that are smaller than what
they stand for. Lengths there are real, each class of the level table on both
sides of its edge; only the length from which a size takes eight bytes is scaled
(`FourByteLimit`), since TLC's integers have 32 bits. In `one_shot` blocks of 8
and `PairRoom` 17 let buffers lie on both sides of every comparison. In
`match_finders` words are small so that the index nears the end within a few
inputs, and the ring is smaller than the window plus the block, so that every
slot is overwritten while trees still name it.

Where `CHECK_DEADLOCK FALSE` is set a call has returned and nothing more is
asked for: `one_shot` models a single call; `bodies`, `sequences_long` and
`match_finders` stop at their numbers of sections and inputs. The other modules
have no end or say it with an action (`Finished`, `Stopped`, `Gone`).

### Fairness

All three liveness properties are of code inside a call, which the processor
runs until it returns: `CallsReturn` under weak fairness of the steps of a call
of `StreamEncoder`, `Returns` under weak fairness of `Next` of one call of
`OneShot`. `ReaderComesToAnEnd` needs, besides weak fairness of the steps inside
`read`, a caller that goes on calling with room in its buffer, which is strong
fairness of that call; interruptions and errors are bounded, not fair.

## 4. What is proved

TLAPS checks these for every value of the constants under the named
assumptions of the modules.

`OffsetLockstepProofs`: both paths agree, the encoder agrees with them, own
frames resolve, a zero ends a frame. None of these alone survives a step;
`IInv`, their conjunction, does. The copies have to agree on all three distances
for the next value to agree, and none may be zero while the frame runs for a
repeat code less one to be the same error on every path. The operator lemmas
carry it: `FastIsSlow` and `UpdatedRepeatsIsGetOffset` (the implementations are
one function), `CandidateIsResolved` and `RoundTrip` (a candidate or a value
stands for the distance it was made for), `ZeroComesFirst`.

`BlockPipelineProofs`: every undamaged block is decoded with the tables and
offsets it was written with, no table of another frame is used, the fast copies
are current, and writer and reader with their workspaces implement
`FrameTransfer` (`PipelineTransfersFrames`: the initial states map to initial
states, every step to a step or a stutter). For any number of frames and blocks,
of damaged ones and of pieces, any number of sequence fields and either level.
None of these says what a block depends on, which is all the blocks
before it. `IInv` names it: `HeldTree`, `HeldTable` and `HeldOffsets` of the
first `n` blocks are the tree, the tables and the offsets told last among them. A
block of a sound frame is written for what is held at its place
(`BlockIsSound`); whatever the writer has tried and given up, it repeats only
what is held there (`MayRepeat`, for the current context and for the saved one);
and a reader that nothing damaged has come to holds exactly that (`Holds`). The
lemmas `HeldAfterBlock` and `HeldInPrefix` say what one more block changes, and
one lemma per action says that it keeps its part.

`StreamEncoderProofs`: blocks and kept bytes tile the input, a finished stream
does not depend on how its input was cut, and the checksum is that of every byte
handed over, for every size of block, segment and window, every width of stripe, any
text and wherever memory ran out. The first needs only `TileInv`, what the
segment holds and what each stage of a call knows. For the second the
blocks written so far have to be those of a stream whose end is not known yet, so
`BlocksAreSettled` speaks of every length the stream may still come to
(`Futures`), and `SegmentIsSettled` of what the next block will be decided by. The
third is `HasherInv` with the lemma `UpdateAfter`: a hasher that has taken `n`
bytes and takes `m` more is the one that takes `n + m`, lane for lane; what it has
taken is in the frame, in the segment, still to come or, after a failed call,
lost (`Accepted + remaining + lost = hasher.total`), so a frame that is short of
lost bytes carries a checksum that says so.

`StreamingProofs`: of `Compressor`, that bytes reach the sink once and in order,
that no call made again encodes twice, and that a finish without an error leaves
the whole frame in the sink; the last for a sink that takes a buffer whole or not
at all (`~PartialWrites`), which the run `sink_partial` shows to be needed. Of `Decompressor`, that nothing is lost or
repeated until a call fails, and that an end is reported only at the end of a
frame, for inputs of any number of frames of any kind and length.

`FastPathsProofs`, of `SequenceExecution`: both paths write what byte by byte would be written
and refuse the same, no vector leaves its allocation, and parked literals
survive, for every width of a vector, slack at least as wide, size of a block
and length of output. `IInv` says what the slack pays for: bytes before
`position + moved` are final; a vector of literals ends within `Slack` of the
end of its sequence, which stays `MaxBlock` from where its block began; and
parked literals lie behind both. `MatchRepeats` and `RepeatsDouble` are why
doubling the distance is right: a match repeats at its distance, and at twice
any distance at which it repeats. The last holds only as far as the bytes it was
copied from reach back, which `step - offset <= moved` keeps true.

Of `HuffmanCursors`: rounds stay inside their streams and the streams are judged
right, for any two groups of streams, codes of any length up to `MaxCodeBits`, and
any sizes under `CursorAssumption`. What that asks of the sizes is what the code
relies on: the symbols of a round take no more than `RoundBytes`, and fit a word
with a byte of it used and the sentinel in it (5 * 11 <= 56 and 8 + 55 < 64).
`CursorsInv` says for how many more rounds each cursor of the group has room and
symbols (`HasRounds`; those that had their turn need one less), and where the
cursor whose turn it is stands in its round (`IsInRound`). A stream too short for a
word begins with its sentinel shifted to the top, where no round is counted.

Of `SequenceReader`: both readers agree on every bit and verdict, for streams of
any length from a word on, any tables of the format's limits and any sizes of a
byte and a word that hold what is read between two refills: 31 + 16 extra bits, or
30 and three states of 9 bits, behind 7 bits that a refill may leave. The
second sum is 64, the whole word. `ReaderInv` says when the fast reader may have
overflowed without having noticed: the slow one has then refused, and the word of
the fast one is at the front of the stream, where reading on does no harm.
`ReadAgrees` is one read on both sides, `TogetherOn` one more read behind a list of
them, `RefillAgrees` a refill, `FinishedAlike` the verdict.

`MatchFinderProofs`, of `FastTable`: a reused table matches a fresh one for every length, window
and number of hashes, under `Wide`, that is `2 * MaxLength + PositionSize + 1 <
UsizeSize`: the sum that `reset` makes does not wrap. `IInv` adds to the
property that every slot of the reused table is either older than `firstIndex`
or what the fresh table has moved by it, and that what is stored fits the word;
`ResetMakesStale` is the step over an input, `SavedPosition` the step over an
insertion, `StaleIsNoMatch` the reason stale slots do no harm. The violated run
shows that `Wide` cannot be dropped.

Of `RowTable`, in every behaviour of `MCMatchFinders`: a search finds the newest
positions of its input, for every size of a row, window and width of a position,
under `RowWide`, that is `2 * MaxRowLength + WordSize < UsizeSize`, the same
condition on the sum that `reset` makes. `RowInv` says what the slots hold, read from
the head on (`RowHolds`): the positions inserted last, newest first, and behind
them what an earlier input left, below the base or wiped out; that positions of this
input fit their words (`BaseFits`), and that none stored lies behind its end
(`NoneAhead`), so that the next base is past them all. A search
takes what it finds from the head on until it meets what is not valid, so that the
left-overs end it (`LeftOverIsOut`), and every place before that has a position of this
input (`RowCandidate`).

Of `OptimalParse`, in every behaviour of `MCMatchFinders`: a decoder of the sequences
that are stored writes the text (`ParseIsFaithful`), for every block, reserve, pair of
thresholds and length of the table that `ParseAssumption` allows, and however prices
compare. The difficulty is that a node holds the repeat offsets of the one path that
leads to it, while what is tried from there, and overwritten, is other paths; a
literal may be put behind a match that the next node then takes back. `ParseInv`
divides the table at `current`. Before it every node is settled (`IsSettled`): it is
all literals since the anchor, or a match that a decoder can copy
behind the node its stretch begins at, and it has the offsets such a decoder then holds
(`HeldBehind`). From it on a node is only tried (`IsTried`): it has no price, or it is
such a match, begun before `current`, whose offsets may be missing while no literal
follows it. Because a stretch begins at an earlier node, settled nodes are not touched
by what comes later (`SettledStays`, `TriedStays`). On the way back the sequences taken
form a chain (`IsChain`): positions and offsets of a decoder from one to the next. It
grows in front (`ChainGrows`) until it begins at the anchor with the decoder's own
offsets, and is then consumed (`ChainBegins`). `UpdatedIsHeld` and `CandidateIsHeld` say
that what the parser does with repeat offsets is what the decoder does; `PassIs` also
keeps the last position one short of `LONGEST_OPTIMAL_MATCH` unless literals follow a
match there, which is why nothing outside of the table is touched.

Of `BinaryTrees`, in every behaviour of `MCMatchFinders`: a walk looks only at earlier
positions of its text, chooses a side by a byte of the block and skips only bytes that
are alike (`WalksStayInside`), and what `find_all_matches` returns are matches, longer
and longer, at the distances the decoder takes their values for
(`CandidatesAreMatches`): for every text, hash function, ring of children, window and
number of comparisons that `TreesAssumption` allows. Nothing in the tables says which
entries are of this text and which child belongs to which node: old texts are told by
the numbering (`Numbering`), and a child whose slot a newer position has taken by the
distance (`IsFresh`). `TreesInv` says that behind the other slots are trees
(`SlotsHold`). That a node's child is on its side is not enough, since a walk stops at
its last comparison and clears its two slots in the middle of a tree, and since a node
that was put below another is met again, by later walks, wherever that one leads. So
each position has a room, a set of positions that may hang where it does: the room of a
child lies inside that of its node, on the child's side (`RoomBelow`). The room is not in
the code; it is chosen with the walk that inserts the position, begins as
everything and shrinks to one side of the walk's position at each node visited.
`WalkGoes` is a walk under way: two slots of nodes above wait to be filled, each with
what is on its side of the walk's position (`PendingHold`), and so far as this position is
known to be like the nodes below, none of them differs to the wrong side
(`IsNotOnSide`). The argument for skipping bytes is `OnNoSideIsAlike`: what is on neither side
in the bytes known from both is like it in them; `BeyondIsNotOnSide` carries it
down. `SlotsBegin`, `SlotsVisit` and `SlotsEnd` are the steps of a walk on the
tables, `SlotsApart` that two fresh positions share no slot, and `OrderLater` that the
order of positions stays as the block grows.

`EncodingProofs`, of `FrameWriter`: `get_max_compressed_size` is enough for every length of
input, size of block, of the presplitter's chunks and of headers, under
`FrameWriterAssumption`. What the argument turns on is `MinSavingsToSplit >=
BlockHeaderLength`: the bound counts one header for each `MaxBlockSize` bytes
and the presplitter may write more, but only once the blocks before have saved
at least the header it adds. `IInv` keeps two
accounts: what has been written is no more than the header and what has been
read, less what has been saved (`Accounts`), and what is owed is at most one
block header for every `MaxBlockSize` bytes read (`Owed`). Neither follows from
`BoundSuffices`, and neither survives a step without the other. `BlockIsPaid`
says that a block is full, the last, or paid for in advance; `PiecesArePaid`
that the pieces of one block take at most a header more than what they stand
for; `EndFits` leaves room for the checksum. `BlocksAreCounted` and `BlockFits`
are the arithmetic of the rounded quotient.

Of `EncodeTables`, in every behaviour of `MCEncoding`: whatever inputs a workspace has
had, the finder that it prepares can use its tables (`TablesServeTheInput`), for
lengths of any size and allocations that fail anywhere. `prepare_tables_for_input`
compares only the sum of three lengths, which says nothing of each in general: it is
enough because all the parameters that level 22 has for inputs come from one number, the
window's logarithm (`UltraShrinks`), each length grows with it (`UltraGrows`), and so of
two such sums the larger has the larger parts (`UltraSumsDecide`). `TablesInv` says that
the tables kept are always those of some window; another row in the level table
(`ParametersBySize`) could break it, and the proof with it.

And of headers: what `write_frame_header` writes is what `read_frame_header` reads
(`HeadersAreRead`), for every size that eight bytes hold, under `EncodeTablesAssumption`
(`FourByteLimit` fits four bytes, lengths fit eight). `NumbersSurvive` is the
little-endian round trip for any number of bytes. `HeaderTellsTheTruth` needs
`HeaderInv` as well: the last header is of the input that the tables were prepared for,
and a stream's window is no smaller than that of any segment's finder (`WindowInv`,
`WindowsAreBounded`), though the two are computed apart and the finder's is shrunk.

`WasmHeapProofs`: blocks are disjoint and granted, for every page size,
alignment and amount of memory. `IInv` adds that free space of the region is
granted and nobody's, also after a refusal has moved the start behind the end
and after a reset; one lemma per action.

Recursion. The library's theorems of induction take the induction hypothesis as
an operator parameter, which the installed provers cannot instantiate. Five of
the proofs need it all the same and go round it by hand: a set of naturals
that is not empty has a least member (`LeastNatural`, from the well-foundedness of
`<`), so the least place at which a claim fails contradicts the place before it.
In `BlockPipelineProofs` this gives the block that told something last; in
`StreamingProofs` it gives a solution of the recursive `DecodedFrames`
(`PartExists`, `PartsAgree`, `DecodedFramesIs`), which nothing else says exists; in
`FastPathsProofs` one of the recursive `FastReads` and `BackwardReads`, in
`EncodingProofs` one of the recursions over the bytes of a number, and in
`MatchFinderProofs` the ends of a match and of a search that `CHOOSE` picks, and the first
byte at which two positions differ.

Only model-checked: liveness and anything with ENABLED; `ReturnsTheContent` of
the one-shot walks; and the sections of `bodies`, whose operators are recursive in ways (package-merge, the spread of symbols)
that would need an induction over data for each.

## 5. What is not modelled

Listed with reasons under `components` in `PROJECT.json`. In short:

- what only chooses among things that are all right: the costs of modes, the
  fingerprints of the splitter and the presplitter, the prices of the optimal
  parse (`symbol_prices.rs`), the order in which `FastFinder` and `Lazy2Finder`
  compare what they find. The models let every choice happen;
- instruction-level variants of loops (`simd/*`) and unrolled encoders, whose
  unit tests compare each with the plain loop;
- the values that the checksum's arithmetic makes, as against the bytes and the
  order that go into it;
- magnitudes: contents of 4 GiB and more, the wrapped page count of a memory of
  exactly 4 GiB (`wasm.rs:53`), and the sampling of texts of 40,960 bytes.

## 6. Findings

- `sink_partial`: `finish` may return Ok over a sink that has bytes twice. The
  library hands all of `pending` to `write_all` again after one that failed half
  way (`api/stream.rs:66`), having dropped the first error (`:89`), while the
  README of the library says (line 95) that `finish` returns any write error.
- `decompressor_errors`: the good frames in front of a refused one in the same
  chunk are decoded and given out again by every later call
  (`api/stream.rs:138`), although "any chunk size" is promised (README line 62).
- `fast_table_32bit`: where `usize` has 32 bits the sum in `fast.rs:67` wraps in
  a release build and the table is not cleared, so a reused workspace may give
  another (valid) frame than a fresh one, against the assertion at
  `encoder.rs:673`.
- `sequences_long`: `write_one_stream` (`block/sequence_writer.rs:411`) puts the
  last sequence's extra bits, up to 16 + 16 + 27, into the 64-bit container with
  `add_bits`, which sends nothing on behind them, and then adds the states of
  the sequence before, up to 26 bits, without a flush. Together they can be more
  than the container holds: a debug build stops at the assertion of
  `bits/forward_bit_writer.rs:58`, a release build writes a block that cannot be
  read again as it was, against the assertion at `sequence_writer.rs:547`. It
  takes long literals, a long match and a distance of megabytes in one sequence
  at the end of a block.

One thing seen and not a finding: `normalize_counts` refuses some counts; its
callers then fall back to another form, which `bodies` goes through.

## 7. Plan

What remains to prove of what is modelled is `ReturnsTheContent` of `OneShot`, over an
abstract walk. Of the model, the 32-bit variant of `RowTable`'s reset and the composition of
`SequenceExecution` with `BlockReader` are left.
