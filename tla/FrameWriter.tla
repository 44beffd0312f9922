---------------------------- MODULE FrameWriter ----------------------------
(***************************************************************************)
(* compress: one input into one frame in a buffer of the caller's, of whom *)
(* get_max_compressed_size says how much room is enough.  That counts one  *)
(* header for every MaxBlockSize bytes, though a presplitter may end       *)
(* blocks earlier and a block may be written in pieces, each with a        *)
(* header.                                                                 *)
(*                                                                         *)
(* Only lengths matter.  What the presplitter finds, what a block is coded *)
(* in and where it is split is left open.                                  *)
(***************************************************************************)
EXTENDS Integers

CONSTANTS
  MaxBlockSize,        \* MAX_BLOCK_SIZE
  ChunkLength,         \* CHUNK_LENGTH of the presplitter
  BlockHeaderLength,   \* BLOCK_HEADER_LENGTH
  ChecksumLength,      \* ZSTD_CHECKSUM_LENGTH
  MinSavingsToSplit,   \* MIN_SAVINGS_TO_SPLIT
  MaxHeader,           \* MAX_FRAME_HEADER_LENGTH
  HeaderLengths,       \* lengths of the headers that frames have
  MaxLength,           \* bound: length of an input
  Missing              \* bound: how much less room than enough there may be

ASSUME FrameWriterAssumption ==
  /\ MaxBlockSize \in Nat \ {0} /\ ChunkLength \in Nat \ {0}
  /\ BlockHeaderLength \in Nat /\ ChecksumLength \in Nat
  /\ MinSavingsToSplit \in Nat /\ MinSavingsToSplit >= BlockHeaderLength
  /\ MaxHeader \in Nat /\ HeaderLengths \subseteq 0..MaxHeader
  /\ MaxLength \in Nat
  /\ Missing \subseteq Nat

VARIABLES
  phase,        \* where the call is
  strategy,     \* of the workspace's level
  length,       \* input.len()
  checksumRoom, \* the room with_checksum asks for
  room,         \* output.len()
  enough,       \* history: whether room is what get_max_compressed_size says
  position,     \* bytes written
  from,         \* block_start: where the block starts
  balance,      \* savings: what the blocks so far have saved
  block,        \* the length of this block
  consumed,     \* of this block, what its pieces stand for
  pieces        \* what its pieces take

frameVars == <<phase, strategy, length, checksumRoom, room, enough, position, from,
               balance, block, consumed, pieces>>
callVars == <<strategy, length, checksumRoom, room, enough>>

Remaining == length - from
EndsInput == from + block = length
BlockRoom == room - position

\* At least one block, and one for every MaxBlockSize bytes begun.
BlockCount(n) == IF n = 0 THEN 1 ELSE (n + MaxBlockSize - 1) \div MaxBlockSize

MaxCompressedSize(n, checksumLength) ==
  MaxHeader + n + BlockCount(n) * BlockHeaderLength + checksumLength

FrameInit ==
  /\ phase = "idle"
  /\ strategy \in {"Fast", "Lazy2", "Ultra2"}
  /\ length = 0 /\ checksumRoom = 0 /\ room = 0 /\ enough = FALSE
  /\ position = 0 /\ from = 0 /\ balance = 0
  /\ block = 0 /\ consumed = 0 /\ pieces = 0

\* compress: the header, if there is room for it.
StartFrame(n, checksumLength, header, missing) ==
  /\ phase = "idle"
  /\ missing <= MaxCompressedSize(n, checksumLength)
  /\ length' = n
  /\ checksumRoom' = checksumLength
  /\ room' = MaxCompressedSize(n, checksumLength) - missing
  /\ enough' = (missing = 0)
  /\ IF room' < header
     THEN phase' = "too_small" /\ position' = 0
     ELSE phase' = "blocks" /\ position' = header
  /\ from' = 0 /\ balance' = 0
  /\ block' = 0 /\ consumed' = 0 /\ pieces' = 0
  /\ UNCHANGED strategy

\* Ultra2 alone asks find_block_length, which splits a block that would be full,
\* and only once the blocks before have saved the header it may cost.
MaySplit == strategy = "Ultra2" /\ Remaining >= MaxBlockSize /\ balance >= MinSavingsToSplit

\* Where the presplitter looks for a change of the text.
SplitLengths == {n \in ChunkLength..MaxBlockSize - ChunkLength : n % ChunkLength = 0}

\* find_next_block_length.
NextBlockLengths ==
  (IF Remaining < MaxBlockSize THEN {Remaining} ELSE {MaxBlockSize})
  \cup (IF MaySplit THEN SplitLengths ELSE {})

\* compress_blocks: an empty input has one block, empty too.
BeginBlock ==
  /\ phase = "blocks"
  /\ from < length \/ length = 0
  /\ block' \in NextBlockLengths
  /\ consumed' = 0
  /\ pieces' = 0
  /\ phase' = "block"
  /\ UNCHANGED <<callVars, position, from, balance>>

\* OutputTooSmall, from whatever writes.
TooSmall ==
  /\ phase' = "too_small"
  /\ UNCHANGED <<callVars, position, from, balance, block, consumed, pieces>>

\* The block takes "written" bytes, if there is room, and the next one starts.
FinishBlock(written) ==
  IF BlockRoom < written
  THEN TooSmall
  ELSE /\ position' = position + written
       /\ from' = from + block
       /\ balance' = balance + block - written
       /\ phase' = IF EndsInput THEN "checksum" ELSE "blocks"
       /\ UNCHANGED <<callVars, block, consumed, pieces>>

\* write_raw_block, also where a body came out too large.
WriteRaw ==
  /\ phase \in {"block", "single"}
  /\ FinishBlock(BlockHeaderLength + block)

\* write_rle_block: one byte, how long the block may be.
WriteRle ==
  /\ phase = "block"
  /\ block > 0
  /\ FinishBlock(BlockHeaderLength + 1)

\* commit_single_block keeps a body that is smaller than the block.
WriteSingle(body) ==
  /\ phase \in {"block", "single"}
  /\ body < block
  /\ FinishBlock(BlockHeaderLength + body)

\* Broken: a piece has only to be smaller than what it stands for.
BrokenPieceStays(piece, body) == body < piece

\* A piece stays if it is smaller than what it stands for, and the pieces so
\* far, but for one header, are no larger than what they stand for.
PieceStays(piece, body) == body < piece /\ pieces + body <= consumed + piece

\* Levels from MIN_LEVEL_FOR_BLOCK_SPLITTING on.
SplitsBlocks == strategy # "Fast"

\* write_block_as_split_pieces: one piece, and the last one, which takes the
\* rest.
WritePiece(piece, body) ==
  /\ SplitsBlocks /\ phase \in {"block", "pieces"}
  /\ piece <= block - consumed
  /\ PieceStays(piece, body)
  /\ IF BlockRoom < pieces + BlockHeaderLength + body
     THEN TooSmall
     ELSE /\ consumed' = consumed + piece
          /\ pieces' = pieces + BlockHeaderLength + body
          /\ phase' = "pieces"
          /\ UNCHANGED <<callVars, position, from, balance, block>>

WriteLastPiece(body) ==
  /\ SplitsBlocks /\ phase = "pieces"
  /\ PieceStays(block - consumed, body)
  /\ FinishBlock(pieces + BlockHeaderLength + body)

\* Ok(None): what was written is written over.
AbandonPieces ==
  /\ SplitsBlocks /\ phase \in {"block", "pieces"}
  /\ phase' = "single"
  /\ UNCHANGED <<callVars, position, from, balance, block, consumed, pieces>>

WriteChecksum ==
  /\ phase = "checksum"
  /\ IF BlockRoom < checksumRoom
     THEN TooSmall
     ELSE /\ phase' = "done"
          /\ position' = position + checksumRoom
          /\ UNCHANGED <<callVars, from, balance, block, consumed, pieces>>

\* The call has returned; the next one starts afresh.
Return ==
  /\ phase \in {"done", "too_small"}
  /\ phase' = "idle"
  /\ length' = 0 /\ checksumRoom' = 0 /\ room' = 0 /\ enough' = FALSE
  /\ position' = 0 /\ from' = 0 /\ balance' = 0
  /\ block' = 0 /\ consumed' = 0 /\ pieces' = 0
  /\ UNCHANGED strategy

FrameNext ==
  \/ \E n \in 0..MaxLength, checksumLength \in {0, ChecksumLength}, header \in HeaderLengths,
        missing \in Missing : StartFrame(n, checksumLength, header, missing)
  \/ BeginBlock
  \/ WriteRaw
  \/ WriteRle
  \/ \E body \in 1..MaxBlockSize - 1 : WriteSingle(body)
  \/ \E piece \in 1..MaxBlockSize, body \in 1..MaxBlockSize - 1 : WritePiece(piece, body)
  \/ \E body \in 1..MaxBlockSize - 1 : WriteLastPiece(body)
  \/ AbandonPieces
  \/ WriteChecksum
  \/ Return

FrameSpec == FrameInit /\ [][FrameNext]_frameVars
-----------------------------------------------------------------------------
\* A buffer of get_max_compressed_size is enough, whatever the blocks are
\* coded in, wherever the presplitter ends them and in however many pieces they
\* are written.
BoundSuffices == enough => phase # "too_small"

\* Why it holds: what is written is what the blocks stand for less what they
\* have saved, and what they may owe is paid for.
TypeOK ==
  /\ phase \in {"idle", "blocks", "block", "pieces", "single", "checksum", "done", "too_small"}
  /\ length \in Nat /\ checksumRoom \in Nat /\ room \in Nat
  /\ enough \in BOOLEAN
  /\ position \in Nat /\ from \in 0..length /\ block \in Nat
  /\ balance \in Int /\ consumed \in Nat /\ pieces \in Nat

Accounts == position + balance <= MaxHeader + from

\* A header for every MaxBlockSize bytes of the input, at most.
Owed ==
  \E headers \in Nat :
    headers * MaxBlockSize <= from /\ balance + headers * BlockHeaderLength >= 0

\* A block is full, or the last, or has been paid for.
BlockIsPaid ==
  phase \in {"block", "pieces", "single"} =>
    /\ block <= Remaining
    /\ block = MaxBlockSize \/ EndsInput \/ balance >= BlockHeaderLength

PiecesArePaid == phase = "pieces" => consumed <= block /\ pieces <= consumed + BlockHeaderLength

EndFits ==
  phase = "checksum" =>
    position <= MaxHeader + length + BlockCount(length) * BlockHeaderLength

IInv ==
  /\ TypeOK
  /\ enough => room = MaxCompressedSize(length, checksumRoom)
  /\ phase \in {"blocks", "block", "pieces", "single"} =>
       /\ Accounts /\ Owed
       /\ from < length \/ (length = 0 /\ balance = 0)
  /\ BlockIsPaid
  /\ PiecesArePaid
  /\ EndFits
  /\ BoundSuffices
=============================================================================
