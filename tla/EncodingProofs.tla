--------------------------- MODULE EncodingProofs ---------------------------
(***************************************************************************)
(* What surrounds the blocks of a frame, for inputs of every length.       *)
(*                                                                         *)
(* A buffer of get_max_compressed_size is enough, however the blocks are   *)
(* cut, coded and split.  IInv keeps two accounts: what is written is what *)
(* the blocks stand for less what they saved, and what they owe is a       *)
(* header for every MaxBlockSize bytes behind them.                        *)
(*                                                                         *)
(* The tables that a workspace keeps serve every input after them, though  *)
(* only the sum of their lengths is compared.  TablesInv: those of level   *)
(* 22 are always the tables of one window.                                 *)
(*                                                                         *)
(* A header is read as what was written, and its window holds every        *)
(* distance of the frame.  HeaderInv relates it to the match finder.       *)
(***************************************************************************)
EXTENDS MCEncoding, FiniteSetTheorems, SequenceTheorems, WellFoundedInduction, TLAPS

InABlock == phase \in {"block", "pieces", "single"}

\* The products of the two accounts.
LEMMA Distributes ==
  ASSUME NEW a \in Nat, NEW m \in Nat
  PROVE  (a + 1) * m = a * m + m
BY SMT

LEMMA ProductGrows ==
  ASSUME NEW a \in Nat, NEW b \in Nat, NEW m \in Nat, a <= b
  PROVE  a * m <= b * m
BY SMT

\* Savings that are not negative owe nothing.
LEMMA NothingIsOwed ==
  ASSUME NEW saved \in Nat, NEW start \in Nat
  PROVE  \E headers \in Nat :
           headers * MaxBlockSize <= start /\ saved + headers * BlockHeaderLength >= 0
<1>1. 0 * MaxBlockSize = 0 /\ 0 * BlockHeaderLength = 0
  BY FrameWriterAssumption, SMT
<1>2. 0 * MaxBlockSize <= start /\ saved + 0 * BlockHeaderLength >= 0
  BY <1>1
<1> QED  BY <1>2

\* Blocks that begin before the end of the input are counted.
LEMMA BlocksAreCounted ==
  ASSUME NEW n \in Nat, NEW headers \in Nat, headers * MaxBlockSize < n
  PROVE  BlockCount(n) \in Nat /\ headers + 1 <= BlockCount(n)
<1> DEFINE count == (n + MaxBlockSize - 1) \div MaxBlockSize
<1>1. MaxBlockSize \in Nat \ {0} /\ n > 0
  <2>1. MaxBlockSize \in Nat \ {0}
    BY FrameWriterAssumption
  <2>2. headers * MaxBlockSize >= 0
    BY <2>1, SMT
  <2> QED  BY <2>1, <2>2
<1>2. n + MaxBlockSize - 1 \in Nat
  BY <1>1
<1>3. count \in Nat /\ n + MaxBlockSize - 1 < count * MaxBlockSize + MaxBlockSize
  BY <1>1, <1>2, SMT
<1>4. count * MaxBlockSize \in Nat /\ headers * MaxBlockSize \in Nat
  BY <1>1, <1>3, SMT
<1>5. headers * MaxBlockSize < count * MaxBlockSize
  BY <1>1, <1>3, <1>4
<1>6. ~(count <= headers)
  <2> HIDE DEF count
  <2> QED  BY <1>1, <1>3, <1>4, <1>5, ProductGrows
<1>7. BlockCount(n) = count
  BY <1>1 DEF BlockCount
<1> QED  BY <1>3, <1>6, <1>7

\* The bound is a number, and grows with the headers counted.
LEMMA BlockCountIsNat ==
  ASSUME NEW n \in Nat
  PROVE  BlockCount(n) \in Nat /\ MaxCompressedSize(n, checksumRoom) =
           MaxHeader + n + BlockCount(n) * BlockHeaderLength + checksumRoom
<1>1. CASE n = 0
  BY <1>1 DEF BlockCount, MaxCompressedSize
<1>2. CASE n # 0
  <2>1. MaxBlockSize \in Nat \ {0} /\ n + MaxBlockSize - 1 \in Nat
    BY <1>2, FrameWriterAssumption
  <2>2. (n + MaxBlockSize - 1) \div MaxBlockSize \in Nat
    BY <2>1, SMT
  <2> QED  BY <1>2, <2>2 DEF BlockCount, MaxCompressedSize
<1> QED  BY <1>1, <1>2

\* What a block may take, at most its length and a header, fits: it is full or
\* the last, and its header is counted, or its header has been saved before.
LEMMA BlockFits ==
  ASSUME IInv, InABlock, NEW written \in Nat, written <= block + BlockHeaderLength
  PROVE  position + written <= MaxHeader + length + BlockCount(length) * BlockHeaderLength
<1> USE FrameWriterAssumption
<1>1. /\ length \in Nat /\ position \in Nat /\ from \in 0..length /\ block \in Nat
      /\ balance \in Int
      /\ position + balance <= MaxHeader + from
      /\ from + block <= length
      /\ block = MaxBlockSize \/ from + block = length \/ balance >= BlockHeaderLength
      /\ from < length \/ (length = 0 /\ balance = 0)
  BY DEF IInv, InABlock, TypeOK, Accounts, BlockIsPaid, Remaining, EndsInput
<1>2. PICK headers \in Nat :
        headers * MaxBlockSize <= from /\ balance + headers * BlockHeaderLength >= 0
  BY DEF IInv, InABlock, Owed
<1> DEFINE counted == BlockCount(length)
<1>3. counted \in Nat
  BY <1>1, BlockCountIsNat
<1>4. counted * BlockHeaderLength \in Nat /\ headers * BlockHeaderLength \in Nat
  BY <1>2, <1>3, SMT
<1>5. CASE balance >= BlockHeaderLength
  BY <1>1, <1>4, <1>5
<1>6. ASSUME headers + 1 <= counted
      PROVE  position + written <= MaxHeader + length + counted * BlockHeaderLength
  <2>1. (headers + 1) * BlockHeaderLength = headers * BlockHeaderLength + BlockHeaderLength
    BY <1>2, Distributes
  <2>2. (headers + 1) * BlockHeaderLength <= counted * BlockHeaderLength
    <3> HIDE DEF counted
    <3> QED  BY <1>2, <1>3, <1>6, ProductGrows
  <2> HIDE DEF counted
  <2> QED  BY <1>1, <1>2, <1>4, <2>1, <2>2
<1>7. CASE length = 0
  <2>1. counted = 1
    BY <1>7 DEF BlockCount
  <2>2. counted * BlockHeaderLength = BlockHeaderLength
    BY <2>1, SMT
  <2> QED  BY <1>1, <1>7, <2>2
<1>8. CASE from < length
  <2>1. headers * MaxBlockSize < length
    BY <1>1, <1>2, <1>8
  <2> QED  BY <1>1, <1>2, <1>6, <2>1, BlocksAreCounted
<1> QED  BY <1>1, <1>7, <1>8

\* A block that takes no more than its length and a header fits the bound, and
\* leaves the accounts in order.
LEMMA FinishBlockKeeps ==
  ASSUME IInv, InABlock, NEW written \in Nat, written <= block + BlockHeaderLength,
         FinishBlock(written)
  PROVE  IInv'
<1> USE FrameWriterAssumption
<1>1. /\ TypeOK /\ Accounts /\ Owed
      /\ block <= Remaining
      /\ enough => room = MaxCompressedSize(length, checksumRoom)
  BY DEF IInv, InABlock, BlockIsPaid
<1>2. position + written <= MaxHeader + length + BlockCount(length) * BlockHeaderLength
  BY BlockFits
<1>3. BlockCount(length) * BlockHeaderLength \in Nat
  <2>1. BlockCount(length) \in Nat
    BY <1>1, BlockCountIsNat DEF TypeOK
  <2> QED  BY <2>1, SMT
<1>4. enough => ~(BlockRoom < written)
  <2>1. enough => room = MaxHeader + length + BlockCount(length) * BlockHeaderLength + checksumRoom
    BY <1>1, BlockCountIsNat DEF TypeOK
  <2> QED  BY <1>1, <1>2, <1>3, <2>1 DEF BlockRoom, TypeOK
<1>5. CASE BlockRoom < written
  <2>1. TooSmall
    BY <1>5 DEF FinishBlock
  <2> QED
    BY <1>1, <1>4, <1>5, <2>1
    DEF IInv, TypeOK, TooSmall, callVars, BlockIsPaid, PiecesArePaid, EndFits, BoundSuffices,
        MaxCompressedSize, BlockCount
<1>6. CASE ~(BlockRoom < written)
  <2>1. /\ position' = position + written
        /\ from' = from + block
        /\ balance' = balance + block - written
        /\ phase' = IF EndsInput THEN "checksum" ELSE "blocks"
        /\ UNCHANGED <<callVars, block, consumed, pieces>>
    BY <1>6 DEF FinishBlock
  <2>2. TypeOK'
    BY <1>1, <2>1 DEF TypeOK, callVars, Remaining
  <2>3. Accounts'
    BY <1>1, <2>1 DEF Accounts, TypeOK
  <2>4. CASE EndsInput
    BY <1>1, <1>2, <2>1, <2>2, <2>4
    DEF IInv, callVars, BlockIsPaid, PiecesArePaid, EndFits, BoundSuffices, MaxCompressedSize,
        BlockCount
  <2>5. CASE ~EndsInput
    <3>1. from' < length'
      BY <1>1, <2>1, <2>5 DEF TypeOK, callVars, Remaining, EndsInput
    <3>2. Owed'
      <4>1. PICK headers \in Nat :
              headers * MaxBlockSize <= from /\ balance + headers * BlockHeaderLength >= 0
        BY <1>1 DEF Owed
      <4>2. headers * MaxBlockSize \in Nat /\ headers * BlockHeaderLength \in Nat
        BY <4>1, SMT
      <4>3. CASE block = MaxBlockSize
        <5>1. (headers + 1) * MaxBlockSize <= from'
          <6>1. (headers + 1) * MaxBlockSize = headers * MaxBlockSize + MaxBlockSize
            BY <4>1, Distributes
          <6> QED  BY <1>1, <2>1, <4>1, <4>2, <4>3, <6>1 DEF TypeOK
        <5>2. balance' + (headers + 1) * BlockHeaderLength >= 0
          <6>1. (headers + 1) * BlockHeaderLength = headers * BlockHeaderLength + BlockHeaderLength
            BY <4>1, Distributes
          <6> QED  BY <1>1, <2>1, <4>1, <4>2, <6>1 DEF TypeOK
        <5>3. headers + 1 \in Nat
          BY <4>1
        <5> QED  BY <5>1, <5>2, <5>3 DEF Owed
      <4>4. CASE balance >= BlockHeaderLength
        <5>1. balance' \in Nat /\ from' \in Nat
          <6>1. InABlock /\ ~EndsInput
            BY <2>5
          <6> QED  BY <1>1, <2>1, <4>4 DEF TypeOK, Remaining
        <5> QED  BY <5>1, NothingIsOwed DEF Owed
      <4> QED  BY <2>5, <4>3, <4>4 DEF IInv, InABlock, BlockIsPaid
    <3> QED
      BY <1>1, <2>1, <2>2, <2>3, <2>5, <3>1, <3>2
      DEF IInv, callVars, BlockIsPaid, PiecesArePaid, EndFits, BoundSuffices, MaxCompressedSize,
          BlockCount
  <2> QED  BY <2>4, <2>5
<1> QED  BY <1>5, <1>6

LEMMA InitIInv == FrameInit => IInv
<1> SUFFICES ASSUME FrameInit PROVE IInv
  OBVIOUS
<1>1. /\ phase = "idle" /\ ~enough
      /\ length = 0 /\ checksumRoom = 0 /\ room = 0 /\ position = 0 /\ from = 0
      /\ balance = 0 /\ block = 0 /\ consumed = 0 /\ pieces = 0
  BY DEF FrameInit
<1>2. enough \in BOOLEAN
  BY DEF FrameInit
<1>3. TypeOK
  BY <1>1, <1>2 DEF TypeOK
<1> QED
  BY <1>1, <1>3 DEF IInv, BlockIsPaid, PiecesArePaid, EndFits, BoundSuffices

\* The header is no longer than what the bound has for it.
LEMMA StartFrameKeeps ==
  ASSUME IInv, NEW n \in 0..MaxLength, NEW checksumLength \in {0, ChecksumLength},
         NEW lead \in HeaderLengths, NEW missing \in Missing,
         StartFrame(n, checksumLength, lead, missing)
  PROVE  IInv'
<1> USE FrameWriterAssumption
<1> DEFINE bound == MaxCompressedSize(n, checksumLength)
<1>1. /\ n \in Nat /\ checksumLength \in Nat /\ missing \in Nat
      /\ lead \in Nat /\ lead <= MaxHeader
  OBVIOUS
<1>2. BlockCount(n) * BlockHeaderLength \in Nat
  <2>1. BlockCount(n) \in Nat
    BY <1>1, BlockCountIsNat
  <2> QED  BY <2>1, SMT
<1>3. bound \in Nat /\ MaxHeader <= bound
  BY <1>1, <1>2 DEF MaxCompressedSize
<1>4. /\ length' = n /\ checksumRoom' = checksumLength
      /\ room' = bound - missing /\ room' \in Nat
      /\ from' = 0 /\ balance' = 0 /\ block' = 0 /\ consumed' = 0 /\ pieces' = 0
      /\ \/ phase' = "too_small" /\ position' = 0 /\ room' < lead
         \/ phase' = "blocks" /\ position' = lead
  BY <1>1, <1>3 DEF StartFrame
<1>5. enough' = (missing = 0)
  BY DEF StartFrame
<1>6. enough' => room' = bound
  <2> SUFFICES ASSUME enough' PROVE room' = bound
    OBVIOUS
  <2>1. missing = 0
    BY <1>5
  <2> HIDE DEF bound
  <2> QED  BY <1>3, <1>4, <2>1
<1>7. enough' => ~(room' < lead)
  BY <1>1, <1>3, <1>6
<1>8. TypeOK'
  <2>1. enough' \in BOOLEAN
    BY <1>5
  <2> QED  BY <1>1, <1>4, <2>1 DEF TypeOK
<1>9. Accounts' /\ (length' # 0 => from' < length')
  BY <1>1, <1>4 DEF Accounts
<1>10. Owed'
  <2>1. balance' \in Nat /\ from' \in Nat
    BY <1>4
  <2> QED  BY <2>1, NothingIsOwed DEF Owed
<1>11. (enough => room = MaxCompressedSize(length, checksumRoom))'
  BY <1>4, <1>6 DEF MaxCompressedSize, BlockCount
<1>12. BoundSuffices'
  BY <1>4, <1>7 DEF BoundSuffices
<1> HIDE DEF bound
<1> QED
  BY <1>4, <1>9, <1>10, <1>11, <1>12, <1>8
  DEF IInv, BlockIsPaid, PiecesArePaid, EndFits

\* A block is full, the last, or split from what would be full once there were
\* savings.
LEMMA BeginBlockKeeps == ASSUME IInv, BeginBlock PROVE IInv'
<1> USE FrameWriterAssumption
<1>1. /\ TypeOK /\ Accounts /\ Owed
      /\ enough => room = MaxCompressedSize(length, checksumRoom)
      /\ from < length \/ (length = 0 /\ balance = 0)
  BY DEF IInv, BeginBlock
<1>2. /\ block' \in NextBlockLengths /\ consumed' = 0 /\ pieces' = 0 /\ phase' = "block"
      /\ UNCHANGED <<callVars, position, from, balance>>
  BY DEF BeginBlock
<1>3. Remaining \in Nat
  BY <1>1 DEF TypeOK, Remaining
<1>4. /\ block' \in Nat /\ block' <= Remaining
      /\ block' = MaxBlockSize \/ block' = Remaining \/ balance >= BlockHeaderLength
  <2>1. CASE block' \in IF Remaining < MaxBlockSize THEN {Remaining} ELSE {MaxBlockSize}
    BY <1>3, <2>1
  <2>2. CASE MaySplit /\ block' \in SplitLengths
    <3>1. block' \in ChunkLength..MaxBlockSize - ChunkLength
      BY <2>2 DEF SplitLengths
    <3>2. Remaining >= MaxBlockSize /\ balance >= MinSavingsToSplit
      BY <2>2 DEF MaySplit
    <3> QED  BY <1>1, <1>3, <3>1, <3>2 DEF TypeOK
  <2> QED  BY <1>2, <2>1, <2>2 DEF NextBlockLengths
<1>5. TypeOK'
  BY <1>1, <1>2, <1>4 DEF TypeOK, callVars
<1>6. BlockIsPaid'
  <2>1. length' = length /\ from' = from /\ balance' = balance
    BY <1>2 DEF callVars
  <2>2. block' = Remaining => from' + block' = length'
    BY <1>1, <2>1 DEF Remaining, TypeOK
  <2>3. Remaining' = Remaining
    BY <2>1 DEF Remaining
  <2> QED  BY <1>4, <2>1, <2>2, <2>3 DEF BlockIsPaid, EndsInput
<1> QED
  BY <1>1, <1>2, <1>5, <1>6
  DEF IInv, callVars, Accounts, Owed, PiecesArePaid, EndFits, BoundSuffices, MaxCompressedSize,
      BlockCount

\* The pieces of a block stay below what it may take.
LEMMA WritePieceKeeps ==
  ASSUME IInv, NEW piece \in 1..MaxBlockSize, NEW body \in 1..MaxBlockSize - 1, WritePiece(piece, body)
  PROVE  IInv'
<1> USE FrameWriterAssumption
<1>1. /\ TypeOK /\ Accounts /\ Owed /\ InABlock
      /\ enough => room = MaxCompressedSize(length, checksumRoom)
  BY DEF IInv, WritePiece, InABlock
<1>2. /\ piece \in Nat /\ body \in Nat /\ piece <= block - consumed
      /\ pieces + body <= consumed + piece
  BY DEF WritePiece, PieceStays
<1> DEFINE written == pieces + BlockHeaderLength + body
<1>3. written \in Nat /\ written <= block + BlockHeaderLength
  BY <1>1, <1>2 DEF TypeOK
<1>4. position + written <= MaxHeader + length + BlockCount(length) * BlockHeaderLength
  <2> HIDE DEF written
  <2> QED  BY <1>1, <1>3, BlockFits
<1>5. BlockCount(length) * BlockHeaderLength \in Nat
  <2>1. BlockCount(length) \in Nat
    BY <1>1, BlockCountIsNat DEF TypeOK
  <2> QED  BY <2>1, SMT
<1>6. enough => ~(BlockRoom < written)
  <2>1. enough => room = MaxHeader + length + BlockCount(length) * BlockHeaderLength + checksumRoom
    BY <1>1, BlockCountIsNat DEF TypeOK
  <2> HIDE DEF written
  <2> QED  BY <1>1, <1>3, <1>4, <1>5, <2>1 DEF BlockRoom, TypeOK
<1>7. CASE BlockRoom < written
  <2>1. TooSmall
    BY <1>7 DEF WritePiece
  <2> QED
    BY <1>1, <1>6, <1>7, <2>1
    DEF IInv, TypeOK, TooSmall, callVars, BlockIsPaid, PiecesArePaid, EndFits, BoundSuffices,
        MaxCompressedSize, BlockCount
<1>8. CASE ~(BlockRoom < written)
  <2>1. /\ consumed' = consumed + piece /\ pieces' = written /\ phase' = "pieces"
        /\ UNCHANGED <<callVars, position, from, balance, block>>
    BY <1>8 DEF WritePiece
  <2>2. TypeOK'
    BY <1>1, <1>2, <1>3, <2>1 DEF TypeOK, callVars
  <2>3. PiecesArePaid'
    BY <1>1, <1>2, <2>1 DEF PiecesArePaid, TypeOK
  <2>4. BlockIsPaid'
    BY <1>1, <2>1 DEF IInv, InABlock, BlockIsPaid, Remaining, EndsInput, callVars
  <2>5. from < length \/ (length = 0 /\ balance = 0)
    BY <1>1 DEF IInv, InABlock
  <2> QED
    BY <1>1, <2>1, <2>2, <2>3, <2>4, <2>5
    DEF IInv, callVars, Accounts, Owed, EndFits, BoundSuffices, MaxCompressedSize, BlockCount
<1> QED  BY <1>7, <1>8

LEMMA AbandonPiecesKeeps == ASSUME IInv, AbandonPieces PROVE IInv'
<1>1. /\ phase \in {"block", "pieces"} /\ phase' = "single"
      /\ UNCHANGED <<callVars, position, from, balance, block, consumed, pieces>>
  BY DEF AbandonPieces
<1> QED
  BY <1>1
  DEF IInv, TypeOK, callVars, Accounts, Owed, BlockIsPaid, PiecesArePaid, EndFits, BoundSuffices,
      Remaining, EndsInput, MaxCompressedSize, BlockCount

\* The bound has room for the checksum behind all blocks.
LEMMA WriteChecksumKeeps == ASSUME IInv, WriteChecksum PROVE IInv'
<1> USE FrameWriterAssumption
<1>1. /\ TypeOK /\ EndFits /\ phase = "checksum"
      /\ enough => room = MaxCompressedSize(length, checksumRoom)
  BY DEF IInv, WriteChecksum
<1>2. BlockCount(length) * BlockHeaderLength \in Nat
  <2>1. BlockCount(length) \in Nat
    BY <1>1, BlockCountIsNat DEF TypeOK
  <2> QED  BY <2>1, SMT
<1>3. enough => ~(BlockRoom < checksumRoom)
  <2>1. enough => room = MaxHeader + length + BlockCount(length) * BlockHeaderLength + checksumRoom
    BY <1>1, BlockCountIsNat DEF TypeOK
  <2> QED  BY <1>1, <1>2, <2>1 DEF BlockRoom, TypeOK, EndFits
<1>4. CASE BlockRoom < checksumRoom
  <2>1. TooSmall
    BY <1>4 DEF WriteChecksum
  <2> QED
    BY <1>1, <1>3, <1>4, <2>1
    DEF IInv, TypeOK, TooSmall, callVars, BlockIsPaid, PiecesArePaid, EndFits, BoundSuffices,
        MaxCompressedSize, BlockCount
<1>5. CASE ~(BlockRoom < checksumRoom)
  <2>1. /\ phase' = "done" /\ position' = position + checksumRoom
        /\ UNCHANGED <<callVars, from, balance, block, consumed, pieces>>
    BY <1>5 DEF WriteChecksum
  <2> QED
    BY <1>1, <2>1
    DEF IInv, TypeOK, callVars, BlockIsPaid, PiecesArePaid, EndFits, BoundSuffices,
        MaxCompressedSize, BlockCount
<1> QED  BY <1>4, <1>5

LEMMA ReturnKeeps == ASSUME IInv, Return PROVE IInv'
<1>1. /\ phase' = "idle" /\ ~enough'
      /\ length' = 0 /\ checksumRoom' = 0 /\ room' = 0 /\ position' = 0 /\ from' = 0
      /\ balance' = 0 /\ block' = 0 /\ consumed' = 0 /\ pieces' = 0
  BY DEF Return
<1>2. enough' \in BOOLEAN
  BY DEF Return
<1>3. TypeOK'
  BY <1>1, <1>2 DEF TypeOK
<1> QED
  BY <1>1, <1>3 DEF IInv, BlockIsPaid, PiecesArePaid, EndFits, BoundSuffices

\* Every step keeps the accounts.
LEMMA NextIInv == IInv /\ [FrameNext]_frameVars => IInv'
<1> SUFFICES ASSUME IInv, [FrameNext]_frameVars PROVE IInv'
  OBVIOUS
<1> USE FrameWriterAssumption
<1>1. TypeOK
  BY DEF IInv
<1>2. CASE UNCHANGED frameVars
  BY <1>2
  DEF frameVars, IInv, TypeOK, Accounts, Owed, BlockIsPaid, PiecesArePaid, EndFits,
      BoundSuffices, Remaining, EndsInput, MaxCompressedSize, BlockCount
<1>3. CASE \E n \in 0..MaxLength, checksumLength \in {0, ChecksumLength},
              lead \in HeaderLengths, missing \in Missing :
             StartFrame(n, checksumLength, lead, missing)
  BY <1>3, StartFrameKeeps
<1>4. CASE BeginBlock
  BY <1>4, BeginBlockKeeps
<1>5. CASE WriteRaw
  <2>1. InABlock /\ FinishBlock(BlockHeaderLength + block)
    BY <1>5 DEF WriteRaw, InABlock
  <2>2. BlockHeaderLength + block \in Nat /\ BlockHeaderLength + block <= block + BlockHeaderLength
    BY <1>1 DEF TypeOK
  <2> QED  BY <2>1, <2>2, FinishBlockKeeps
<1>6. CASE WriteRle
  <2>1. InABlock /\ FinishBlock(BlockHeaderLength + 1) /\ block > 0
    BY <1>6 DEF WriteRle, InABlock
  <2>2. BlockHeaderLength + 1 \in Nat /\ BlockHeaderLength + 1 <= block + BlockHeaderLength
    BY <1>1, <2>1 DEF TypeOK
  <2> QED  BY <2>1, <2>2, FinishBlockKeeps
<1>7. ASSUME NEW body \in 1..MaxBlockSize - 1, WriteSingle(body) PROVE IInv'
  <2>1. InABlock /\ FinishBlock(BlockHeaderLength + body) /\ body < block
    BY <1>7 DEF WriteSingle, InABlock
  <2>2. BlockHeaderLength + body \in Nat /\ BlockHeaderLength + body <= block + BlockHeaderLength
    BY <1>1, <2>1 DEF TypeOK
  <2> QED  BY <2>1, <2>2, FinishBlockKeeps
<1>8. CASE \E piece \in 1..MaxBlockSize, body \in 1..MaxBlockSize - 1 : WritePiece(piece, body)
  BY <1>8, WritePieceKeeps
<1>9. ASSUME NEW body \in 1..MaxBlockSize - 1, WriteLastPiece(body) PROVE IInv'
  <2>1. /\ InABlock /\ FinishBlock(pieces + BlockHeaderLength + body)
        /\ phase = "pieces" /\ pieces + body <= consumed + (block - consumed)
    BY <1>9 DEF WriteLastPiece, InABlock, PieceStays
  <2>2. /\ pieces + BlockHeaderLength + body \in Nat
        /\ pieces + BlockHeaderLength + body <= block + BlockHeaderLength
    BY <1>1, <2>1 DEF TypeOK
  <2> QED  BY <2>1, <2>2, FinishBlockKeeps
<1>10. CASE AbandonPieces
  BY <1>10, AbandonPiecesKeeps
<1>11. CASE WriteChecksum
  BY <1>11, WriteChecksumKeeps
<1>12. CASE Return
  BY <1>12, ReturnKeeps
<1> QED
  BY <1>2, <1>3, <1>4, <1>5, <1>6, <1>7, <1>8, <1>9, <1>10, <1>11, <1>12 DEF FrameNext

\* compress never fails for want of room where its caller has given it what
\* get_max_compressed_size says: for every length of input and every size of
\* block, chunk and header, if a split has to have saved its header.
THEOREM BoundAlwaysSuffices == FrameSpec => []BoundSuffices
<1>1. IInv => BoundSuffices
  BY DEF IInv
<1> QED  BY InitIInv, NextIInv, <1>1, PTL DEF FrameSpec
-----------------------------------------------------------------------------
(***************************************************************************)
(* Naturals and powers of two.                                             *)
(***************************************************************************)

\* A set of natural numbers has a least member.
LEMMA LeastNatural ==
  ASSUME NEW D, D \subseteq Nat, D # {}
  PROVE  \E d \in D : \A e \in D : d <= e
<1> DEFINE R == OpToRel(<, Nat)
<1>1. R = {ss \in Nat \X Nat : ss[1] < ss[2]}
  BY DEF OpToRel
<1>2. IsWellFoundedOn(R, Nat)
  BY NatLessThanWellFounded
<1> HIDE DEF R
<1>3. PICK d \in D : \A e \in D : ~(<<e, d>> \in R)
  BY <1>2, WFMin
<1>4. \A e, c \in Nat : e < c => <<e, c>> \in R
  BY <1>1
<1>5. ASSUME NEW e \in D PROVE d <= e
  <2>1. d \in Nat /\ e \in Nat
    OBVIOUS
  <2>2. ~(e < d)
    BY <1>3, <1>4, <2>1, Zenon
  <2> QED
    BY <2>1, <2>2
<1> QED
  BY <1>5

\* Powers of two grow with their exponents.
LEMMA PowersGrow ==
  ASSUME NEW a \in Nat, NEW b \in Nat
  PROVE  /\ 2^a \in Nat /\ 2^b \in Nat
         /\ a <= b => 2^a <= 2^b
         /\ a < b => 2^a < 2^b
<1>1. ASSUME NEW n \in Nat
      PROVE  /\ IsFiniteSet(SUBSET (1..n)) /\ Cardinality(SUBSET (1..n)) = 2^n /\ 2^n \in Nat
  <2>1. IsFiniteSet(1..n) /\ Cardinality(1..n) = n
    BY FS_Interval
  <2>2. IsFiniteSet(SUBSET (1..n)) /\ Cardinality(SUBSET (1..n)) = 2^n
    BY <2>1, FS_SUBSET
  <2> QED
    BY <2>2, FS_CardinalityType
<1>2. ASSUME a <= b PROVE SUBSET (1..a) \in SUBSET (SUBSET (1..b))
  BY <1>2
<1>3. ASSUME a <= b PROVE 2^a <= 2^b
  <2>1. PICK S : S = SUBSET (1..a)
    OBVIOUS
  <2>2. PICK T : T = SUBSET (1..b)
    OBVIOUS
  <2>3. IsFiniteSet(T) /\ Cardinality(T) = 2^b /\ Cardinality(S) = 2^a /\ S \in SUBSET T
    BY <1>1, <1>2, <1>3, <2>1, <2>2
  <2>4. Cardinality(S) <= Cardinality(T)
    BY <2>3, FS_Subset
  <2> QED
    BY <2>3, <2>4
<1>4. ASSUME a < b PROVE 2^a # 2^b
  <2>1. 1..b \in SUBSET (1..b) /\ 1..b \notin SUBSET (1..a)
    <3>1. b \in 1..b /\ b \notin 1..a
      BY <1>4
    <3> QED
      BY <3>1
  <2>2. SUBSET (1..a) \in SUBSET (SUBSET (1..b))
    BY <1>2, <1>4
  <2> QED
    BY <1>1, <2>1, <2>2, FS_Subset
<1>5. 2^a \in Nat /\ 2^b \in Nat
  BY <1>1
<1> QED
  BY <1>3, <1>4, <1>5

-----------------------------------------------------------------------------
(***************************************************************************)
(* The logarithm of an input's length, and the tables made for it.         *)
(***************************************************************************)

\* An input of no more than 2^30 bytes has a logarithm, and no smaller power of
\* two is as large as it.
LEMMA InputLogIs ==
  ASSUME NEW n \in Nat, n <= 2^30
  PROVE  /\ Tables!InputLog(n) \in 6..30
         /\ \A k \in 6..30 : n <= 2^k <=> Tables!InputLog(n) <= k
<1>1. CASE n < 2^6
  <2>1. Tables!InputLog(n) = 6
    BY <1>1 DEF Tables!InputLog, Tables!MIN_HASH_LOG
  <2>2. ASSUME NEW k \in 6..30 PROVE n <= 2^k
    <3>1. 6 \in Nat /\ k \in Nat /\ 6 <= k
      OBVIOUS
    <3>2. 2^6 \in Nat /\ 2^k \in Nat /\ 2^6 <= 2^k
      BY <3>1, PowersGrow, Zenon
    <3> QED
      BY <1>1, <3>2
  <2> QED
    BY <2>1, <2>2
<1>2. CASE ~(n < 2^6)
  <2>1. 2^5 \in Nat /\ 2^6 \in Nat /\ 2^5 < 2^6 /\ 2^30 \in Nat
    BY PowersGrow
  <2>2. n \in Nat /\ n - 1 \in Nat /\ 2^5 <= n - 1 /\ n - 1 < 2^30
    BY <1>2, <2>1
  <2> DEFINE D == {b \in Nat : n - 1 < 2^b}
  <2>3. D \subseteq Nat /\ D # {}
    BY <2>2
  <2>4. PICK b \in D : \A e \in D : b <= e
    BY <2>3, LeastNatural
  <2>5. b \in Nat /\ n - 1 < 2^b /\ b <= 30
    BY <2>2, <2>4
  <2>6. b > 5
    <3> SUFFICES ASSUME ~(b > 5) PROVE FALSE
      OBVIOUS
    <3>1. 5 \in Nat /\ b \in Nat /\ b <= 5
      BY <2>5
    <3>2. 2^b \in Nat /\ 2^b <= 2^5
      BY <3>1, PowersGrow, Zenon
    <3> QED
      BY <2>1, <2>2, <2>5, <3>2
  <2>7. b - 1 \in Nat /\ 2^(b - 1) <= n - 1
    <3>1. b - 1 \in Nat /\ b - 1 \notin D /\ 2^(b - 1) \in Nat
      BY <2>4, <2>5, <2>6, PowersGrow
    <3> QED
      BY <2>2, <3>1
  <2>8. b \in 6..30
    BY <2>5, <2>6
  <2>9. PICK c \in 6..30 : 2^(c - 1) <= n - 1 /\ n - 1 < 2^c /\ c = Tables!InputLog(n)
    BY <1>2, <2>5, <2>7, <2>8 DEF Tables!InputLog, Tables!MIN_HASH_LOG
  <2>10. ASSUME NEW k \in 6..30, n <= 2^k PROVE c <= k
    <3> SUFFICES ASSUME ~(c <= k) PROVE FALSE
      OBVIOUS
    <3>1. c - 1 \in Nat /\ k \in Nat /\ k <= c - 1
      OBVIOUS
    <3>2. 2^k \in Nat /\ 2^(c - 1) \in Nat /\ 2^k <= 2^(c - 1)
      BY <3>1, PowersGrow
    <3> QED
      BY <2>2, <2>9, <2>10, <3>2
  <2>11. ASSUME NEW k \in 6..30, c <= k PROVE n <= 2^k
    <3>1. 2^k \in Nat /\ 2^c \in Nat /\ 2^c <= 2^k
      BY <2>11, PowersGrow
    <3> QED
      BY <2>2, <2>9, <3>1
  <2> QED
    BY <2>9, <2>10, <2>11
<1> QED
  BY <1>1, <1>2

\* The parameters of level 22 for an input are those of its window, as small as
\* the input.
UltraParameters(w) ==
  Tables!Parameters("Ultra2", Tables!Most(w, 10), Tables!Least(27, w + 1),
                    IF w = 17 THEN 17 ELSE Tables!Least(25, w + 1))

\* Each input is given those of one window.
LEMMA UltraShrinks ==
  ASSUME NEW n \in Nat
  PROVE  \E w \in 6..27 : Tables!ParametersForInput(22, n) = UltraParameters(w)
<1>1. PICK p : p = Tables!ParametersBySize(22, n)
  OBVIOUS
<1>2. Tables!ParametersForInput(22, n) = Tables!Shrunk(p, n)
  BY <1>1 DEF Tables!ParametersForInput
<1>3. /\ 2^14 \in Nat /\ 2^17 \in Nat /\ 2^18 \in Nat /\ 2^30 \in Nat
      /\ 2^14 <= 2^17 /\ 2^17 <= 2^18 /\ 2^18 <= 2^30
  BY PowersGrow
<1>4. PICK w : w = IF n <= 2^30 THEN Tables!Least(p.windowLog, Tables!InputLog(n)) ELSE p.windowLog
  OBVIOUS
<1>5. Tables!Shrunk(p, n)
        = Tables!Parameters(p.strategy, Tables!Most(w, 10),
            p.chainLog - Tables!Most(p.chainLog - (IF p.strategy = "Ultra2" THEN 1 ELSE 0) - w, 0),
            Tables!Least(p.hashLog, w + 1))
  BY <1>4 DEF Tables!Shrunk, Tables!MAX_RESIZED_INPUT_LENGTH, Tables!MIN_WINDOW_LOG
<1>6. CASE n <= 2^14
  <2>1. p = Tables!Parameters("Ultra2", 14, 15, 15)
    BY <1>1, <1>3, <1>6 DEF Tables!ParametersBySize, Tables!SMALL_INPUT_LENGTH,
         Tables!MEDIUM_INPUT_LENGTH, Tables!LARGE_INPUT_LENGTH
  <2>2. n <= 2^30 /\ Tables!InputLog(n) \in 6..30 /\ Tables!InputLog(n) <= 14
    BY <1>3, <1>6, InputLogIs
  <2> QED
    BY <1>2, <1>4, <1>5, <2>1, <2>2
      DEF UltraParameters, Tables!Parameters, Tables!Least, Tables!Most
<1>7. CASE ~(n <= 2^14) /\ n <= 2^17
  <2>1. p = Tables!Parameters("Ultra2", 17, 18, 17)
    BY <1>1, <1>3, <1>7 DEF Tables!ParametersBySize, Tables!SMALL_INPUT_LENGTH,
         Tables!MEDIUM_INPUT_LENGTH, Tables!LARGE_INPUT_LENGTH
  <2>2. n <= 2^30 /\ Tables!InputLog(n) \in 6..30 /\ Tables!InputLog(n) <= 17
    BY <1>3, <1>7, InputLogIs
  <2> QED
    BY <1>2, <1>4, <1>5, <2>1, <2>2
      DEF UltraParameters, Tables!Parameters, Tables!Least, Tables!Most
<1>8. CASE ~(n <= 2^17) /\ n <= 2^18
  <2>1. p = Tables!Parameters("Ultra2", 18, 19, 19)
    BY <1>1, <1>3, <1>8 DEF Tables!ParametersBySize, Tables!SMALL_INPUT_LENGTH,
         Tables!MEDIUM_INPUT_LENGTH, Tables!LARGE_INPUT_LENGTH
  <2>2. n <= 2^30 /\ Tables!InputLog(n) \in 6..30 /\ ~(Tables!InputLog(n) <= 17)
    BY <1>3, <1>8, InputLogIs
  <2> QED
    BY <1>2, <1>4, <1>5, <2>1, <2>2
      DEF UltraParameters, Tables!Parameters, Tables!Least, Tables!Most
<1>9. CASE ~(n <= 2^18)
  <2>1. p = Tables!Parameters("Ultra2", 27, 27, 25)
    BY <1>1, <1>3, <1>9 DEF Tables!ParametersBySize, Tables!SMALL_INPUT_LENGTH,
         Tables!MEDIUM_INPUT_LENGTH, Tables!LARGE_INPUT_LENGTH, Tables!LevelParameters,
         Tables!SUPPORTED_LEVELS
  <2>2. n <= 2^30 => Tables!InputLog(n) \in 6..30 /\ ~(Tables!InputLog(n) <= 18)
    BY <1>3, <1>9, InputLogIs
  <2> QED
    BY <1>2, <1>4, <1>5, <2>1, <2>2
      DEF UltraParameters, Tables!Parameters, Tables!Least, Tables!Most
<1> QED
  BY <1>6, <1>7, <1>8, <1>9, <1>3

\* How long the three tables of level 22 are.
HashLog(w) == IF w = 17 THEN 17 ELSE Tables!Least(25, w + 1)
ChainLog(w) == Tables!Least(27, w + 1)
OptimalLog(w) == Tables!Least(Tables!Most(w, 10), 17)

\* They are within what BinaryTreeMatcher::reset asks for.
LEMMA UltraLogs ==
  ASSUME NEW w \in 6..27
  PROVE  /\ HashLog(w) \in 6..30 /\ ChainLog(w) \in 2..30 /\ OptimalLog(w) \in 0..17
         /\ UltraParameters(w).hashLog = HashLog(w)
         /\ UltraParameters(w).chainLog = ChainLog(w)
         /\ UltraParameters(w).windowLog = Tables!Most(w, 10)
         /\ UltraParameters(w).strategy = "Ultra2"
<1>1. HashLog(w) \in 6..30 /\ ChainLog(w) \in 2..30 /\ OptimalLog(w) \in 0..17
  BY DEF HashLog, ChainLog, OptimalLog, Tables!Least, Tables!Most
<1> QED
  BY <1>1 DEF UltraParameters, Tables!Parameters, HashLog, ChainLog

\* The lengths of the tables, and their sum.
LEMMA UltraLengths ==
  ASSUME NEW w \in 6..27
  PROVE  /\ Tables!TableLengths(UltraParameters(w))
              = [hash |-> 2^HashLog(w), chain |-> 2^ChainLog(w),
                 optimal |-> 2^OptimalLog(w) + Tables!OptimalBufferWords]
         /\ Tables!TableMemoryLength(UltraParameters(w))
              = 2^HashLog(w) + 2^ChainLog(w) + (2^OptimalLog(w) + Tables!OptimalBufferWords)
<1>1. PICK p : p = UltraParameters(w)
  OBVIOUS
<1>2. p.hashLog = HashLog(w) /\ p.chainLog = ChainLog(w) /\ p.strategy = "Ultra2"
      /\ Tables!Least(p.windowLog, 17) = OptimalLog(w)
  BY <1>1, UltraLogs, Zenon DEF OptimalLog
<1>3. Tables!TableLengths(p) = [hash |-> 2^HashLog(w), chain |-> 2^ChainLog(w),
                                optimal |-> 2^OptimalLog(w) + Tables!OptimalBufferWords]
  BY <1>2, Zenon DEF Tables!TableLengths, Tables!MAX_HASH3_LOG
<1>4. PICK l : l = Tables!TableLengths(p)
  OBVIOUS
<1>5. Tables!TableMemoryLength(p) = l.hash + l.chain + l.optimal
  BY <1>2, <1>4 DEF Tables!TableMemoryLength
<1>6. l.hash = 2^HashLog(w) /\ l.chain = 2^ChainLog(w)
      /\ l.optimal = 2^OptimalLog(w) + Tables!OptimalBufferWords
  BY <1>3, <1>4
<1> QED
  BY <1>1, <1>3, <1>5, <1>6, Zenon

\* The sum is a number.
LEMMA UltraMemory ==
  ASSUME NEW w \in 6..27
  PROVE  Tables!TableMemoryLength(UltraParameters(w)) \in Nat
<1>1. HashLog(w) \in 6..30 /\ ChainLog(w) \in 2..30 /\ OptimalLog(w) \in 0..17
  BY UltraLogs
<1>2. HashLog(w) \in Nat /\ ChainLog(w) \in Nat /\ OptimalLog(w) \in Nat
  BY <1>1
<1>3. 2^HashLog(w) \in Nat /\ 2^ChainLog(w) \in Nat /\ 2^OptimalLog(w) \in Nat
  BY <1>2, PowersGrow, Zenon
<1>4. 12 \in Nat /\ 2^12 \in Nat
  BY PowersGrow
<1>5. Tables!OptimalBufferWords \in Nat
  BY <1>4 DEF Tables!OptimalBufferWords
<1> QED
  BY <1>3, <1>5, UltraLengths

\* A larger window has no smaller table.
LEMMA UltraGrows ==
  ASSUME NEW v \in 6..27, NEW w \in 6..27, v <= w
  PROVE  /\ 2^HashLog(v) <= 2^HashLog(w)
         /\ 2^ChainLog(v) <= 2^ChainLog(w)
         /\ 2^OptimalLog(v) <= 2^OptimalLog(w)
<1>1. HashLog(v) <= HashLog(w) /\ ChainLog(v) <= ChainLog(w) /\ OptimalLog(v) <= OptimalLog(w)
  BY DEF HashLog, ChainLog, OptimalLog, Tables!Least, Tables!Most
<1>2. /\ HashLog(v) \in 6..30 /\ ChainLog(v) \in 2..30 /\ OptimalLog(v) \in 0..17
      /\ HashLog(w) \in 6..30 /\ ChainLog(w) \in 2..30 /\ OptimalLog(w) \in 0..17
  BY UltraLogs
<1>3. /\ HashLog(v) \in Nat /\ ChainLog(v) \in Nat /\ OptimalLog(v) \in Nat
      /\ HashLog(w) \in Nat /\ ChainLog(w) \in Nat /\ OptimalLog(w) \in Nat
  BY <1>2
<1> QED
  BY <1>1, <1>3, PowersGrow, Zenon

\* Of level 22, tables whose sum is enough are each long enough.
LEMMA UltraSumsDecide ==
  ASSUME NEW v \in 6..27, NEW w \in 6..27,
         Tables!TableMemoryLength(UltraParameters(w)) >= Tables!TableMemoryLength(UltraParameters(v))
  PROVE  /\ Tables!TableLengths(UltraParameters(w)).hash >= Tables!TableLengths(UltraParameters(v)).hash
         /\ Tables!TableLengths(UltraParameters(w)).chain >= Tables!TableLengths(UltraParameters(v)).chain
         /\ Tables!TableLengths(UltraParameters(w)).optimal
              >= Tables!TableLengths(UltraParameters(v)).optimal
<1>1. PICK hv, cv, ov, hw, cw, ow :
        /\ hv = 2^HashLog(v) /\ cv = 2^ChainLog(v) /\ ov = 2^OptimalLog(v)
        /\ hw = 2^HashLog(w) /\ cw = 2^ChainLog(w) /\ ow = 2^OptimalLog(w)
  OBVIOUS
<1>2. PICK words : words = Tables!OptimalBufferWords
  OBVIOUS
<1>3. 12 \in Nat /\ 2^12 \in Nat
  BY PowersGrow
<1>4. words \in Nat
  BY <1>2, <1>3 DEF Tables!OptimalBufferWords
<1>5. /\ HashLog(v) \in Nat /\ ChainLog(v) \in Nat /\ OptimalLog(v) \in Nat
      /\ HashLog(w) \in Nat /\ ChainLog(w) \in Nat /\ OptimalLog(w) \in Nat
  <2>1. /\ HashLog(v) \in 6..30 /\ ChainLog(v) \in 2..30 /\ OptimalLog(v) \in 0..17
        /\ HashLog(w) \in 6..30 /\ ChainLog(w) \in 2..30 /\ OptimalLog(w) \in 0..17
    BY UltraLogs
  <2> QED
    BY <2>1
<1>6. hv \in Nat /\ cv \in Nat /\ ov \in Nat /\ hw \in Nat /\ cw \in Nat /\ ow \in Nat
  BY <1>1, <1>5, PowersGrow, Zenon
<1>7. /\ Tables!TableMemoryLength(UltraParameters(w)) = hw + cw + (ow + words)
      /\ Tables!TableMemoryLength(UltraParameters(v)) = hv + cv + (ov + words)
      /\ Tables!TableLengths(UltraParameters(w)) = [hash |-> hw, chain |-> cw, optimal |-> ow + words]
      /\ Tables!TableLengths(UltraParameters(v)) = [hash |-> hv, chain |-> cv, optimal |-> ov + words]
  BY <1>1, <1>2, UltraLengths, Zenon
<1>8. hw >= hv /\ cw >= cv /\ ow + words >= ov + words
  <2>1. CASE v <= w
    <3>1. hv <= hw /\ cv <= cw /\ ov <= ow
      BY <1>1, <2>1, UltraGrows, Zenon
    <3> QED
      BY <1>4, <1>6, <3>1
  <2>2. CASE w <= v
    <3>1. hw <= hv /\ cw <= cv /\ ow <= ov
      BY <1>1, <2>2, UltraGrows, Zenon
    <3>2. hw + cw + (ow + words) >= hv + cv + (ov + words)
      BY <1>7
    <3> QED
      BY <1>4, <1>6, <3>1, <3>2
  <2> QED
    BY <2>1, <2>2
<1> QED
  BY <1>7, <1>8

-----------------------------------------------------------------------------
(***************************************************************************)
(* Numbers in little-endian bytes.                                         *)
(***************************************************************************)

\* The recursive Rests has a solution: one for fewer bytes is extended.
LEMMA RestsAre ==
  ASSUME NEW number, NEW count \in Nat
  PROVE  Tables!Rests(number, count)
           = [i \in 1..count |-> IF i = 1 THEN number ELSE Tables!Rests(number, count)[i - 1] \div 256]
<1> DEFINE Solves(f, n) == f = [i \in 1..n |-> IF i = 1 THEN number ELSE f[i - 1] \div 256]
           D == {n \in Nat : ~ \E f : Solves(f, n)}
<1>1. D = {}
  <2> SUFFICES ASSUME D # {} PROVE FALSE
    OBVIOUS
  <2>1. PICK d \in D : \A e \in D : d <= e
    <3> HIDE DEF D
    <3>1. D \subseteq Nat
      BY DEF D
    <3> QED
      BY <3>1, LeastNatural
  <2>2. d \in Nat /\ ~ \E f : Solves(f, d)
    OBVIOUS
  <2>3. d # 0
    <3>1. \E f : f = [i \in 1..0 |-> 0]
      OBVIOUS
    <3>2. PICK f : f = [i \in 1..0 |-> 0]
      BY <3>1
    <3>3. Solves(f, 0)
      BY <3>2
    <3> HIDE DEF Solves
    <3> QED
      BY <2>2, <3>3
  <2>4. d - 1 \in Nat /\ ~(d <= d - 1)
    BY <2>2, <2>3
  <2>5. PICK f : Solves(f, d - 1)
    <3> HIDE DEF Solves
    <3> QED
      BY <2>1, <2>4
  <2>6. PICK g : g = [i \in 1..d |-> IF i = 1 THEN number ELSE f[i - 1] \div 256]
    OBVIOUS
  <2>7. ASSUME NEW i \in 1..d - 1 PROVE g[i] = f[i]
    <3>1. i \in 1..d
      BY <2>2
    <3>2. g[i] = IF i = 1 THEN number ELSE f[i - 1] \div 256
      BY <2>6, <3>1
    <3>3. f[i] = IF i = 1 THEN number ELSE f[i - 1] \div 256
      BY <2>5
    <3> QED
      BY <3>2, <3>3
  <2>8. ASSUME NEW i \in 1..d
        PROVE  (IF i = 1 THEN number ELSE f[i - 1] \div 256) = (IF i = 1 THEN number ELSE g[i - 1] \div 256)
    <3>1. CASE i = 1
      BY <3>1
    <3>2. CASE i # 1
      <4>1. i - 1 \in 1..d - 1
        BY <2>2, <3>2
      <4>2. g[i - 1] = f[i - 1]
        BY <2>7, <4>1
      <4> QED
        BY <4>2
    <3> QED
      BY <3>1, <3>2
  <2>9. [i \in 1..d |-> IF i = 1 THEN number ELSE f[i - 1] \div 256]
          = [i \in 1..d |-> IF i = 1 THEN number ELSE g[i - 1] \div 256]
    BY <2>8, SMTT(60)
  <2>10. Solves(g, d)
    BY <2>6, <2>9, Zenon
  <2> HIDE DEF Solves
  <2> QED
    BY <2>2, <2>10
<1> HIDE DEF Solves
<1>2. PICK f : Solves(f, count)
  BY <1>1
<1>3. PICK rest : rest = CHOOSE r : Solves(r, count)
  OBVIOUS
<1>4. Solves(rest, count)
  BY <1>2, <1>3, Zenon
<1>5. rest = [i \in 1..count |-> IF i = 1 THEN number ELSE rest[i - 1] \div 256]
  BY <1>4 DEF Solves
<1>6. Tables!Rests(number, count) = rest
  BY <1>3, Zenon DEF Tables!Rests, Solves
<1> HIDE DEF D
<1> QED
  BY <1>5, <1>6, Zenon

\* The recursion of FromLittleEndian has a solution, in the same way.
LEMMA ReadsAre ==
  ASSUME NEW bytes, Len(bytes) \in Nat
  PROVE  \E value : /\ value = [n \in 0..Len(bytes) |->
                                  IF n = 0 THEN 0 ELSE value[n - 1] * 256 + bytes[Len(bytes) + 1 - n]]
                    /\ Tables!FromLittleEndian(bytes) = value[Len(bytes)]
<1> DEFINE At(n) == bytes[Len(bytes) + 1 - n]
           Solves(f, m) == f = [n \in 0..m |-> IF n = 0 THEN 0 ELSE f[n - 1] * 256 + At(n)]
           D == {m \in Nat : ~ \E f : Solves(f, m)}
<1>1. D = {}
  <2> SUFFICES ASSUME D # {} PROVE FALSE
    OBVIOUS
  <2> HIDE DEF At
  <2>1. PICK d \in D : \A e \in D : d <= e
    <3> HIDE DEF D
    <3>1. D \subseteq Nat
      BY DEF D
    <3> QED
      BY <3>1, LeastNatural
  <2>2. d \in Nat /\ ~ \E f : Solves(f, d)
    OBVIOUS
  <2>3. d # 0
    <3>2. PICK f : f = [n \in 0..0 |-> 0]
      OBVIOUS
    <3>3. Solves(f, 0)
      BY <3>2
    <3> HIDE DEF Solves
    <3> QED
      BY <2>2, <3>3
  <2>4. d - 1 \in Nat /\ ~(d <= d - 1)
    BY <2>2, <2>3
  <2>5. PICK f : Solves(f, d - 1)
    <3> HIDE DEF Solves
    <3> QED
      BY <2>1, <2>4
  <2>6. PICK g : g = [n \in 0..d |-> IF n = 0 THEN 0 ELSE f[n - 1] * 256 + At(n)]
    OBVIOUS
  <2>7. ASSUME NEW n \in 0..d - 1 PROVE g[n] = f[n]
    <3>1. n \in 0..d
      BY <2>2
    <3>2. g[n] = IF n = 0 THEN 0 ELSE f[n - 1] * 256 + At(n)
      BY <2>6, <3>1
    <3>3. f[n] = IF n = 0 THEN 0 ELSE f[n - 1] * 256 + At(n)
      BY <2>5
    <3> QED
      BY <3>2, <3>3
  <2>8. ASSUME NEW n \in 0..d
        PROVE  (IF n = 0 THEN 0 ELSE f[n - 1] * 256 + At(n)) = (IF n = 0 THEN 0 ELSE g[n - 1] * 256 + At(n))
    <3>1. CASE n = 0
      BY <3>1
    <3>2. CASE n # 0
      <4>1. n - 1 \in 0..d - 1
        BY <2>2, <3>2
      <4>2. g[n - 1] = f[n - 1]
        BY <2>7, <4>1
      <4> QED
        BY <4>2
    <3> QED
      BY <3>1, <3>2
  <2>9. [n \in 0..d |-> IF n = 0 THEN 0 ELSE f[n - 1] * 256 + At(n)]
          = [n \in 0..d |-> IF n = 0 THEN 0 ELSE g[n - 1] * 256 + At(n)]
    BY <2>8, SMTT(60)
  <2>10. Solves(g, d)
    BY <2>6, <2>9, Zenon
  <2> HIDE DEF Solves
  <2> QED
    BY <2>2, <2>10
<1> HIDE DEF Solves
<1>2. PICK f : Solves(f, Len(bytes))
  BY <1>1
<1>3. f = [n \in 0..Len(bytes) |-> IF n = 0 THEN 0 ELSE f[n - 1] * 256 + bytes[Len(bytes) + 1 - n]]
  BY <1>2 DEF Solves
<1> HIDE DEF D, At
<1> QED
  BY <1>3 DEF Tables!FromLittleEndian

\* Each rest is a number, the quotient of the one before.
LEMMA RestsAreNaturals ==
  ASSUME NEW number \in Nat, NEW count \in Nat
  PROVE  \A i \in 1..count :
           /\ Tables!Rests(number, count)[i] \in Nat
           /\ Tables!Rests(number, count)[i] = IF i = 1 THEN number ELSE Tables!Rests(number, count)[i - 1] \div 256
<1>1. PICK r : r = Tables!Rests(number, count)
  OBVIOUS
<1>2. \A i \in 1..count : r[i] = IF i = 1 THEN number ELSE r[i - 1] \div 256
  BY <1>1, RestsAre
<1> DEFINE D == {i \in 1..count : ~(r[i] \in Nat)}
<1>3. D = {}
  <2> SUFFICES ASSUME D # {} PROVE FALSE
    OBVIOUS
  <2>1. PICK d \in D : \A e \in D : d <= e
    <3>1. D \subseteq Nat
      OBVIOUS
    <3> HIDE DEF D
    <3> QED
      BY <3>1, LeastNatural
  <2>2. d # 1 /\ d - 1 \in 1..count /\ d - 1 \notin D
    BY <1>2, <2>1
  <2>3. r[d - 1] \in Nat /\ r[d] = r[d - 1] \div 256
    BY <1>2, <2>2
  <2>4. r[d] \in Nat
    BY <2>3
  <2> QED
    BY <2>1, <2>4
<1> QED
  BY <1>1, <1>2, <1>3

\* What a number's bytes say is the number, if it fits in them.
LEMMA NumbersSurvive ==
  ASSUME NEW number \in Nat, NEW count \in Nat \ {0}, Tables!Fits(number, count)
  PROVE  Tables!FromLittleEndian(Tables!LittleEndian(number, count)) = number
<1>1. PICK r : r = Tables!Rests(number, count)
  OBVIOUS
<1>2. \A i \in 1..count : r[i] \in Nat /\ r[i] = IF i = 1 THEN number ELSE r[i - 1] \div 256
  BY <1>1, RestsAreNaturals
<1>3. r[count] < 256
  BY <1>1 DEF Tables!Fits
<1>4. PICK bytes : bytes = Tables!LittleEndian(number, count)
  OBVIOUS
<1>5. bytes = [i \in 1..count |-> r[i] % 256]
  BY <1>1, <1>4, Zenon DEF Tables!LittleEndian
<1>6. Len(bytes) = count
  <2>1. bytes \in Seq(Int)
    BY <1>2, <1>5
  <2> QED
    BY <1>5, <2>1
<1>7. PICK value :
        /\ value = [n \in 0..Len(bytes) |->
                      IF n = 0 THEN 0 ELSE value[n - 1] * 256 + bytes[Len(bytes) + 1 - n]]
        /\ Tables!FromLittleEndian(bytes) = value[Len(bytes)]
  BY <1>6, ReadsAre
<1>8. \A n \in 0..count : value[n] = IF n = 0 THEN 0 ELSE value[n - 1] * 256 + bytes[count + 1 - n]
  BY <1>6, <1>7
<1> DEFINE D == {n \in 1..count : value[n] # r[count + 1 - n]}
<1>9. D = {}
  <2> SUFFICES ASSUME D # {} PROVE FALSE
    OBVIOUS
  <2>1. PICK d \in D : \A e \in D : d <= e
    <3>1. D \subseteq Nat
      OBVIOUS
    <3> HIDE DEF D
    <3> QED
      BY <3>1, LeastNatural
  <2>2. d \in 1..count /\ count + 1 - d \in 1..count /\ value[d] # r[count + 1 - d]
    BY <2>1
  <2>3. PICK x : x = r[count + 1 - d]
    OBVIOUS
  <2>4. x \in Nat /\ bytes[count + 1 - d] = x % 256
    BY <1>2, <1>5, <2>2, <2>3
  <2>5. value[d] = value[d - 1] * 256 + (x % 256)
    BY <1>8, <2>2, <2>4
  <2>6. value[d - 1] = x \div 256
    <3>1. CASE d = 1
      <4>1. value[d - 1] = 0
        BY <1>8, <3>1
      <4>2. x < 256
        BY <1>3, <2>3, <3>1
      <4> QED
        BY <2>4, <4>1, <4>2
    <3>2. CASE d # 1
      <4>1. d - 1 \in 1..count /\ d - 1 \notin D
        BY <2>1, <2>2, <3>2
      <4>2. value[d - 1] = r[count + 1 - (d - 1)]
        BY <4>1
      <4>3. count + 1 - (d - 1) = count + 2 - d /\ count + 2 - d \in 1..count /\ count + 2 - d # 1
        BY <2>2, <3>2
      <4>4. r[count + 2 - d] = r[count + 2 - d - 1] \div 256
        BY <1>2, <4>3
      <4>5. count + 2 - d - 1 = count + 1 - d
        BY <2>2
      <4> QED
        BY <2>3, <4>2, <4>3, <4>4, <4>5
    <3> QED
      BY <3>1, <3>2
  <2>7. (x \div 256) * 256 + (x % 256) = x
    BY <2>4
  <2> QED
    BY <2>2, <2>3, <2>5, <2>6, <2>7
<1>10. value[count] = r[1]
  <2>1. count \in 1..count /\ count + 1 - count = 1
    OBVIOUS
  <2> QED
    BY <1>9, <2>1
<1> QED
  BY <1>2, <1>4, <1>6, <1>7, <1>10

\* A smaller number fits where a larger one does.
LEMMA SmallerFits ==
  ASSUME NEW number \in Nat, NEW other \in Nat, other <= number, NEW count \in Nat \ {0},
         Tables!Fits(number, count)
  PROVE  Tables!Fits(other, count)
<1>1. PICK r, o : r = Tables!Rests(number, count) /\ o = Tables!Rests(other, count)
  OBVIOUS
<1>2. \A i \in 1..count : /\ r[i] \in Nat /\ r[i] = IF i = 1 THEN number ELSE r[i - 1] \div 256
                          /\ o[i] \in Nat /\ o[i] = IF i = 1 THEN other ELSE o[i - 1] \div 256
  BY <1>1, RestsAreNaturals
<1> DEFINE D == {i \in 1..count : ~(o[i] <= r[i])}
<1>3. D = {}
  <2> SUFFICES ASSUME D # {} PROVE FALSE
    OBVIOUS
  <2>1. PICK d \in D : \A e \in D : d <= e
    <3>1. D \subseteq Nat
      OBVIOUS
    <3> HIDE DEF D
    <3> QED
      BY <3>1, LeastNatural
  <2>2. d # 1 /\ d - 1 \in 1..count /\ d - 1 \notin D
    BY <1>2, <2>1
  <2>3. PICK a, b : a = o[d - 1] /\ b = r[d - 1]
    OBVIOUS
  <2>4. a \in Nat /\ b \in Nat /\ a <= b /\ o[d] = a \div 256 /\ r[d] = b \div 256
    BY <1>2, <2>2, <2>3
  <2>5. a \div 256 <= b \div 256
    BY <2>4
  <2> QED
    BY <2>1, <2>4, <2>5
<1>4. count \in 1..count
  OBVIOUS
<1> QED
  BY <1>1, <1>2, <1>3, <1>4 DEF Tables!Fits

\* A number is written in as many bytes as there are.
LEMMA BytesAre ==
  ASSUME NEW number \in Nat, NEW count \in Nat
  PROVE  /\ Tables!LittleEndian(number, count) \in Seq(Int)
         /\ Len(Tables!LittleEndian(number, count)) = count
<1>1. PICK r : r = Tables!Rests(number, count)
  OBVIOUS
<1>2. \A i \in 1..count : r[i] \in Nat
  BY <1>1, RestsAreNaturals
<1>3. Tables!LittleEndian(number, count) = [i \in 1..count |-> r[i] % 256]
  BY <1>1, Zenon DEF Tables!LittleEndian
<1>4. \A i \in 1..count : r[i] % 256 \in Int
  BY <1>2
<1> QED
  BY <1>3, <1>4

\* No bytes say zero.
LEMMA NothingIsZero == Tables!FromLittleEndian(<<>>) = 0
<1>1. Len(<<>>) = 0
  OBVIOUS
<1>2. PICK value :
        /\ value = [n \in 0..Len(<<>>) |->
                      IF n = 0 THEN 0 ELSE value[n - 1] * 256 + <<>>[Len(<<>>) + 1 - n]]
        /\ Tables!FromLittleEndian(<<>>) = value[Len(<<>>)]
  BY <1>1, ReadsAre
<1>3. 0 \in 0..Len(<<>>)
  BY <1>1
<1> QED
  BY <1>1, <1>2, <1>3

\* Two bytes and a field behind them.
LEMMA FieldIsFound ==
  ASSUME NEW a \in Int, NEW b \in Int, NEW field \in Seq(Int)
  PROVE  \A bytes : bytes = <<a, b>> \o field =>
           /\ Head(bytes) = a /\ bytes[2] = b
           /\ Len(bytes) = 2 + Len(field)
           /\ SubSeq(bytes, 3, 2 + Len(field)) = field
           /\ SubSeq(bytes, 3, 2) = <<>>
<1>1. PICK bytes : bytes = <<a, b>> \o field
  OBVIOUS
<1>2. <<a, b>> \in Seq(Int) /\ Len(<<a, b>>) = 2 /\ Len(field) \in Nat
  OBVIOUS
<1>3. /\ bytes \in Seq(Int) /\ Len(bytes) = 2 + Len(field)
      /\ \A i \in 1..2 + Len(field) : bytes[i] = IF i <= 2 THEN <<a, b>>[i] ELSE field[i - 2]
  BY <1>1, <1>2, ConcatProperties
<1>4. bytes[1] = a /\ bytes[2] = b
  BY <1>2, <1>3
<1>5. Head(bytes) = a
  BY <1>2, <1>3, <1>4
<1>6. SubSeq(bytes, 3, 2) = <<>>
  BY SubSeqEmpty
<1>7. SubSeq(bytes, 3, 2 + Len(field)) = field
  <2>1. PICK k \in Nat : k = Len(field)
    BY <1>2
  <2>2. \A i \in 3..2 + k : bytes[i] \in Int
    BY <1>3, <2>1
  <2>3. /\ SubSeq(bytes, 3, 2 + k) \in Seq(Int)
        /\ Len(SubSeq(bytes, 3, 2 + k)) = IF 3 <= 2 + k THEN 2 + k - 3 + 1 ELSE 0
        /\ \A i \in 1..2 + k - 3 + 1 : SubSeq(bytes, 3, 2 + k)[i] = bytes[3 + i - 1]
    BY <2>2, SubSeqProperties
  <2>4. PICK part2 : part2 = SubSeq(bytes, 3, 2 + k)
    OBVIOUS
  <2>5. Len(part2) = k
    BY <2>3, <2>4
  <2>6. \A i \in 1..k : part2[i] = field[i]
    <3> SUFFICES ASSUME NEW i \in 1..k PROVE part2[i] = field[i]
      OBVIOUS
    <3>1. i \in 1..2 + k - 3 + 1 /\ 3 + i - 1 = i + 2 /\ i + 2 \in 1..2 + k /\ ~(i + 2 <= 2) /\ i + 2 - 2 = i
      OBVIOUS
    <3>2. part2[i] = bytes[i + 2]
      BY <2>3, <2>4, <3>1
    <3>3. bytes[i + 2] = field[i]
      BY <1>3, <2>1, <3>1
    <3> QED
      BY <3>2, <3>3
  <2>7. part2 = field
    BY <2>1, <2>3, <2>4, <2>5, <2>6, SeqEqual
  <2> QED
    BY <2>1, <2>4, <2>7
<1> QED
  BY <1>1, <1>3, <1>4, <1>5, <1>6, <1>7

\* What the encoder writes of a size, the decoder reads.
SizeField(size) == IF size = Tables!NoSize THEN <<>> ELSE Tables!WrittenSize(Tables!ContentSizeFlag(size), size)
FlagOf(size) == IF size = Tables!NoSize THEN 0 ELSE Tables!ContentSizeFlag(size)

\* A size is read as it was written, in each of its four fields.
LEMMA SizesAreRead ==
  ASSUME Tables!EncodeTablesAssumption, NEW size \in Lengths \cup {Tables!NoSize}
  PROVE  /\ FlagOf(size) \in 0..3
         /\ SizeField(size) \in Seq(Int)
         /\ Len(SizeField(size)) = Tables!SizeFieldLength(FlagOf(size), FALSE)
         /\ Len(SizeField(size)) \in 0..8
         /\ Tables!ReadSize(SizeField(size), FlagOf(size)) = size
<1>1. CASE size = Tables!NoSize
  <2>1. SizeField(size) = <<>> /\ FlagOf(size) = 0
    BY <1>1 DEF SizeField, FlagOf
  <2>2. <<>> \in Seq(Int) /\ Len(<<>>) = 0
    OBVIOUS
  <2>3. Tables!SizeFieldLength(0, FALSE) = 0
    BY DEF Tables!SizeFieldLength
  <2>4. Tables!ReadSize(<<>>, 0) = Tables!NoSize
    BY DEF Tables!ReadSize
  <2>5. 0 \in 0..3 /\ 0 \in 0..8
    OBVIOUS
  <2> QED
    BY <1>1, <2>1, <2>2, <2>3, <2>4, <2>5, Zenon
<1>2. CASE size # Tables!NoSize
  <2>1. size \in Nat /\ Tables!Fits(size, 8) /\ FourByteLimit \in Nat /\ Tables!Fits(FourByteLimit, 4)
    BY <1>2 DEF Tables!EncodeTablesAssumption
  <2>2. PICK flag : flag = Tables!ContentSizeFlag(size)
    OBVIOUS
  <2>3. FlagOf(size) = flag /\ SizeField(size) = Tables!WrittenSize(flag, size)
    BY <1>2, <2>2 DEF FlagOf, SizeField
  <2>4. \/ flag = 1 /\ Tables!TakesTwoBytes(size)
        \/ flag = 2 /\ size <= FourByteLimit
        \/ flag = 3
    BY <2>2, Zenon DEF Tables!ContentSizeFlag
  <2>5. ASSUME NEW number \in Nat, NEW count \in {2, 4, 8}, Tables!Fits(number, count),
               SizeField(size) = Tables!LittleEndian(number, count),
               Tables!SizeFieldLength(flag, FALSE) = count, flag \in 1..3,
               size = number + (IF flag = 1 THEN 256 ELSE 0)
        PROVE  /\ FlagOf(size) \in 0..3
               /\ SizeField(size) \in Seq(Int)
               /\ Len(SizeField(size)) = Tables!SizeFieldLength(FlagOf(size), FALSE)
               /\ Len(SizeField(size)) \in 0..8
               /\ Tables!ReadSize(SizeField(size), FlagOf(size)) = size
    <3>1. PICK field : field = SizeField(size)
      OBVIOUS
    <3>2. field \in Seq(Int) /\ Len(field) = count /\ count \in Nat \ {0} /\ count \in 0..8
      BY <2>5, <3>1, BytesAre
    <3>3. Tables!FromLittleEndian(field) = number
      BY <2>5, <3>1, <3>2, NumbersSurvive
    <3>4. field # <<>>
      BY <3>2
    <3>5. Tables!ReadSize(field, flag) = size
      BY <2>5, <3>3, <3>4, Zenon DEF Tables!ReadSize
    <3>6. flag \in 0..3
      BY <2>5
    <3> QED
      BY <2>3, <2>5, <3>1, <3>2, <3>5, <3>6
  <2>6. CASE flag = 1 /\ Tables!TakesTwoBytes(size)
    <3>1. PICK number \in Nat : number = size - 256 /\ number <= 65535
      BY <2>1, <2>6 DEF Tables!TakesTwoBytes
    <3>2. Tables!Fits(number, 2)
      <4>1. PICK r : r = Tables!Rests(number, 2)
        OBVIOUS
      <4>2. r[1] = number /\ r[2] = r[1] \div 256
        BY <4>1, RestsAreNaturals
      <4>3. r[2] < 256
        BY <3>1, <4>2
      <4> QED
        BY <4>1, <4>3 DEF Tables!Fits
    <3>3. SizeField(size) = Tables!LittleEndian(number, 2) /\ Tables!SizeFieldLength(flag, FALSE) = 2
      BY <2>3, <2>6, <3>1 DEF Tables!WrittenSize, Tables!SizeFieldLength
    <3>4. size = number + (IF flag = 1 THEN 256 ELSE 0) /\ 2 \in {2, 4, 8} /\ flag \in 1..3
      BY <2>1, <2>6, <3>1
    <3> QED
      BY <2>5, <3>2, <3>3, <3>4, Zenon
  <2>7. CASE flag = 2 /\ size <= FourByteLimit
    <3>1. Tables!Fits(size, 4)
      BY <2>1, <2>7, SmallerFits
    <3>2. SizeField(size) = Tables!LittleEndian(size, 4) /\ Tables!SizeFieldLength(flag, FALSE) = 4
      BY <2>3, <2>7 DEF Tables!WrittenSize, Tables!SizeFieldLength
    <3>3. size = size + (IF flag = 1 THEN 256 ELSE 0) /\ 4 \in {2, 4, 8} /\ flag \in 1..3
      BY <2>1, <2>7
    <3> QED
      BY <2>1, <2>5, <3>1, <3>2, <3>3, Zenon
  <2>8. CASE flag = 3
    <3>1. SizeField(size) = Tables!LittleEndian(size, 8) /\ Tables!SizeFieldLength(flag, FALSE) = 8
      BY <2>3, <2>8 DEF Tables!WrittenSize, Tables!SizeFieldLength
    <3>2. size = size + (IF flag = 1 THEN 256 ELSE 0) /\ 8 \in {2, 4, 8} /\ flag \in 1..3
      BY <2>1, <2>8
    <3> QED
      BY <2>1, <2>5, <3>1, <3>2, Zenon
  <2> QED
    BY <2>4, <2>6, <2>7, <2>8, Zenon
<1> QED
  BY <1>1, <1>2

\* What the encoder writes of a window, the decoder reads.
LEMMA WindowsAreRead ==
  ASSUME NEW w \in 10..31
  PROVE  /\ (w - 10) * 8 <= Tables!MaxWindowByte
         /\ Tables!WindowSize((w - 10) * 8) = 2^w
<1>1. PICK b \in Nat : b = (w - 10) * 8
  OBVIOUS
<1>2. b \div 8 = w - 10 /\ b % 8 = 0 /\ b <= 168
  BY <1>1
<1>3. 10 + b \div 8 = w /\ 7 + b \div 8 = w - 3
  BY <1>2
<1>4. w \in Nat /\ w - 3 \in Nat
  OBVIOUS
<1>5. 2^w \in Nat /\ 2^(w - 3) \in Nat
  BY <1>4, PowersGrow, Zenon
<1>6. PICK x, y : x = 2^w /\ y = 2^(w - 3)
  OBVIOUS
<1>7. Tables!WindowSize(b) = x + y * 0
  BY <1>2, <1>3, <1>6, Zenon DEF Tables!WindowSize
<1>8. x + y * 0 = x
  BY <1>5, <1>6
<1>9. Tables!MaxWindowByte = 168
  BY DEF Tables!MaxWindowByte
<1> QED
  BY <1>1, <1>2, <1>6, <1>7, <1>8, <1>9

\* A header that the encoder writes is read as what was written.
THEOREM HeadersAreRead ==
  ASSUME Tables!EncodeTablesAssumption, NEW size \in Lengths \cup {Tables!NoSize},
         NEW w \in 10..31, NEW c \in BOOLEAN, NEW bytes, bytes = Tables!FrameHeader(size, w, c)
  PROVE  /\ Tables!ReadFrameHeader(bytes)
              = [status |-> "ok", size |-> size, window |-> 2^w, hasChecksum |-> c,
                 length |-> Tables!HeaderLength(bytes)]
         /\ Tables!HeaderLength(bytes) \in 0..Tables!MAX_FRAME_HEADER_LENGTH
<1>1. PICK flag, field, k : flag = FlagOf(size) /\ field = SizeField(size) /\ k = Len(field)
  OBVIOUS
<1>2. /\ flag \in 0..3 /\ field \in Seq(Int)
      /\ k = Tables!SizeFieldLength(flag, FALSE) /\ k \in 0..8
      /\ Tables!ReadSize(field, flag) = size
  BY <1>1, SizesAreRead, Zenon
<1>3. PICK d \in Nat : d = flag * 64 + (IF c THEN 4 ELSE 0)
  BY <1>2
<1>4. PICK b \in Nat : b = (w - 10) * 8
  OBVIOUS
<1>5. bytes = <<d, b>> \o field
  BY <1>1, <1>3, <1>4, Zenon DEF Tables!FrameHeader, FlagOf, SizeField
<1>6. /\ d \div 64 = flag /\ (d \div 32) % 2 = 0 /\ (d \div 8) % 2 = 0 /\ d % 4 = 0
      /\ (d \div 4) % 2 = IF c THEN 1 ELSE 0
  <2>1. CASE flag = 0
    BY <1>3, <2>1
  <2>2. CASE flag = 1
    BY <1>3, <2>2
  <2>3. CASE flag = 2
    BY <1>3, <2>3
  <2>4. CASE flag = 3
    BY <1>3, <2>4
  <2> QED
    BY <1>2, <2>1, <2>2, <2>3, <2>4
<1>7. /\ Head(bytes) = d /\ bytes[2] = b /\ Len(bytes) = 2 + k
      /\ SubSeq(bytes, 3, 2 + k) = field /\ SubSeq(bytes, 3, 2) = <<>>
  <2>1. d \in Int /\ b \in Int
    OBVIOUS
  <2> QED
    <3>1. /\ Head(bytes) = d /\ bytes[2] = b /\ Len(bytes) = 2 + Len(field)
          /\ SubSeq(bytes, 3, 2 + Len(field)) = field /\ SubSeq(bytes, 3, 2) = <<>>
      BY <1>2, <1>5, <2>1, FieldIsFound
    <3>2. k = Len(field)
      BY <1>1
    <3> QED
      BY <3>1, <3>2, Zenon
<1>8. b <= Tables!MaxWindowByte /\ Tables!WindowSize(b) = 2^w
  BY <1>4, WindowsAreRead, Zenon
<1>9. ((d \div 32) % 2 = 1) = FALSE /\ ((d \div 4) % 2 = 1) = c
  BY <1>6
<1>10. Tables!DictionaryFieldLength(d % 4) = 0
  BY <1>6 DEF Tables!DictionaryFieldLength
<1>11. /\ 2 + 0 + 1 = 3 /\ 2 + 0 = 2 /\ 2 + 1 = 3
       /\ ~(Len(bytes) < 1 \/ Len(bytes) < 2 + k)
       /\ ~((d \div 8) % 2 = 1)
       /\ ~(b > Tables!MaxWindowByte)
  <2>1. 2 + 0 + 1 = 3 /\ 2 + 0 = 2 /\ 2 + 1 = 3
    OBVIOUS
  <2>2. ~(Len(bytes) < 1 \/ Len(bytes) < 2 + k)
    <3>1. k \in 0..8 /\ Len(bytes) = 2 + k
      BY <1>2, <1>7
    <3> QED
      BY <3>1
  <2>3. ~((d \div 8) % 2 = 1)
    <3>1. (d \div 8) % 2 = 0
      BY <1>6
    <3> QED
      BY <3>1
  <2>4. ~(b > Tables!MaxWindowByte)
    <3>1. b <= Tables!MaxWindowByte
      BY <1>8
    <3> QED
      BY <3>1 DEF Tables!MaxWindowByte
  <2> QED
    BY <2>1, <2>2, <2>3, <2>4, Zenon
<1>12. Tables!FromLittleEndian(SubSeq(bytes, 2 + 1, 2 + 0)) = 0
  BY <1>7, <1>11, NothingIsZero, Zenon
<1>13. Tables!SizeFieldLength(d \div 64, (d \div 32) % 2 = 1) = k
  BY <1>2, <1>6, <1>9, Zenon
<1>14. Tables!ReadSize(SubSeq(bytes, 2 + 0 + 1, 2 + 0 + k), d \div 64) = size
  BY <1>2, <1>6, <1>7, <1>11, Zenon
<1>15. Tables!ReadFrameHeader(bytes)
         = [status |-> "ok", size |-> size, window |-> 2^w, hasChecksum |-> c,
            length |-> Tables!MagicLength + (2 + 0 + k)]
  BY <1>7, <1>8, <1>9, <1>10, <1>11, <1>12, <1>13, <1>14, Zenon DEF Tables!ReadFrameHeader
<1>16. Tables!HeaderLength(bytes) = Tables!MagicLength + (2 + 0 + k)
  BY <1>7, <1>11, Zenon DEF Tables!HeaderLength
<1>17. Tables!MagicLength + (2 + 0 + k) \in 0..Tables!MAX_FRAME_HEADER_LENGTH
  <2>1. k \in 0..8
    BY <1>2
  <2> QED
    BY <2>1 DEF Tables!MagicLength, Tables!MAX_FRAME_HEADER_LENGTH
<1> QED
  BY <1>15, <1>16, <1>17, Zenon

-----------------------------------------------------------------------------
(***************************************************************************)
(* What holds of the tables of a workspace after any inputs.  Those of     *)
(* level 22 are always the tables of some window, the largest so far.      *)
(***************************************************************************)
TablesInv ==
  /\ level \in Tables!SUPPORTED_LEVELS
  /\ matcher.usable = TRUE
  /\ level = 22 =>
       \E w \in 6..27 : /\ tables = Tables!TableLengths(UltraParameters(w))
                        /\ memory = Tables!TableMemoryLength(UltraParameters(w))

\* Level 22 asks for the tables of its input.
LEMMA UltraAsks ==
  ASSUME NEW n \in Nat, level = 22
  PROVE  /\ Tables!TableParameters(level, n) = Tables!ParametersForInput(22, n)
         /\ Tables!LevelParameters[level].strategy = "Ultra2"
<1>1. Tables!LevelParameters[22].strategy = "Ultra2"
  BY DEF Tables!LevelParameters, Tables!SUPPORTED_LEVELS, Tables!Parameters
<1>2. "Ultra2" # "Lazy2"
  OBVIOUS
<1> QED
  BY <1>1, <1>2, Zenon DEF Tables!TableParameters

\* The window of the match finder is one that its level allows.
WindowInv ==
  /\ matcher.windowLog \in 10..Tables!LevelParameters[level].windowLog
  /\ Tables!LevelParameters[level].strategy = "Lazy2" =>
       matcher.windowLog = Tables!LevelParameters[level].windowLog

\* No input makes a level's window larger, or smaller than the smallest.
LEMMA WindowsAreBounded ==
  ASSUME level \in Tables!SUPPORTED_LEVELS, NEW n \in Nat
  PROVE  /\ Tables!TableParameters(level, n).windowLog \in 10..Tables!LevelParameters[level].windowLog
         /\ Tables!LevelParameters[level].windowLog \in 10..27
         /\ Tables!LevelParameters[level].strategy = "Lazy2" =>
              Tables!TableParameters(level, n).windowLog = Tables!LevelParameters[level].windowLog
<1>1. CASE level = 1
  <2>1. Tables!LevelParameters[level].windowLog = 19 /\ Tables!LevelParameters[level].strategy = "Fast"
    BY <1>1 DEF Tables!LevelParameters, Tables!SUPPORTED_LEVELS, Tables!Parameters
  <2>2. PICK p : p = Tables!ParametersBySize(1, n)
    OBVIOUS
  <2>3. p.windowLog \in {14, 17, 18, 19}
    <3>1. \/ p = Tables!Parameters("Fast", 14, 14, 15) \/ p = Tables!Parameters("Fast", 17, 12, 13)
          \/ p = Tables!Parameters("Fast", 18, 13, 14) \/ p = Tables!LevelParameters[1]
      BY <2>2 DEF Tables!ParametersBySize
    <3> QED
      BY <1>1, <2>1, <3>1 DEF Tables!Parameters
  <2>4. "Fast" # "Lazy2"
    OBVIOUS
  <2>5. Tables!TableParameters(level, n) = Tables!Shrunk(p, n)
    BY <1>1, <2>1, <2>2, <2>4, Zenon DEF Tables!TableParameters, Tables!ParametersForInput
  <2>6. PICK w : w = IF n <= 2^30 THEN Tables!Least(p.windowLog, Tables!InputLog(n)) ELSE p.windowLog
    OBVIOUS
  <2>7. Tables!Shrunk(p, n).windowLog = Tables!Most(w, 10)
    BY <2>6 DEF Tables!Shrunk, Tables!Parameters, Tables!MAX_RESIZED_INPUT_LENGTH, Tables!MIN_WINDOW_LOG
  <2>8. n <= 2^30 => Tables!InputLog(n) \in 6..30
    BY InputLogIs
  <2>9. w \in 6..19
    BY <2>3, <2>6, <2>8 DEF Tables!Least
  <2>10. Tables!Most(w, 10) \in 10..19
    BY <2>9 DEF Tables!Most
  <2> QED
    BY <2>1, <2>5, <2>7, <2>10
<1>2. CASE level \in {9, 12}
  <2>1. Tables!LevelParameters[level].windowLog = 22 /\ Tables!LevelParameters[level].strategy = "Lazy2"
    BY <1>2 DEF Tables!LevelParameters, Tables!SUPPORTED_LEVELS, Tables!Parameters
  <2>2. Tables!TableParameters(level, n).windowLog = 22
    BY <2>1, Zenon DEF Tables!TableParameters
  <2> QED
    BY <2>1, <2>2
<1>3. CASE level = 22
  <2>1. Tables!LevelParameters[level].windowLog = 27 /\ Tables!LevelParameters[level].strategy = "Ultra2"
    BY <1>3 DEF Tables!LevelParameters, Tables!SUPPORTED_LEVELS, Tables!Parameters
  <2>2. PICK w \in 6..27 : Tables!ParametersForInput(22, n) = UltraParameters(w)
    BY UltraShrinks
  <2>3. Tables!TableParameters(level, n).windowLog = Tables!Most(w, 10)
    BY <1>3, <2>2, UltraAsks, UltraLogs, Zenon
  <2>4. Tables!Most(w, 10) \in 10..27
    BY DEF Tables!Most
  <2> QED
    BY <2>1, <2>3, <2>4
<1> QED
  BY <1>1, <1>2, <1>3 DEF Tables!SUPPORTED_LEVELS

\* Preparing the tables for an input leaves a finder that can use them, with
\* the window that the tables were asked for.
LEMMA PrepareKeepsTables ==
  ASSUME TablesInv, WindowInv, NEW n \in Nat, Tables!Prepare(n), level' = level
  PROVE  /\ TablesInv' /\ WindowInv'
         /\ matcher'.windowLog = Tables!TableParameters(level, n).windowLog
<1> SUFFICES TablesInv' /\ matcher'.windowLog = Tables!TableParameters(level, n).windowLog
  <2>1. level \in Tables!SUPPORTED_LEVELS
    BY DEF TablesInv
  <2> QED
    BY <2>1, WindowsAreBounded, Zenon DEF WindowInv
<1>1. CASE level = 22
  <2>1. PICK w \in 6..27 : /\ tables = Tables!TableLengths(UltraParameters(w))
                           /\ memory = Tables!TableMemoryLength(UltraParameters(w))
    BY <1>1 DEF TablesInv
  <2>2. PICK v \in 6..27 : Tables!ParametersForInput(22, n) = UltraParameters(v)
    BY UltraShrinks
  <2>3. /\ Tables!TableParameters(level, n) = UltraParameters(v)
        /\ Tables!LevelParameters[level].strategy = "Ultra2"
        /\ Tables!ParametersForInput(level, n) = UltraParameters(v)
    BY <1>1, <2>2, UltraAsks, Zenon
  <2>4. PICK lengths : lengths = IF Tables!MustGrow(n) THEN Tables!TableLengths(UltraParameters(v)) ELSE tables
    OBVIOUS
  <2>5. /\ tables' = lengths
        /\ memory' = IF Tables!MustGrow(n) THEN Tables!TableMemoryLength(UltraParameters(v)) ELSE memory
        /\ matcher' = Tables!FinderAfterReset(lengths, n)
    BY <2>3, <2>4, Zenon DEF Tables!Prepare
  <2>6. PICK u \in 6..27 : /\ lengths = Tables!TableLengths(UltraParameters(u))
                           /\ memory' = Tables!TableMemoryLength(UltraParameters(u))
                           /\ \/ u = v
                              \/ Tables!TableMemoryLength(UltraParameters(u))
                                   >= Tables!TableMemoryLength(UltraParameters(v))
    <3>1. CASE Tables!MustGrow(n)
      BY <2>4, <2>5, <3>1
    <3>2. CASE ~Tables!MustGrow(n)
      <4>1. lengths = tables /\ memory' = memory
        BY <2>4, <2>5, <3>2, Zenon
      <4>2. ~(Tables!TableMemoryLength(UltraParameters(w)) < Tables!TableMemoryLength(UltraParameters(v)))
        BY <2>1, <2>3, <3>2, Zenon DEF Tables!MustGrow
      <4>3. Tables!TableMemoryLength(UltraParameters(w)) \in Nat /\ Tables!TableMemoryLength(UltraParameters(v)) \in Nat
        BY UltraMemory
      <4> QED
        BY <2>1, <4>1, <4>2, <4>3
    <3> QED
      BY <3>1, <3>2
  <2>7. Tables!TreesFit(lengths, UltraParameters(v))
    <3>1. /\ UltraParameters(v).chainLog \in 2..30
          /\ UltraParameters(v).hashLog \in 6..30
      BY UltraLogs
    <3>2. Tables!TableMemoryLength(UltraParameters(u)) >= Tables!TableMemoryLength(UltraParameters(v))
      BY <2>6, UltraMemory
    <3>3. /\ lengths.hash >= Tables!TableLengths(UltraParameters(v)).hash
          /\ lengths.chain >= Tables!TableLengths(UltraParameters(v)).chain
          /\ lengths.optimal >= Tables!TableLengths(UltraParameters(v)).optimal
      BY <2>6, <3>2, UltraSumsDecide, Zenon
    <3> QED
      BY <3>1, <3>3, Zenon DEF Tables!TreesFit
  <2>8. matcher' = [usable |-> TRUE, windowLog |-> UltraParameters(v).windowLog]
    BY <2>3, <2>5, <2>7 DEF Tables!FinderAfterReset
  <2>9. TablesInv'
    BY <1>1, <2>5, <2>6, <2>8 DEF TablesInv
  <2> QED
    BY <2>3, <2>8, <2>9
<1>2. CASE level # 22
  <2>1. level' # 22 /\ level' \in Tables!SUPPORTED_LEVELS /\ matcher.usable = TRUE
    BY <1>2 DEF TablesInv
  <2>2. \E lengths : matcher' = Tables!FinderAfterReset(lengths, n)
    BY Zenon DEF Tables!Prepare
  <2>3. /\ matcher'.usable = TRUE
        /\ matcher'.windowLog = Tables!TableParameters(level, n).windowLog
    <3>1. level \in {1, 9, 12}
      BY <1>2, <2>1 DEF TablesInv, Tables!SUPPORTED_LEVELS
    <3>2. Tables!LevelParameters[level].strategy \in {"Fast", "Lazy2"}
      BY <3>1 DEF Tables!LevelParameters, Tables!SUPPORTED_LEVELS, Tables!Parameters
    <3>3. CASE Tables!LevelParameters[level].strategy = "Fast"
      <4>1. Tables!TableParameters(level, n) = Tables!ParametersForInput(level, n)
        BY <3>3 DEF Tables!TableParameters
      <4>2. matcher' = [usable |-> TRUE, windowLog |-> Tables!ParametersForInput(level, n).windowLog]
        BY <2>2, <3>3 DEF Tables!FinderAfterReset
      <4> QED
        BY <4>1, <4>2
    <3>4. CASE Tables!LevelParameters[level].strategy = "Lazy2"
      <4>1. matcher' = matcher
        BY <2>2, <3>4 DEF Tables!FinderAfterReset
      <4>2. matcher.windowLog = Tables!LevelParameters[level].windowLog
        BY <3>4 DEF WindowInv
      <4>3. Tables!TableParameters(level, n) = Tables!LevelParameters[level]
        BY <3>4 DEF Tables!TableParameters
      <4> QED
        BY <2>1, <4>1, <4>2, <4>3, Zenon
    <3> QED
      BY <3>2, <3>3, <3>4
  <2> QED
    BY <2>1, <2>3, Zenon DEF TablesInv
<1> QED
  BY <1>1, <1>2


(***************************************************************************)
(* The last header is of the input that the tables were prepared for, or,  *)
(* of a stream, has a window no smaller than any input's.                  *)
(***************************************************************************)
HeaderInv ==
  /\ use \in {"call", "stream"}
  /\ use = "call" =>
       /\ header # <<>> =>
            /\ stated \in Lengths
            /\ \E c \in BOOLEAN :
                 header = Tables!FrameHeader(stated, Tables!TableParameters(level, stated).windowLog, c)
       /\ outcome = "prepared" => matcher.windowLog = Tables!TableParameters(level, stated).windowLog
  /\ use = "stream" =>
       /\ stated = Tables!NoSize
       /\ header # <<>> =>
            \E c \in BOOLEAN : header = Tables!FrameHeader(Tables!NoSize, Tables!StreamWindowLog, c)

EncodingInv == TablesInv /\ WindowInv /\ HeaderInv

\* A new workspace is in order.
LEMMA EncodingStarts ==
  ASSUME Tables!TablesInit
  PROVE  EncodingInv
<1>1. level \in Tables!SUPPORTED_LEVELS /\ matcher.usable = TRUE
  BY DEF Tables!TablesInit, Tables!NewFinder
<1>2. ASSUME level = 22
      PROVE  \E w \in 6..27 : /\ tables = Tables!TableLengths(UltraParameters(w))
                              /\ memory = Tables!TableMemoryLength(UltraParameters(w))
  <2>1. 0 \in Nat
    OBVIOUS
  <2>2. PICK w \in 6..27 : Tables!ParametersForInput(22, 0) = UltraParameters(w)
    BY <2>1, UltraShrinks
  <2>3. Tables!TableParameters(level, 0) = UltraParameters(w)
    BY <1>2, <2>1, <2>2, UltraAsks, Zenon
  <2> QED
    BY <2>3 DEF Tables!TablesInit
<1>3. TablesInv
  BY <1>1, <1>2, Zenon DEF TablesInv
<1>4. WindowInv
  <2>1. matcher.windowLog = Tables!LevelParameters[level].windowLog
    BY DEF Tables!TablesInit, Tables!NewFinder
  <2>2. Tables!LevelParameters[level].windowLog \in 10..27
    <3>1. 0 \in Nat
      OBVIOUS
    <3> QED
      BY <1>1, <3>1, WindowsAreBounded, Zenon
  <2>3. Tables!LevelParameters[level].windowLog \in 10..Tables!LevelParameters[level].windowLog
    BY <2>2
  <2> QED
    BY <2>1, <2>3, Zenon DEF WindowInv
<1>5. HeaderInv
  BY DEF HeaderInv, Tables!TablesInit
<1> QED
  BY <1>3, <1>4, <1>5 DEF EncodingInv

\* Where an allocation fails, all is left as it was.
LEMMA PrepareOrFailKeeps ==
  ASSUME EncodingInv, NEW n \in Nat, Tables!Prepare(n) \/ Tables!TablesRunOutOfMemory(n), level' = level
  PROVE  /\ TablesInv' /\ WindowInv'
         /\ outcome' = "prepared" => matcher'.windowLog = Tables!TableParameters(level, n).windowLog
<1>1. CASE Tables!Prepare(n)
  BY <1>1, PrepareKeepsTables, Zenon DEF EncodingInv
<1>2. CASE Tables!TablesRunOutOfMemory(n)
  <2>1. UNCHANGED <<tables, memory, matcher>> /\ outcome' = "OutOfMemory"
    BY <1>2, Zenon DEF Tables!TablesRunOutOfMemory
  <2>2. outcome' # "prepared"
    BY <2>1
  <2>3. TablesInv'
    BY <2>1, Zenon DEF EncodingInv, TablesInv
  <2>4. WindowInv'
    BY <2>1, Zenon DEF EncodingInv, WindowInv
  <2> QED
    BY <2>2, <2>3, <2>4
<1> QED
  BY <1>1, <1>2

\* And every call leaves it so.
LEMMA EncodingSteps ==
  ASSUME EncodingInv, Tables!TablesNext, Tables!EncodeTablesAssumption
  PROVE  EncodingInv'
<1>1. TablesInv /\ WindowInv /\ HeaderInv
  BY DEF EncodingInv
<1>2. ASSUME UNCHANGED <<level, tables, memory, matcher>> PROVE TablesInv' /\ WindowInv'
  BY <1>1, <1>2, Zenon DEF TablesInv, WindowInv
<1>3. ASSUME NEW n \in Lengths, NEW withChecksum \in BOOLEAN, Tables!Compress(n, withChecksum)
      PROVE  EncodingInv'
  <2>1. n \in Nat
    BY DEF Tables!EncodeTablesAssumption
  <2>2. /\ use = "call" /\ use' = use /\ level' = level /\ stated' = n
        /\ header' = Tables!FrameHeader(n, Tables!TableParameters(level, n).windowLog, withChecksum)
        /\ Tables!Prepare(n) \/ Tables!TablesRunOutOfMemory(n)
    BY <1>3, Zenon DEF Tables!Compress
  <2>3. /\ TablesInv' /\ WindowInv'
        /\ outcome' = "prepared" => matcher'.windowLog = Tables!TableParameters(level, n).windowLog
    BY <2>1, <2>2, PrepareOrFailKeeps, Zenon
  <2>4. Tables!TableParameters(level, n)' = Tables!TableParameters(level', n)
    BY DEF Tables!TableParameters, Tables!ParametersForInput
  <2>5. "call" # "stream"
    OBVIOUS
  <2>6. HeaderInv'
    BY <2>2, <2>3, <2>5, Zenon DEF HeaderInv
  <2> QED
    BY <2>3, <2>6, Zenon DEF EncodingInv
<1>4. ASSUME NEW asked, Tables!RefuseLevel(asked) PROVE EncodingInv'
  <2>1. UNCHANGED <<level, tables, memory, matcher, use, header, stated>> /\ outcome' = "BadOptions"
    BY <1>4, Zenon DEF Tables!RefuseLevel
  <2>2. outcome' # "prepared"
    BY <2>1
  <2>3. HeaderInv'
    BY <1>1, <2>1, <2>2, Zenon DEF HeaderInv, Tables!StreamWindowLog
  <2> QED
    BY <1>2, <2>1, <2>3, Zenon DEF EncodingInv
<1>5. ASSUME NEW withChecksum \in BOOLEAN, Tables!WriteStreamHeader(withChecksum) PROVE EncodingInv'
  <2>1. /\ UNCHANGED <<level, tables, memory, matcher, use, stated, outcome>> /\ use = "stream"
        /\ header' = Tables!FrameHeader(Tables!NoSize, Tables!StreamWindowLog, withChecksum)
    BY <1>5, Zenon DEF Tables!WriteStreamHeader
  <2>2. "call" # "stream"
    OBVIOUS
  <2>3. HeaderInv'
    BY <1>1, <2>1, <2>2, Zenon DEF HeaderInv, Tables!StreamWindowLog
  <2> QED
    BY <1>2, <2>1, <2>3, Zenon DEF EncodingInv
<1>6. ASSUME NEW n \in SegmentLengths, Tables!StartSegment(n) PROVE EncodingInv'
  <2>1. PICK last : last = 2^Tables!MAX_OFFSET_LOG
    OBVIOUS
  <2>2. n \in 0..last
    BY <2>1, Zenon DEF Tables!EncodeTablesAssumption
  <2>3. n \in Nat
    BY <2>2
  <2>4. /\ use = "stream" /\ UNCHANGED <<level, use, header, stated>>
        /\ Tables!Prepare(n) \/ Tables!TablesRunOutOfMemory(n)
    BY <1>6, Zenon DEF Tables!StartSegment
  <2>5. TablesInv' /\ WindowInv'
    BY <2>3, <2>4, PrepareOrFailKeeps, Zenon
  <2>6. "call" # "stream"
    OBVIOUS
  <2>7. HeaderInv'
    BY <1>1, <2>4, <2>6, Zenon DEF HeaderInv, Tables!StreamWindowLog
  <2> QED
    BY <2>5, <2>7, Zenon DEF EncodingInv
<1> QED
  BY <1>3, <1>4, <1>5, <1>6, Zenon DEF Tables!TablesNext

\* What a header says of the window is read as it was written, and no distance
\* is larger.
LEMMA HeadersTellTheTruth ==
  ASSUME EncodingInv, Tables!EncodeTablesAssumption
  PROVE  HeaderTellsTheTruth
<1>1. TablesInv /\ WindowInv /\ HeaderInv /\ level \in Tables!SUPPORTED_LEVELS
  BY DEF EncodingInv, TablesInv
<1>2. SUFFICES ASSUME header # <<>>
               PROVE  /\ Tables!ReadFrameHeader(header).status = "ok"
                      /\ Tables!ReadFrameHeader(header).size = stated
                      /\ Tables!ReadFrameHeader(header).length = Tables!HeaderLength(header)
                      /\ Tables!ReadFrameHeader(header).length <= Tables!MAX_FRAME_HEADER_LENGTH
                      /\ outcome = "prepared" => Tables!Reach <= Tables!ReadFrameHeader(header).window
  BY Zenon DEF HeaderTellsTheTruth, Tables!HeaderTellsTheTruth
<1>3. PICK m \in 10..27 : m = matcher.windowLog /\ m <= Tables!LevelParameters[level].windowLog
  <2>1. Tables!LevelParameters[level].windowLog \in 10..27
    <3>1. 0 \in Nat
      OBVIOUS
    <3> QED
      BY <1>1, <3>1, WindowsAreBounded, Zenon
  <2>2. matcher.windowLog \in 10..Tables!LevelParameters[level].windowLog
    BY <1>1 DEF WindowInv
  <2> QED
    BY <2>1, <2>2
<1>4. ASSUME NEW w \in 10..31, NEW c \in BOOLEAN, stated \in Lengths \cup {Tables!NoSize},
             header = Tables!FrameHeader(stated, w, c),
             outcome = "prepared" => Tables!Reach <= 2^w
      PROVE  /\ Tables!ReadFrameHeader(header).status = "ok"
             /\ Tables!ReadFrameHeader(header).size = stated
             /\ Tables!ReadFrameHeader(header).length = Tables!HeaderLength(header)
             /\ Tables!ReadFrameHeader(header).length <= Tables!MAX_FRAME_HEADER_LENGTH
             /\ outcome = "prepared" => Tables!Reach <= Tables!ReadFrameHeader(header).window
  <2>1. PICK read, long, far : /\ read = Tables!ReadFrameHeader(header)
                               /\ long = Tables!HeaderLength(header) /\ far = 2^w
    OBVIOUS
  <2>2. /\ read = [status |-> "ok", size |-> stated, window |-> far, hasChecksum |-> c, length |-> long]
        /\ long \in 0..Tables!MAX_FRAME_HEADER_LENGTH
    BY <1>4, <2>1, HeadersAreRead, Zenon
  <2>3. long <= Tables!MAX_FRAME_HEADER_LENGTH
    BY <2>2
  <2>4. /\ read.status = "ok" /\ read.size = stated /\ read.length = long /\ read.window = far
    BY <2>2
  <2> QED
    BY <1>4, <2>1, <2>3, <2>4, Zenon
<1>5. 2^m \in Nat
  <2>1. m \in Nat
    OBVIOUS
  <2> QED
    BY <2>1, PowersGrow, Zenon
<1>6. CASE use = "call"
  <2>1. PICK c \in BOOLEAN :
          header = Tables!FrameHeader(stated, Tables!TableParameters(level, stated).windowLog, c)
    BY <1>1, <1>2, <1>6, Zenon DEF HeaderInv
  <2>2. stated \in Lengths /\ (outcome = "prepared" => m = Tables!TableParameters(level, stated).windowLog)
    BY <1>1, <1>2, <1>3, <1>6, Zenon DEF HeaderInv
  <2>3. stated \in Nat
    BY <2>2 DEF Tables!EncodeTablesAssumption
  <2>4. PICK w : w = Tables!TableParameters(level, stated).windowLog
    OBVIOUS
  <2>5. w \in 10..31
    <3>1. w \in 10..Tables!LevelParameters[level].windowLog /\ Tables!LevelParameters[level].windowLog \in 10..27
      BY <1>1, <2>3, <2>4, WindowsAreBounded, Zenon
    <3> QED
      BY <3>1
  <2>6. Tables!Reach = Tables!Least(2^m, stated)
    BY <1>3, <1>6 DEF Tables!Reach
  <2>7. Tables!Least(2^m, stated) <= 2^m
    <3>1. PICK x \in Nat : x = 2^m
      BY <1>5
    <3>2. Tables!Least(x, stated) <= x
      BY <2>3 DEF Tables!Least
    <3> QED
      BY <3>1, <3>2, Zenon
  <2>8. outcome = "prepared" => Tables!Reach <= 2^w
    BY <2>2, <2>4, <2>6, <2>7, Zenon
  <2>9. stated \in Lengths \cup {Tables!NoSize}
    BY <2>2
  <2> QED
    BY <1>4, <2>1, <2>4, <2>5, <2>8, <2>9, Zenon
<1>7. CASE use = "stream"
  <2>1. PICK c \in BOOLEAN : header = Tables!FrameHeader(Tables!NoSize, Tables!StreamWindowLog, c)
    BY <1>1, <1>2, <1>7, Zenon DEF HeaderInv
  <2>2. stated = Tables!NoSize
    BY <1>1, <1>7, Zenon DEF HeaderInv
  <2>3. PICK w : w = Tables!StreamWindowLog
    OBVIOUS
  <2>4. w \in 10..31 /\ (m <= w \/ w = 22)
    <3>1. PICK x \in 10..27 : x = Tables!LevelParameters[level].windowLog /\ m <= x
      <4>1. 0 \in Nat
        OBVIOUS
      <4>2. Tables!LevelParameters[level].windowLog \in 10..27
        BY <1>1, <4>1, WindowsAreBounded, Zenon
      <4> QED
        BY <1>3, <4>2
    <3>2. w = Tables!Least(x, 22)
      BY <2>3, <3>1 DEF Tables!StreamWindowLog, Tables!MAX_OFFSET_LOG
    <3> QED
      BY <3>1, <3>2 DEF Tables!Least
  <2>5. PICK k : k = 22
    OBVIOUS
  <2>6. w \in Nat /\ k \in Nat /\ m \in Nat
    BY <2>4, <2>5
  <2>7. 2^m \in Nat /\ 2^w \in Nat /\ 2^k \in Nat /\ (m <= w => 2^m <= 2^w)
    BY <2>6, PowersGrow, Zenon
  <2>8. Tables!Reach = Tables!Least(2^m, 2^k)
    BY <1>3, <1>7, <2>5, Zenon DEF Tables!Reach, Tables!MAX_OFFSET_LOG
  <2>9. Tables!Reach <= 2^w
    <3>1. PICK x \in Nat, y \in Nat, z \in Nat : x = 2^m /\ y = 2^k /\ z = 2^w
      BY <2>7, Zenon
    <3>2. m <= w => x <= z
      BY <2>7, <3>1, Zenon
    <3>3. w = 22 => y = z
      BY <2>5, <3>1, Zenon
    <3>4. Tables!Reach = Tables!Least(x, y)
      BY <2>8, <3>1, Zenon
    <3>5. Tables!Least(x, y) <= z
      BY <2>4, <3>2, <3>3 DEF Tables!Least
    <3> QED
      BY <3>1, <3>4, <3>5, Zenon
  <2>10. stated \in Lengths \cup {Tables!NoSize}
    BY <2>2
  <2> QED
    BY <1>4, <2>1, <2>2, <2>3, <2>4, <2>9, <2>10, Zenon
<1> QED
  BY <1>1, <1>6, <1>7 DEF HeaderInv

\* What a workspace keeps is in order after any inputs, of any lengths and in
\* any order, of a stream too, and where allocations fail.
THEOREM AlwaysEncodingInv == MCSpec => []EncodingInv
<1>1. MCInit => EncodingInv
  BY EncodingStarts, Zenon DEF MCInit
<1>2. EncodingInv /\ [MCNext]_<<frameVars, vars, tableVars, part>> => EncodingInv'
  <2> SUFFICES ASSUME EncodingInv, [MCNext]_<<frameVars, vars, tableVars, part>>
               PROVE  EncodingInv'
    OBVIOUS
  <2>1. CASE Tables!TablesNext
    BY <2>1, EncodingSteps, TablesAssumption, Zenon
  <2>2. CASE UNCHANGED tableVars
    BY <2>2, Zenon DEF EncodingInv, TablesInv, WindowInv, HeaderInv, Tables!StreamWindowLog, tableVars
  <2> QED
    BY <2>1, <2>2, Zenon DEF MCNext
<1> QED
  BY <1>1, <1>2, PTL DEF MCSpec

\* Whatever was compressed before, the finder of a workspace can use its tables:
\* prepare_tables_for_input compares a sum, and for every level that is enough.
THEOREM TablesAlwaysServe == MCSpec => []TablesServeTheInput
<1>1. EncodingInv => TablesServeTheInput
  BY DEF EncodingInv, TablesInv, TablesServeTheInput, Tables!TablesServeTheInput
<1> QED
  BY <1>1, AlwaysEncodingInv, PTL

\* Every header that write_frame_header writes is read by read_frame_header as
\* the size that was meant, in the length it has, with a window that no distance
\* of the frame exceeds: for lengths of up to eight bytes, and all levels.
THEOREM HeaderAlwaysTellsTheTruth == MCSpec => []HeaderTellsTheTruth
<1>1. EncodingInv => HeaderTellsTheTruth
  BY HeadersTellTheTruth, TablesAssumption
<1> QED
  BY <1>1, AlwaysEncodingInv, PTL
=============================================================================
