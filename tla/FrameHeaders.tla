---------------------------- MODULE FrameHeaders ----------------------------
(***************************************************************************)
(* The header of a frame, as the encoder writes it and as the decoder      *)
(* reads it.  A header is the sequence of its bytes behind the magic       *)
(* number.                                                                 *)
(***************************************************************************)
EXTENDS Integers, Sequences

CONSTANT FourByteLimit   \* u32::MAX, from which on a size takes eight bytes

MagicLength == 4
MAX_FRAME_HEADER_LENGTH == 14
NoSize == -1

\* What is left of a number for each byte and the ones above it.
Rests(number, length) ==
  LET rest[i \in 1..length] == IF i = 1 THEN number ELSE rest[i - 1] \div 256
  IN  rest

\* The bytes of a number, the lowest first.
LittleEndian(number, length) == [i \in 1..length |-> Rests(number, length)[i] % 256]

\* The number is less than 256^length.
Fits(number, length) == Rests(number, length)[length] < 256

\* What the last bytes say, one more each time.
FromLittleEndian(bytes) ==
  LET value[n \in 0..Len(bytes)] ==
        IF n = 0 THEN 0 ELSE value[n - 1] * 256 + bytes[Len(bytes) + 1 - n]
  IN  value[Len(bytes)]

(***************************************************************************)
(* frame_writer.rs.                                                        *)
(***************************************************************************)
\* Broken: two bytes are thought to reach one further.
BrokenTakesTwoBytes(size) == 256 <= size /\ size <= 65536 + 256

\* Two bytes count from 256 on.
TakesTwoBytes(size) == 256 <= size /\ size <= 65535 + 256

ContentSizeFlag(size) ==
  IF TakesTwoBytes(size) THEN 1 ELSE IF size <= FourByteLimit THEN 2 ELSE 3

WrittenSize(flag, size) ==
  IF flag = 1 THEN LittleEndian(size - 256, 2)
  ELSE LittleEndian(size, IF flag = 2 THEN 4 ELSE 8)

\* write_frame_header, for a window_log it accepts.
FrameHeader(size, windowLog, withChecksum) ==
  LET flag == IF size = NoSize THEN 0 ELSE ContentSizeFlag(size)
  IN  <<flag * 64 + (IF withChecksum THEN 4 ELSE 0), (windowLog - 10) * 8>>
        \o (IF size = NoSize THEN <<>> ELSE WrittenSize(flag, size))

HeaderLength(header) == MagicLength + Len(header)

(***************************************************************************)
(* frame_header.rs.                                                        *)
(***************************************************************************)
SizeFieldLength(flag, singleSegment) ==
  CASE flag = 0 -> IF singleSegment THEN 1 ELSE 0
    [] flag = 1 -> 2
    [] flag = 2 -> 4
    [] flag = 3 -> 8

DictionaryFieldLength(flag) == IF flag = 3 THEN 4 ELSE flag

ReadSize(bytes, flag) ==
  IF bytes = <<>> THEN NoSize
  ELSE FromLittleEndian(bytes) + (IF flag = 1 THEN 256 ELSE 0)

\* read_window_size: a power of two and some eighths of it.
WindowSize(byte) == 2^(10 + byte \div 8) + 2^(7 + byte \div 8) * (byte % 8)

\* MAX_WINDOW_SIZE, 2^31, as a descriptor.
MaxWindowByte == (31 - 10) * 8

\* A content size that as a window is above MAX_WINDOW_SIZE.
SizeIsAboveMaxWindow(size) == (size - 1) \div 2^30 > 1

Refused(error) == [status |-> error]

\* read_frame_header, behind a magic number that is right.
ReadFrameHeader(bytes) ==
  LET descriptor       == Head(bytes)
      flag             == descriptor \div 64
      singleSegment    == (descriptor \div 32) % 2 = 1
      dictionaryLength == DictionaryFieldLength(descriptor % 4)
      dictionaryStart  == IF singleSegment THEN 1 ELSE 2
      sizeStart        == dictionaryStart + dictionaryLength
      length           == sizeStart + SizeFieldLength(flag, singleSegment)
      size             == ReadSize(SubSeq(bytes, sizeStart + 1, length), flag)
  IN IF Len(bytes) < 1 \/ Len(bytes) < length THEN Refused("InputTooShort")
     ELSE IF (descriptor \div 8) % 2 = 1 THEN Refused("BadFrameHeader")
     ELSE IF FromLittleEndian(SubSeq(bytes, dictionaryStart + 1, sizeStart)) # 0
     THEN Refused("DictionaryNotSupported")
     ELSE IF \/ singleSegment /\ SizeIsAboveMaxWindow(size)
             \/ ~singleSegment /\ bytes[2] > MaxWindowByte
     THEN Refused("WindowTooLarge")
     ELSE   [status      |-> "ok",
             size        |-> size,
             window      |-> IF singleSegment THEN size ELSE WindowSize(bytes[2]),
             hasChecksum |-> (descriptor \div 4) % 2 = 1,
             length      |-> MagicLength + length]
=============================================================================
