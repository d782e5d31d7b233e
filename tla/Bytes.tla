-------------------------------- MODULE Bytes --------------------------------
(***************************************************************************)
(* Bytes, the numbers and strings they hold, and the reader that takes them  *)
(* apart: packages/core/src/common/buffer and common/encoding-*.ts.          *)
(*                                                                          *)
(* Bytes are a sequence over 0..255.  A string is the sequence of its code   *)
(* points, which need at most three bytes in utf8.                           *)
(*                                                                          *)
(* Reading gives a value and the reader after it, or throws.                 *)
(***************************************************************************)
EXTENDS Integers, Sequences, FiniteSets

Seqs == INSTANCE SequencesExt

\* What parseInt gives for no digits, and the offset of a reader that was asked for
\* that many bytes.
NaN == -1

Replacement == 65533    \* U+FFFD

Mark == 65279           \* U+FEFF, the byte order mark

-----------------------------------------------------------------------------
(* Numbers.                                                                 *)

\* One turn of the loop over the pieces.
Joined(context, bytes, piece) == bytes \o piece

Joining == INSTANCE SequenceFold WITH Step <- Joined

Concat(pieces) == Joining!Fold(0, <<>>, pieces)

BigEndian(bytes) == Seqs!FoldLeft(LAMBDA n, byte : 256 * n + byte, 0, bytes)

\* The digits of a number, at least one.
Digits(n, base) ==
    LET digits[m \in 0..n] ==
            IF m < base THEN <<m>> ELSE Append(digits[m \div base], m % base)
    IN  digits[n]

Zeros(n) == [i \in 1..(IF n > 0 THEN n ELSE 0) |-> 0]

PadStart(digits, length) == Zeros(length - Len(digits)) \o digits

Magnitude(value) == IF value < 0 THEN -value ELSE value

HexLength(value) == Len(Digits(Magnitude(value), 16)) + IF value < 0 THEN 1 ELSE 0

\* hexToBytes does not throw for what intToHexString gives: padded to n bytes, a
\* longer number keeps its digits, and its sign.
HasBytes(value, n) == HexLength(value) <= 2 * n \/ HexLength(value) % 2 = 0

\* intToBytes.  Nothing checks the range.  A number that needs more bytes gets them; a
\* minus sign before an odd number of digits makes the first byte negative, one before
\* an even number of digits is skipped by parseInt.
IntToBytes(value, n) ==
    LET digits == Digits(Magnitude(value), 256)
        odd == Len(Digits(Magnitude(value), 16)) % 2 = 1
    IN  PadStart(IF value < 0 /\ odd THEN [digits EXCEPT ![1] = 256 - @] ELSE digits, n)

\* toTwos, without its range check, and fromTwos.  TLC's numbers have 32 bits.
ToTwos(value, bits) == IF value >= 0 THEN value ELSE 2^bits + value

FromTwos(value, bits) == IF value >= 2^(bits - 1) THEN value - 2^bits ELSE value

InTwos(value, bits) == value \in -(2^(bits - 1))..(2^(bits - 1) - 1)

-----------------------------------------------------------------------------
(* Strings.                                                                 *)

\* The code points whose utf8 has at most three bytes.
Characters == {c \in Nat : c < 55296 \/ (57343 < c /\ c < 65536)}

AsciiToBytes(string) == [i \in DOMAIN string |-> string[i] % 256]

BytesToAscii(bytes) == [i \in DOMAIN bytes |-> bytes[i] % 128]

\* A utf8 of two bytes at most.
CodePointToTwoBytes(c) ==
    IF c < 128 THEN <<c>> ELSE <<192 + c \div 64, 128 + (c % 64)>>

CodePointToBytes(c) ==
    IF c < 128 THEN <<c>>
    ELSE IF c < 2048 THEN <<192 + c \div 64, 128 + (c % 64)>>
    ELSE <<224 + c \div 4096, 128 + ((c \div 64) % 64), 128 + (c % 64)>>

Utf8ToBytes(string) == Concat([i \in DOMAIN string |-> CodePointToBytes(string[i])])

\* The bytes of a character that starts with this one; 0 when none does.
Utf8Size(byte) ==
    IF byte < 128 THEN 1 ELSE IF byte \in 194..223 THEN 2 ELSE IF byte \in 224..239 THEN 3 ELSE 0

\* What a byte that is not the next one of a character begins.
Begin(string, byte) ==
    LET size == Utf8Size(byte)
    IN  CASE size = 0 -> [string |-> Append(string, Replacement), wanted |-> 0, point |-> 0]
          [] size = 1 -> [string |-> Append(string, byte), wanted |-> 0, point |-> 0]
          [] size = 2 -> [string |-> string, wanted |-> 1, point |-> byte - 192]
          [] size = 3 -> [string |-> string, wanted |-> 2, point |-> byte - 224]

\* The characters before the one that is begun.
Finished(acc) == IF acc.wanted = 0 THEN acc.string ELSE Append(acc.string, Replacement)

\* One turn of TextDecoder's loop over the bytes: so many more are wanted of the character
\* that is begun, whose code point is known so far.
DecodeByte(context, acc, byte) ==
    IF acc.wanted = 0 \/ byte \notin 128..191 THEN Begin(Finished(acc), byte)
    ELSE LET point == 64 * acc.point + byte - 128
         IN  IF acc.wanted > 1 THEN [string |-> acc.string, wanted |-> acc.wanted - 1, point |-> point]
             ELSE [string |-> Append(acc.string, point), wanted |-> 0, point |-> 0]

Decoding == INSTANCE SequenceFold WITH Step <- DecodeByte

\* The characters of bytes.  Those that begin no character, or one that is not whole, become
\* the replacement character.
CharactersOf(bytes) ==
    Finished(Decoding!Fold(0, [string |-> <<>>, wanted |-> 0, point |-> 0], bytes))

IsMarked(string) == string # <<>> /\ Head(string) = Mark

WithoutMark(string) == IF IsMarked(string) THEN Tail(string) ELSE string

\* TextDecoder does not give the byte order mark that bytes begin with.
BytesToUtf8(bytes) == WithoutMark(CharactersOf(bytes))

\* compare: -1, 0 or 1.
Compare(a, b) ==
    LET differ == {i \in DOMAIN a \cap DOMAIN b : a[i] # b[i]}
        first == CHOOSE i \in differ : \A j \in differ : i <= j
        x == IF differ = {} THEN Len(a) ELSE a[first]
        y == IF differ = {} THEN Len(b) ELSE b[first]
    IN  IF x < y THEN -1 ELSE IF y < x THEN 1 ELSE 0

-----------------------------------------------------------------------------
(* BufferReader.                                                            *)

\* Of bytes that are a view of a larger buffer, from its byteOffset on.
Reader(bytes, byteOffset) == [bytes |-> bytes, byteOffset |-> byteOffset, at |-> 0]

Read(value, reader) == [ok |-> TRUE, value |-> value, reader |-> reader]

Throws == [ok |-> FALSE]

\* What follows a read, if that did not throw.
Then(read, Continue(_, _)) == IF read.ok THEN Continue(read.value, read.reader) ELSE Throws

\* readBuffer gives fewer bytes where the buffer ends, and none at an offset of NaN.  The
\* byteOffset of a view is added to where it reads from, as if the view began with the buffer.
ReadBuffer(reader, length) ==
    IF reader.at = NaN \/ length = NaN
    THEN Read(<<>>, [reader EXCEPT !.at = NaN])
    ELSE LET wanted == reader.at + length
             end == IF wanted < Len(reader.bytes) THEN wanted ELSE Len(reader.bytes)
         IN  Read(SubSeq(reader.bytes, reader.byteOffset + reader.at + 1, end),
                  [reader EXCEPT !.at = end])

\* A readUInt8 that does not notice the end either.
ReadUIntShort(reader, length) ==
    Then(ReadBuffer(reader, length), LAMBDA bytes, rest : Read(BigEndian(bytes), rest))

\* readUInt8, readUInt16BE, readUInt32BE.  NaN is never beyond bounds, and DataView
\* takes it for 0.
ReadUInt(reader, length) ==
    LET at == IF reader.at = NaN THEN 0 ELSE reader.at
    IN  IF at + length > Len(reader.bytes) THEN Throws
        ELSE Read(BigEndian(SubSeq(reader.bytes, at + 1, at + length)),
                  [reader EXCEPT !.at = IF @ = NaN THEN NaN ELSE @ + length])

ReadUInt8Enum(reader, enum) ==
    Then(ReadUInt(reader, 1), LAMBDA n, rest : IF n \in enum THEN Read(n, rest) ELSE Throws)

\* hexStringToInt(bytesToHex(readBuffer(length)))
ReadLength(reader, length) ==
    Then(ReadBuffer(reader, length),
         LAMBDA bytes, rest : Read(IF bytes = <<>> THEN NaN ELSE BigEndian(bytes), rest))

\* BigInt('0x' + bytesToHex(readBuffer(length)))
ReadBigInt(reader, length) ==
    Then(ReadBuffer(reader, length),
         LAMBDA bytes, rest : IF bytes = <<>> THEN Throws ELSE Read(BigEndian(bytes), rest))

\* A loop that reads count times; it does not turn for NaN.  Each turn reads a byte at least, or
\* throws.
ReadMany(reader, count, ReadOne(_)) ==
    IF count > Len(reader.bytes) THEN Throws
    ELSE Seqs!FoldLeft(LAMBDA read, i :
               Then(read, LAMBDA values, r :
                 Then(ReadOne(r), LAMBDA value, rest : Read(Append(values, value), rest))),
             Read(<<>>, reader), [i \in 1..count |-> i])
=============================================================================
