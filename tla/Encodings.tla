------------------------------ MODULE Encodings ------------------------------
(***************************************************************************)
(* The text encodings of bytes: base58 and base64 in packages/core/src/      *)
(* common, and c32 and the addresses made of them in crypto.                *)
(*                                                                          *)
(* A character is its index in the alphabet of the encoding.                 *)
(***************************************************************************)
EXTENDS Bytes

CONSTANTS
    ChecksumBytes,  \* 4
    MaxChunkLength  \* bytes that base64 encodes at a time: 16383

ASSUME EncodingsAssumption ==
    /\ {ChecksumBytes, MaxChunkLength} \subseteq Nat \ {0}
    /\ MaxChunkLength % 3 = 0

\* How many elements at the front of seq are x.
Leading(seq, x) == Cardinality({i \in DOMAIN seq : \A j \in 1..i : seq[j] = x})

Take(seq, n) == SubSeq(seq, 1, IF n < Len(seq) THEN n ELSE Len(seq))

Drop(seq, n) == SubSeq(seq, n + 1, Len(seq))

\* slice(0, -n) and slice(-n), for n > 0.
AllBut(seq, n) == Take(seq, IF Len(seq) > n THEN Len(seq) - n ELSE 0)

LastBytes(seq, n) == SubSeq(seq, (IF Len(seq) > n THEN Len(seq) - n ELSE 0) + 1, Len(seq))

\* Folds over a sequence from its end.
FoldBack(op(_, _), base, seq) == Seqs!FoldLeft(op, base, Seqs!Reverse(seq))

-----------------------------------------------------------------------------
(* Base 58.                                                                 *)

\* Big-endian bytes divided by base, byte by byte.
DivideByte(base, acc, byte) ==
    LET n == 256 * acc.rest + byte
    IN  [quotient |-> Append(acc.quotient, n \div base), rest |-> n % base]

Division == INSTANCE SequenceFold WITH Step <- DivideByte

WithoutZeros(bytes) == Drop(bytes, Leading(bytes, 0))

\* One turn of encodeB58's loop, which ends with a number of 0, that has no bytes.
TakeDigit(base, acc, turn) ==
    LET division == Division!Fold(base, [quotient |-> <<>>, rest |-> 0], acc.number)
    IN  IF acc.number = <<>> THEN acc
        ELSE [number |-> WithoutZeros(division.quotient),
              digits |-> <<division.rest>> \o acc.digits]

Digitizing == INSTANCE SequenceFold WITH Step <- TakeDigit

\* The digits of a number in big-endian bytes; none for 0.  For each of its bytes the loop
\* turns at most twice, in a base of 16 or more.
DivDigits(bytes, base) ==
    Digitizing!Fold(base, [number |-> WithoutZeros(bytes), digits |-> <<>>],
                    Zeros(2 * Len(bytes))).digits

EncodeB58(bytes) == Zeros(Leading(bytes, 0)) \o DivDigits(bytes, 58)

\* Little-endian bytes times base, byte by byte.
MultiplyByte(base, acc, byte) ==
    LET n == base * byte + acc.carry
    IN  [bytes |-> Append(acc.bytes, n % 256), carry |-> n \div 256]

Multiplication == INSTANCE SequenceFold WITH Step <- MultiplyByte

\* One turn of decodeB58, with a base of 58: bytes times base, plus a digit.
TimesPlus(base, bytes, digit) ==
    LET product == Multiplication!Fold(base, [bytes |-> <<>>, carry |-> digit], bytes)
    IN  product.bytes \o IF product.carry > 0 THEN <<product.carry>> ELSE <<>>

Accumulation == INSTANCE SequenceFold WITH Step <- TimesPlus

\* A decodeB58 that forgets the leading ones.
DecodeB58Bare(digits) ==
    IF digits = <<>> THEN <<>> ELSE Seqs!Reverse(Accumulation!Fold(58, <<0>>, digits))

\* The bytes start as one zero, which stays when all digits are zero.
DecodeB58(digits) ==
    IF digits = <<>> THEN <<>>
    ELSE Seqs!Reverse(Accumulation!Fold(58, <<0>>, digits) \o Zeros(Leading(digits, 0)))

-----------------------------------------------------------------------------
(* Base 32, as Crockford writes it.                                         *)

Nibbles(bytes) ==
    Concat([i \in DOMAIN bytes |-> <<bytes[i] \div 16, bytes[i] % 16>>])

FromNibbles(nibbles) ==
    [i \in 1..(Len(nibbles) \div 2) |-> 16 * nibbles[2 * i - 1] + nibbles[2 * i]]

ByteOrderMark == <<239, 187, 191>>

\* The zeros that c32encode finds at the front of TextDecoder's string, which comes
\* without a byte order mark.
DecodedLeadingZeros(bytes) ==
    Leading(IF Take(bytes, 3) = ByteOrderMark THEN Drop(bytes, 3) ELSE bytes, 0)

\* c32encode, hex digit by hex digit from the end.
C32Digits(bytes) ==
    LET hex == Nibbles(bytes)
        step(acc, i) ==
            IF acc.carry = 4 THEN [acc EXCEPT !.carry = 0]
            ELSE LET bits == acc.carry + 1
                     next == IF i = 1 THEN 0 ELSE hex[i - 1]
                 IN  [digits |-> <<hex[i] \div 2^acc.carry + (next % 2^bits) * 2^(5 - bits)>>
                                 \o acc.digits,
                      carry |-> bits]
    IN  FoldBack(step, [digits |-> <<>>, carry |-> 0], [i \in DOMAIN hex |-> i]).digits

C32Encode(bytes) ==
    LET digits == C32Digits(bytes)
    IN  Zeros(DecodedLeadingZeros(bytes)) \o Drop(digits, Leading(digits, 0))

\* c32decode, digit by digit from the end.
C32Nibbles(digits) ==
    LET step(acc, digit) ==
            LET flushed == IF acc.bits = 4
                           THEN [hex |-> <<acc.carry>> \o acc.hex, carry |-> 0, bits |-> 0]
                           ELSE acc
                value == digit * 2^flushed.bits + flushed.carry
            IN  [hex |-> <<value % 16>> \o flushed.hex, carry |-> value \div 16,
                 bits |-> flushed.bits + 1]
        all == FoldBack(step, [hex |-> <<>>, carry |-> 0, bits |-> 0], digits)
    IN  <<all.carry>> \o all.hex

C32Decode(digits) ==
    LET hex == C32Nibbles(digits)
        even == IF Len(hex) % 2 = 1 THEN <<0>> \o hex ELSE hex
        zeros == Leading(even, 0)
    IN  Zeros(Leading(digits, 0)) \o FromNibbles(Drop(even, zeros - (zeros % 2)))

-----------------------------------------------------------------------------
(* Base 64.  The code of the padding is 64.                                 *)

Padding == 64

\* tripletToBase64 of every three bytes, encodeChunk
EncodeTriplets(bytes) ==
    Concat([i \in 1..(Len(bytes) \div 3) |->
              LET a == bytes[3 * i - 2]  b == bytes[3 * i - 1]  c == bytes[3 * i]
              IN  <<a \div 4, (a % 4) * 16 + b \div 16, (b % 16) * 4 + c \div 64, c % 64>>])

\* The chunks of bytes, the last of which may be shorter.
Chunks(bytes, length) ==
    [i \in 1..((Len(bytes) + length - 1) \div length) |->
       SubSeq(bytes, length * (i - 1) + 1,
              IF length * i < Len(bytes) THEN length * i ELSE Len(bytes))]

\* bytesToBase64 and bytesToBase64Url
EncodeB64(bytes) ==
    LET extra == Len(bytes) % 3
        chunks == Chunks(AllBut(bytes, extra), MaxChunkLength)
        end == LastBytes(bytes, extra)
    IN  Concat([i \in DOMAIN chunks |-> EncodeTriplets(chunks[i])])
        \o CASE extra = 0 -> <<>>
             [] extra = 1 -> <<end[1] \div 4, (end[1] % 4) * 16, Padding, Padding>>
             [] extra = 2 -> <<end[1] \div 4, (end[1] % 4) * 16 + end[2] \div 16,
                               (end[2] % 16) * 4, Padding>>

\* padString
PadString(digits) == digits \o [i \in 1..((4 - (Len(digits) % 4)) % 4) |-> Padding]

\* What is before the first padding.
BeforePadding(text) ==
    Take(text, Cardinality({i \in DOMAIN text : \A j \in 1..i : text[j] # Padding}))

\* base64ToBytes, which also takes text without its padding.
DecodeB64(text) ==
    LET digits == BeforePadding(PadString(text))
        holders == Len(PadString(text)) - Len(digits)
        zeros == digits \o Zeros(holders)
        bytes == Concat([i \in 1..(Len(zeros) \div 4) |->
                    LET b == zeros[4 * i - 2]  c == zeros[4 * i - 1]
                    IN  <<zeros[4 * i - 3] * 4 + b \div 16, (b % 16) * 16 + c \div 4,
                          (c % 4) * 64 + zeros[4 * i]>>])
    IN  AllBut(bytes, holders)

-----------------------------------------------------------------------------
(* Addresses.  The checksum stands for the first bytes of two SHA-256.       *)

AddToSum(i, sum, byte) == (31 * sum + byte + i) % 256

Summing == INSTANCE SequenceFold WITH Step <- AddToSum

Checksum(bytes) == [i \in 1..ChecksumBytes |-> Summing!Fold(i, 7, bytes)]

\* BITCOIN_TO_STACKS_NETWORK_VERSION
ToStacksVersion(version) ==
    CASE version = 0 -> 22 [] version = 5 -> 20 [] version = 111 -> 26 [] version = 196 -> 21
      [] OTHER -> version

ToBitcoinVersion(version) ==
    CASE version = 22 -> 0 [] version = 20 -> 5 [] version = 26 -> 111 [] version = 21 -> 196
      [] OTHER -> version

\* c32address, from its version on.
C32Address(version, hash160) ==
    <<version>> \o C32Encode(hash160 \o Checksum(<<version>> \o hash160))

\* c32addressDecode and c32checkDecode, whose checksum test runs over what bytes there are.
C32AddressDecode(address) ==
    LET data == C32Decode(Tail(address))
        hash160 == AllBut(data, ChecksumBytes)
        expected == Checksum(<<address[1]>> \o hash160)
    IN  IF Len(address) + 1 <= 5 \/ \E i \in DOMAIN LastBytes(data, ChecksumBytes) :
                                       LastBytes(data, ChecksumBytes)[i] # expected[i]
        THEN Throws
        ELSE Read([version |-> address[1], hash160 |-> hash160], <<>>)

\* base58checkEncode
Base58Address(version, hash160) ==
    LET payload == <<version>> \o hash160 IN EncodeB58(payload \o Checksum(payload))

\* base58checkDecode
Base58AddressDecode(address) ==
    LET data == DecodeB58(address)
        payload == AllBut(data, ChecksumBytes)
    IN  IF Checksum(payload) # LastBytes(data, ChecksumBytes) THEN Throws
        ELSE Read([version |-> data[1], hash160 |-> Tail(payload)], <<>>)

B58ToC32(address) ==
    Then(Base58AddressDecode(address), LAMBDA a, rest :
      Read(C32Address(ToStacksVersion(a.version), a.hash160), rest))

C32ToB58(address) ==
    Then(C32AddressDecode(address), LAMBDA a, rest :
      Read(Base58Address(ToBitcoinVersion(a.version), a.hash160), rest))
=============================================================================
