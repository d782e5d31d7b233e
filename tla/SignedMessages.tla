---------------------------- MODULE SignedMessages ----------------------------
(***************************************************************************)
(* Signed tokens and signed messages: packages/core/src/crypto/token-signer  *)
(* and packages/core/src/connect/message-signing.                           *)
(*                                                                          *)
(* A signature's r and s are sequences of ParamBytes bytes.  JSON is its     *)
(* utf8 bytes, and secp256k1 and SHA-256 are external: what is modelled is   *)
(* which bytes are signed, and what form the signature travels in.          *)
(***************************************************************************)
EXTENDS Encodings

CONSTANTS
    ParamBytes,     \* of r and of s: 32
    ChainPrefix,    \* bytes of '\x17Stacks Signed Message:\n'
    LegacyPrefix    \* bytes of '\x18Stacks Message Signing:\n'

\* The length of a DER signature fits in one byte below MAX_OCTET.
ASSUME SignedMessagesAssumption == ParamBytes \in 1..60

\* The first bytes of the prefixes, their lengths, tell them apart.
ASSUME PrefixAssumption ==
    /\ ChainPrefix \in Seq(0..255) /\ LegacyPrefix \in Seq(0..255)
    /\ ChainPrefix # <<>> /\ LegacyPrefix # <<>> /\ ChainPrefix[1] # LegacyPrefix[1]

MAX_OCTET == 128
ENCODED_TAG_SEQ == 48
ENCODED_TAG_INT == 2

-----------------------------------------------------------------------------
(* DER and JOSE.                                                            *)

KeepUnlessPadding(context, kept, digit) == IF digit = Padding THEN kept ELSE Append(kept, digit)

Keeping == INSTANCE SequenceFold WITH Step <- KeepUnlessPadding

\* replace(/=/g, '')
Unpadded(digits) == Keeping!Fold(0, <<>>, digits)

\* A countPadding that forgets the sign.
CountPaddingUnsigned(bytes, start, stop) == Leading(SubSeq(bytes, start + 1, stop), 0)

\* How many zeros at the front of a part of a signature may go; one is missing when the
\* first bit would be taken for a sign.  bytes[start + padding] may be beyond the part.
CountPadding(bytes, start, stop) ==
    LET padding == Leading(SubSeq(bytes, start + 1, stop), 0)
        needsSign == /\ start + padding < Len(bytes)
                     /\ bytes[start + padding + 1] >= MAX_OCTET
    IN  IF needsSign THEN padding - 1 ELSE padding

DerInteger(part, padding) ==
    <<ENCODED_TAG_INT, ParamBytes - padding>>
    \o IF padding < 0 THEN <<0>> \o part ELSE Drop(part, padding)

\* joseToDerES256
JoseToDer(text) ==
    LET signature == DecodeB64(text)
        content == DerInteger(SubSeq(signature, 1, ParamBytes),
                              CountPadding(signature, 0, ParamBytes))
                   \o DerInteger(Drop(signature, ParamBytes),
                                 CountPadding(signature, ParamBytes, Len(signature)))
    IN  <<ENCODED_TAG_SEQ, Len(content)>> \o content

At(bytes, i) == IF i \in DOMAIN bytes THEN bytes[i] ELSE NaN

\* derToJoseES256.  The encoding of the sequence's length in two bytes never occurs.
DerToJose(der) ==
    LET rLength == At(der, 4)
        sLength == At(der, 6 + rLength)
        part(integer) == LastBytes(Zeros(ParamBytes - Len(integer)) \o integer, ParamBytes)
    IN  IF \/ At(der, 1) # ENCODED_TAG_SEQ \/ Len(der) - 2 < At(der, 2)
           \/ At(der, 3) # ENCODED_TAG_INT \/ Len(der) - 6 < rLength \/ ParamBytes + 1 < rLength
           \/ At(der, 5 + rLength) # ENCODED_TAG_INT
           \/ Len(der) - 6 - rLength # sLength \/ ParamBytes + 1 < sLength
        THEN Throws
        ELSE Read(Unpadded(EncodeB64(part(SubSeq(der, 5, 4 + rLength))
                                     \o part(Drop(der, 6 + rLength)))), <<>>)

\* An integer of a signature of secp256k1: it is positive and of no more bytes than it needs.
IsDerInteger(integer) ==
    /\ integer \in Seq(0..255) /\ Len(integer) \in 1..(ParamBytes + 1)
    /\ integer[1] < 128
    /\ integer[1] = 0 => Len(integer) > 1 /\ integer[2] >= 128
    /\ Len(integer) = ParamBytes + 1 => integer[1] = 0

\* The signature of secp256k1.
Der(r, s) ==
    <<ENCODED_TAG_SEQ, Len(r) + Len(s) + 4, ENCODED_TAG_INT, Len(r)>> \o r
    \o <<ENCODED_TAG_INT, Len(s)>> \o s

-----------------------------------------------------------------------------
(* Tokens.  The parts of a compact token have no dot of their own.           *)

\* createSigningInput, without the header.
SigningInput(payload) == Unpadded(EncodeB64(Utf8ToBytes(payload)))

\* TokenSigner.sign
SignToken(payload, der) ==
    Then(DerToJose(der), LAMBDA signature, rest :
      Read([payload |-> SigningInput(payload), signature |-> signature], rest))

\* decodeToken, and the signature that TokenVerifier gives to verify.
DecodeToken(token) ==
    [payload |-> BytesToUtf8(DecodeB64(token.payload)), der |-> JoseToDer(token.signature)]

-----------------------------------------------------------------------------
(* Messages.                                                                *)

WriteUInt16LE(n) == <<n % 256, (n \div 256) % 256>>

WriteUInt32LE(n) ==
    <<n % 256, (n \div 256) % 256, (n \div 65536) % 256, (n \div 16777216) % 256>>

ReadUInt16LE(bytes, i) == bytes[i] + 256 * bytes[i + 1]

ReadUInt32LE(bytes, i) ==
    bytes[i] + 256 * bytes[i + 1] + 65536 * bytes[i + 2] + 16777216 * bytes[i + 3]

\* encode, of at most 2^32 - 1.
EncodeVarUint(n) ==
    IF n < 253 THEN <<n>>
    ELSE IF n <= 65535 THEN <<253>> \o WriteUInt16LE(n) ELSE <<254>> \o WriteUInt32LE(n)

DecodeVarUint(bytes) ==
    IF Head(bytes) < 253 THEN Head(bytes)
    ELSE IF Head(bytes) = 253 THEN ReadUInt16LE(bytes, 2) ELSE ReadUInt32LE(bytes, 2)

EncodingLength(n) == IF n < 253 THEN 1 ELSE IF n <= 65535 THEN 3 ELSE 5

EncodeMessage(message, prefix) == prefix \o EncodeVarUint(Len(message)) \o message

\* decodeMessage skips the length without comparing it.
DecodeMessage(encoded, prefix) ==
    LET rest == Drop(encoded, Len(prefix)) IN Drop(rest, EncodingLength(DecodeVarUint(rest)))

\* verifyMessageSignature, of a signature over these bytes.
VerifiesMessage(message, signedBytes) ==
    \E prefix \in {ChainPrefix, LegacyPrefix} : EncodeMessage(message, prefix) = signedBytes
=============================================================================
