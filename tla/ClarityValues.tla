---------------------------- MODULE ClarityValues ----------------------------
(***************************************************************************)
(* Clarity values and their wire format: packages/core/src/clarity.          *)
(*                                                                          *)
(* A tuple is a function from its names to values; JavaScript's order of its *)
(* keys is left out, as nothing depends on it.  The sizes the code fixes are *)
(* constants, so that TLC's instances may be smaller.                        *)
(***************************************************************************)
EXTENDS Bytes, TLC

CONSTANTS
    IntBytes,       \* 16
    CheckBytes,     \* of the intToBytes that intCV tries: 8
    WordBytes,      \* of a length: 4
    HashBytes,      \* of an address: 20
    MaxString,      \* MAX_STRING_LENGTH_BYTES: 128
    MaxBuffer       \* 1000000

ASSUME ClarityAssumption ==
    {IntBytes, CheckBytes, WordBytes, HashBytes, MaxString, MaxBuffer} \subseteq Nat \ {0}

ClarityType ==
    [Int |-> 0, UInt |-> 1, Buffer |-> 2, BoolTrue |-> 3, BoolFalse |-> 4,
     PrincipalStandard |-> 5, PrincipalContract |-> 6, ResponseOk |-> 7, ResponseErr |-> 8,
     OptionalNone |-> 9, OptionalSome |-> 10, List |-> 11, Tuple |-> 12,
     StringASCII |-> 13, StringUTF8 |-> 14]

Bare == {"BoolTrue", "BoolFalse", "OptionalNone"}

Wrapping == {"OptionalSome", "ResponseOk", "ResponseErr"}

-----------------------------------------------------------------------------
(* What the constructors accept.                                            *)

Letters == 65..90 \cup 97..122

\* - _ ! ? + < > = / * and the digits
NameChars == Letters \cup 48..57 \cup {45, 95, 33, 63, 43, 60, 62, 61, 47, 42}

IsClarityName(name) ==
    /\ Len(name) < MaxString
    /\ \/ name # <<>> /\ Head(name) \in Letters /\ Seqs!Range(name) \subseteq NameChars
       \/ Len(name) = 1 /\ Head(name) \in {45, 43, 61, 47, 42}
       \/ Len(name) \in {1, 2} /\ Head(name) \in {60, 62} /\ Seqs!Range(Tail(name)) \subseteq {61}

\* createLPString
FitsLPString(string, maxLength) == Len(Utf8ToBytes(string)) <= maxLength

\* contractPrincipalCVFromAddress, but not contractPrincipalCVFromStandard.
FitsContractPrincipal(name) == Len(Utf8ToBytes(name)) < MaxString

\* intCV makes sure that a value has at most so many bytes as intToBytes makes of it,
\* which throws for one that needs more than eight and has an odd number of digits.
FitsIntCV(value) == InTwos(value, 8 * IntBytes) /\ HasBytes(value, CheckBytes)

FitsUIntCV(value) == value \in 0..(2^(8 * IntBytes) - 1)

\* The constructor of a value does not throw.
Accepts(cv) ==
    CASE cv.type = "Int" -> FitsIntCV(cv.value)
      [] cv.type = "UInt" -> FitsUIntCV(cv.value)
      [] cv.type = "Buffer" -> Len(cv.buffer) <= MaxBuffer
      [] cv.type = "PrincipalContract" -> FitsContractPrincipal(cv.contractName)
      [] cv.type = "Tuple" -> \A name \in DOMAIN cv.data : IsClarityName(name)
      [] OTHER -> TRUE

\* A value that applications can make of others.
RECURSIVE IsConstructed(_)
IsConstructed(cv) ==
    /\ \/ Accepts(cv)
       \/ cv.type = "PrincipalContract" /\ FitsLPString(cv.contractName, MaxString)
    /\ CASE cv.type \in Wrapping -> IsConstructed(cv.value)
         [] cv.type = "List" -> \A i \in DOMAIN cv.list : IsConstructed(cv.list[i])
         [] cv.type = "Tuple" -> \A name \in DOMAIN cv.data : IsConstructed(cv.data[name])
         [] OTHER -> TRUE

-----------------------------------------------------------------------------
(* serializeCV                                                              *)

SerializeAddress(address) == IntToBytes(address.version, 1) \o address.hash160

\* A prefix that counts characters.
SerializeLPStringChars(string, prefixBytes) ==
    IntToBytes(Len(string), prefixBytes) \o Utf8ToBytes(string)

\* serializeLPString, with a prefix of prefixBytes.
SerializeLPString(string, prefixBytes) ==
    LET bytes == Utf8ToBytes(string)
    IN  IntToBytes(Len(bytes), prefixBytes) \o bytes

\* The keys of a tuple, by their bytes.
LexicographicOrder(data) ==
    SortSeq(Seqs!SetToSeq(DOMAIN data), LAMBDA a, b : Compare(Utf8ToBytes(a), Utf8ToBytes(b)) < 0)

RECURSIVE SerializeCV(_)
SerializeCV(cv) == <<ClarityType[cv.type]>> \o
    CASE cv.type \in Bare -> <<>>
      [] cv.type \in Wrapping -> SerializeCV(cv.value)
      [] cv.type = "Int" -> IntToBytes(ToTwos(cv.value, 8 * IntBytes), IntBytes)
      [] cv.type = "UInt" -> IntToBytes(cv.value, IntBytes)
      [] cv.type = "Buffer" -> IntToBytes(Len(cv.buffer), WordBytes) \o cv.buffer
      [] cv.type = "PrincipalStandard" -> SerializeAddress(cv.address)
      [] cv.type = "PrincipalContract" ->
            SerializeAddress(cv.address) \o SerializeLPString(cv.contractName, 1)
      [] cv.type = "List" ->
            IntToBytes(Len(cv.list), WordBytes) \o
            Concat([i \in DOMAIN cv.list |-> SerializeCV(cv.list[i])])
      [] cv.type = "Tuple" ->
            LET keys == LexicographicOrder(cv.data)
            IN  IntToBytes(Len(keys), WordBytes) \o
                Concat([i \in DOMAIN keys |->
                          SerializeLPString(keys[i], 1) \o SerializeCV(cv.data[keys[i]])])
      [] cv.type = "StringASCII" ->
            IntToBytes(Len(cv.data), WordBytes) \o AsciiToBytes(cv.data)
      [] cv.type = "StringUTF8" -> SerializeLPString(cv.data, WordBytes)

-----------------------------------------------------------------------------
(* deserializeCV                                                            *)

ReadAddress(reader) ==
    Then(ReadLength(reader, 1), LAMBDA version, r :
      Then(ReadBuffer(r, HashBytes), LAMBDA hash160, rest :
        Read([version |-> version, hash160 |-> hash160], rest)))

\* deserializeLPString
ReadLPString(reader, prefixBytes, maxLength) ==
    Then(ReadLength(reader, prefixBytes), LAMBDA length, r :
      Then(ReadBuffer(r, length), LAMBDA bytes, rest :
        LET string == BytesToUtf8(bytes)
        IN  IF FitsLPString(string, maxLength) THEN Read(string, rest) ELSE Throws))

ReadCounted(reader, ReadOne(_)) ==
    Then(ReadUInt(reader, WordBytes), LAMBDA count, r : ReadMany(r, count, ReadOne))

ReadString(reader, Convert(_)) ==
    Then(ReadUInt(reader, WordBytes), LAMBDA length, r :
      Then(ReadBuffer(r, length), LAMBDA bytes, rest : Read(Convert(bytes), rest)))

Construct(cv, rest) == IF Accepts(cv) THEN Read(cv, rest) ELSE Throws

\* A reader whose offset is NaN reads the first byte of all, which opens the outermost
\* value, again and again until the stack overflows; in a transaction that
\* byte is its version, which is no value either.
RECURSIVE DeserializeCV(_)
DeserializeCV(reader) ==
    IF reader.at = NaN THEN Throws
    ELSE Then(ReadUInt8Enum(reader, Seqs!Range(ClarityType)), LAMBDA id, r :
      LET type == CHOOSE t \in DOMAIN ClarityType : ClarityType[t] = id
      IN  CASE type \in Bare -> Read([type |-> type], r)
            [] type \in Wrapping ->
                  Then(DeserializeCV(r), LAMBDA cv, rest :
                    Read([type |-> type, value |-> cv], rest))
            [] type = "Int" ->
                  Then(ReadBigInt(r, IntBytes), LAMBDA n, rest :
                    Construct([type |-> type, value |-> FromTwos(n, 8 * IntBytes)], rest))
            [] type = "UInt" ->
                  Then(ReadBigInt(r, IntBytes), LAMBDA n, rest :
                    Construct([type |-> type, value |-> n], rest))
            [] type = "Buffer" ->
                  Then(ReadString(r, LAMBDA bytes : bytes), LAMBDA bytes, rest :
                    Construct([type |-> type, buffer |-> bytes], rest))
            [] type = "PrincipalStandard" ->
                  Then(ReadAddress(r), LAMBDA address, rest :
                    Read([type |-> type, address |-> address], rest))
            [] type = "PrincipalContract" ->
                  Then(ReadAddress(r), LAMBDA address, r2 :
                    Then(ReadLPString(r2, 1, MaxString), LAMBDA name, rest :
                      Construct([type |-> type, address |-> address,
                                 contractName |-> name], rest)))
            [] type = "List" ->
                  Then(ReadCounted(r, DeserializeCV), LAMBDA list, rest :
                    Read([type |-> type, list |-> list], rest))
            [] type = "Tuple" ->
                  Then(ReadCounted(r, LAMBDA entry :
                         Then(ReadLPString(entry, 1, MaxString), LAMBDA name, r2 :
                           Then(DeserializeCV(r2), LAMBDA cv, r3 : Read(name :> cv, r3)))),
                       LAMBDA entries, rest :
                         Construct([type |-> type, data |->
                           Seqs!FoldLeft(LAMBDA data, entry : entry @@ data, <<>>, entries)], rest))
            [] type = "StringASCII" ->
                  Then(ReadString(r, BytesToAscii), LAMBDA string, rest :
                    Read([type |-> type, data |-> string], rest))
            [] type = "StringUTF8" ->
                  Then(ReadString(r, BytesToUtf8), LAMBDA string, rest :
                    Read([type |-> type, data |-> string], rest)))
=============================================================================
