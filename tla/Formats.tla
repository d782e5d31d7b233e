-------------------------------- MODULE Formats --------------------------------
(***************************************************************************)
(* What one side writes, another reads and may write again: Clarity values,  *)
(* transactions, the arguments of calls and structured messages, in the      *)
(* formats of the modules below, and the texts of TextFormats.  A Clarity    *)
(* value may arrive cut short, and bytes as a view of a larger buffer.       *)
(***************************************************************************)
EXTENDS TextFormats, AuthorizationWire, StructuredMessages, ContractAbi

CONSTANTS
    Values,         \* Clarity values, as their constructors make them
    Transactions,
    CallPayload,    \* the payload of a contract call without arguments
    AbiTypes,       \* types of arguments
    Calls,          \* [inputs, types, parses], with as many inputs as types
    Structured,     \* [message, isHex, domain, network]
    Offsets         \* the byteOffsets of views that bytes may arrive as

ASSUME FormatsAssumption == Offsets \subseteq Nat \ {0}

VARIABLES
    whole,          \* the wire is as it was written, in a buffer of its own
    byteOffset      \* of the bytes that the reader is given

formatVars == <<whole, byteOffset>>

vars == <<sent, wire, got, hops, formatVars>>

Kinds == {"value", "transaction", "call", "structured"}

-----------------------------------------------------------------------------

Encode(kind, content) ==
    CASE kind = "value" -> SerializeCV(content)
      [] kind = "transaction" -> SerializeTransaction(content)
      [] kind = "call" -> SerializePayload(content.payload)
      [] kind = "structured" -> StructuredPayload(content)

Decode(kind, content, bytes, offset) ==
    CASE kind = "value" -> DeserializeCV(Reader(bytes, offset))
      [] kind = "transaction" -> DeserializeTransaction(Reader(bytes, offset))
      [] kind = "call" -> Then(DeserializePayload(Reader(bytes, offset)), LAMBDA payload, r :
            Read([content EXCEPT !.payload = payload], r))
      [] kind = "structured" ->
            VerifiesStructured(bytes, content.message, content.isHex, content.domain)

WriteAs(kind, content) == Write(kind, content, Encode(kind, content)) /\ UNCHANGED formatVars

WriteValue(cv) == IsConstructed(cv) /\ WriteAs("value", cv)

WriteTransaction(tx) ==
    IsPayload(tx.payload) /\ CanSerialize(tx) /\ WriteAs("transaction", tx)

\* The arguments of a call of the contract of payload, made of what the user typed.
WriteCall(call, payload) ==
    LET made == [i \in DOMAIN call.types |->
                    IF call.parses THEN ParseToCV(call.inputs[i], call.types[i])
                    ELSE EncodeClarityValue(call.types[i], call.inputs[i])]
    IN  /\ \A i \in DOMAIN made : made[i].ok
        /\ WriteAs("call", [payload |-> [payload EXCEPT !.functionArgs =
                                        [i \in DOMAIN made |-> made[i].value]],
                          call |-> call])

WriteStructured(request) == IsConstructed(request.message) /\ WriteAs("structured", request)

\* The end of a value is lost, as of a hex string that was copied in part.
Cut ==
    /\ sent.kind = "value" /\ whole /\ hops = 0 /\ got = NotRead
    /\ \E length \in 0..(Len(wire) - 1) : wire' = SubSeq(wire, 1, length)
    /\ whole' = FALSE
    /\ UNCHANGED <<sent, got, hops, byteOffset>>

\* The bytes are a view of a larger buffer, as a Buffer of Node's is; hex is not.
View ==
    /\ sent.kind \in {"value", "transaction"} /\ whole /\ hops = 0 /\ got = NotRead
    /\ byteOffset' \in Offsets
    /\ whole' = FALSE
    /\ UNCHANGED <<sent, wire, got, hops>>

ReadWire ==
    /\ sent.kind \in Kinds
    /\ Reads(Decode(sent.kind, sent.content, wire, byteOffset))
    /\ UNCHANGED formatVars

\* The verdict on a structured message is for its reader alone.
Relay ==
    /\ whole /\ sent.kind \in Kinds \ {"structured"}
    /\ sent.kind = "transaction" /\ got.ok => CanSerialize(got.value)
    /\ Relays(Encode(sent.kind, got.value))
    /\ UNCHANGED formatVars

Init == TextInit /\ whole = TRUE /\ byteOffset = 0

\* One side writes a content, the first time.
WriteOne ==
    /\ sent = Nothing
    /\ \/ \E i \in DOMAIN Values : WriteValue(Values[i])
       \/ \E i \in DOMAIN Transactions : WriteTransaction(Transactions[i])
       \/ \E i \in DOMAIN Calls : WriteCall(Calls[i], CallPayload)
       \/ \E i \in DOMAIN Structured : WriteStructured(Structured[i])

\* The second half is what TextFormats allows where there is no text.
Next == \/ TextNext /\ UNCHANGED formatVars
        \/ (WriteOne \/ Cut \/ View \/ ReadWire \/ Relay) /\ Elsewhere

Spec == Init /\ [][Next]_vars

-----------------------------------------------------------------------------
(* Properties.                                                              *)

\* The state is one of the machine's, and what values and transactions are written as
\* are bytes.
TypeOK ==
    /\ sent = Nothing \/ sent.kind \in Kinds \cup TextKinds
    /\ sent.kind \in {"value", "transaction", "message"} => Seqs!Range(wire) \subseteq 0..255
    /\ got.ok => got.read
    /\ whole \in BOOLEAN
    /\ byteOffset \in {0} \cup Offsets
    /\ hops \in 0..MaxHops

\* A reader has read, unharmed, a content of this kind.
HasReadWhole(kind) == HasRead({kind}) /\ whole

\* The values in a value that have no others in them.
RECURSIVE LeavesOf(_)
LeavesOf(cv) ==
    CASE cv.type \in Wrapping -> LeavesOf(cv.value)
      [] cv.type = "List" -> UNION {LeavesOf(cv.list[i]) : i \in DOMAIN cv.list}
      [] cv.type = "Tuple" -> UNION {LeavesOf(cv.data[name]) : name \in DOMAIN cv.data}
      [] OTHER -> {cv}

RECURSIVE HasTuple(_)
HasTuple(cv) ==
    IF cv.type \in Wrapping THEN HasTuple(cv.value)
    ELSE \/ cv.type = "Tuple" /\ DOMAIN cv.data # {}
         \/ cv.type = "List" /\ \E i \in DOMAIN cv.list : HasTuple(cv.list[i])

\* No utf8 string in it begins with a byte order mark.
IsUnmarked(cv) == \A leaf \in LeavesOf(cv) : leaf.type = "StringUTF8" => ~IsMarked(leaf.data)

\* What serializeCV and deserializeCV do keep: characters of ascii strings that are, strings
\* and names without a byte order mark, and contract names shorter than contractPrincipalCV
\* allows.
IsPlain(cv) ==
    /\ IsUnmarked(cv)
    /\ \A leaf \in LeavesOf(cv) :
          /\ leaf.type = "StringASCII" => \A i \in DOMAIN leaf.data : leaf.data[i] < 128
          /\ leaf.type = "PrincipalContract" =>
                FitsContractPrincipal(leaf.contractName) /\ ~IsMarked(leaf.contractName)

\* A Clarity value is read as it was written (deserialize.ts, serialize.ts): every value its
\* constructors make but those that are not plain.  Out of a view of a larger buffer only what
\* takes no bytes of its own is read, whatever its numbers may be taken for
\* (buffer-reader.ts).
ValueIsRead ==
    /\ HasReadWhole("value") /\ hops = 0 => (IsReadAsSent <=> IsPlain(sent.content))
    /\ HasRead({"value"}) /\ byteOffset # 0 =>
        LET leaves == LeavesOf(sent.content)
        IN  (\A leaf \in leaves : leaf.type \notin {"Int", "UInt"}) =>
              (IsReadAsSent <=>
                  /\ ~HasTuple(sent.content)
                  /\ \A leaf \in leaves :
                        \/ leaf.type \in Bare
                        \/ leaf.type = "Buffer" /\ leaf.buffer = <<>>
                        \/ leaf.type \in {"StringASCII", "StringUTF8"} /\ leaf.data = <<>>)

\* Two values of the same shape, which differ in the last of their leaves at most.
RECURSIVE DifferAtEnd(_, _)
DifferAtEnd(a, b) ==
    /\ a.type = b.type
    /\ CASE a.type \in Wrapping -> DifferAtEnd(a.value, b.value)
         [] a.type = "List" ->
               /\ Len(a.list) = Len(b.list)
               /\ \A i \in DOMAIN a.list :
                     IF i = Len(a.list) THEN DifferAtEnd(a.list[i], b.list[i])
                                        ELSE a.list[i] = b.list[i]
         [] a.type = "Tuple" ->
               /\ DOMAIN a.data = DOMAIN b.data
               /\ LET keys == LexicographicOrder(a.data)
                  IN  \A i \in DOMAIN keys :
                        IF i = Len(keys) THEN DifferAtEnd(a.data[keys[i]], b.data[keys[i]])
                                         ELSE a.data[keys[i]] = b.data[keys[i]]
         [] OTHER -> TRUE

\* BufferReader.readBuffer does not notice the end of the bytes.  Still a value that was cut
\* short is refused, or its last leaf is cut short and nothing else of it is lost.
CutLosesTheLastLeaf ==
    sent.kind = "value" /\ got.ok /\ ~whole /\ byteOffset = 0 /\ IsPlain(sent.content)
        => DifferAtEnd(sent.content, got.value)

ValuesOf(tx) ==
    (CASE tx.payload.payloadType = PayloadType.TokenTransfer -> <<tx.payload.recipient>>
       [] tx.payload.payloadType = PayloadType.ContractCall -> tx.payload.functionArgs
       [] OTHER -> <<>>)
    \o Concat([i \in DOMAIN tx.postConditions |->
                 IF "assetName" \in DOMAIN tx.postConditions[i]
                 THEN <<tx.postConditions[i].assetName>> ELSE <<>>])

HasUncompressedKey(condition) ==
    ~IsSingleSig(condition) /\ \E i \in DOMAIN condition.fields :
        condition.fields[i].kind = "pubkey" /\ Head(condition.fields[i].data) = 4

\* A spending condition that its reader refuses.
IsRefused(condition) ==
    IF IsSingleSig(condition)
    THEN condition.hashMode = AddressHashMode.P2WPKH
         /\ condition.keyEncoding = PubKeyEncoding.Uncompressed
    ELSE condition.hashMode = AddressHashMode.P2WSH
         /\ \E i \in DOMAIN condition.fields :
               condition.fields[i].kind = "signature"
               /\ condition.fields[i].pubKeyEncoding = PubKeyEncoding.Uncompressed

InRange(tx) == \A n \in Amounts(tx) : n \in 0..(2^(8 * AmountBytes) - 1)

\* A memo of full length loses its last byte, and one with a zero what follows it.
IsMemoKept(tx) ==
    "memo" \in DOMAIN tx.payload =>
        /\ Len(Utf8ToBytes(tx.payload.memo)) < MemoLength
        /\ 0 \notin Seqs!Range(tx.payload.memo)
        /\ ~IsMarked(tx.payload.memo)

\* The strings of a transaction that are written with their length, next to those of its values.
StringsOf(tx) ==
    LET named(record, names) == {record[name] : name \in names \cap DOMAIN record}
    IN  named(tx.payload, {"contractName", "functionName", "codeBody"})
        \cup UNION {named(tx.postConditions[i].principal, {"contractName"})
                    \cup UNION {named(info, {"contractName", "assetName"}) :
                                info \in named(tx.postConditions[i], {"assetInfo"})} :
                   i \in DOMAIN tx.postConditions}

\* Nothing of a transaction is lost on the wire but the encoding of its keys: its numbers fit,
\* its memo leaves a byte, no string of it begins with a byte order mark and its values are plain.
IsKept(tx) ==
    /\ InRange(tx) /\ IsMemoKept(tx)
    /\ \A string \in StringsOf(tx) : ~IsMarked(string)
    /\ \A i \in DOMAIN ValuesOf(tx) : IsPlain(ValuesOf(tx)[i])

\* A transaction is read as it was written (transaction.ts), just when all of it is kept, its keys
\* are compressed and its reader does not refuse it; out of a view of a larger buffer never.
TransactionIsRead ==
    /\ HasReadWhole("transaction") /\ hops = 0 =>
        (IsReadAsSent <=>
            /\ IsKept(sent.content)
            /\ \A i \in DOMAIN sent.content.conditions :
                  ~HasUncompressedKey(sent.content.conditions[i])
                  /\ ~IsRefused(sent.content.conditions[i]))
    /\ HasRead({"transaction"}) /\ byteOffset # 0 => ~IsReadAsSent

\* The bytes of a transaction are its id and what its signatures are over, so who reads it and
\* hands it on must write the same bytes.  Keys that had to be compressed stay so; a full
\* memo, a byte order mark, a non-ascii character and a number out of range break it (types.ts,
\* encoding-utf8.ts, intToBytes).
RelayKeepsBytes ==
    [][hops' # hops /\ sent.kind = "transaction" /\ IsKept(sent.content) => wire' = wire]_vars

\* A member of a Sized type that fits it.
FitsType(input, type) ==
    LET length == IF type.id = "buffer" THEN Len(Utf8ToBytes(input.text)) ELSE Len(input.text)
    IN  type.id \in Sized => length <= type.length

\* What parseToCV makes is of the type it is made for, and what encodeClarityValue makes unless it
\* is too long.  And arguments that validateContractCall takes before they are sent are of the
\* contract's types when it gets them, and those it refuses are not: a Clarity value keeps its
\* type on the wire.  But a utf8 string that begins with a byte order mark gets shorter, so that
\* it may fit where it did not.
ArgumentIsAccepted ==
    /\ sent.kind = "call" =>
          LET call == sent.content.call
              accepts(content) == ValidateContractCall(content.payload.functionArgs, call.types)
          IN  /\ accepts(sent.content) <=>
                    call.parses \/ \A i \in DOMAIN call.types : FitsType(call.inputs[i], call.types[i])
              /\ HasReadWhole("call") =>
                    /\ got.ok
                    /\ accepts(sent.content) => accepts(got.value)
                    /\ accepts(got.value) =>
                          \/ accepts(sent.content)
                          \/ \E i \in DOMAIN call.types :
                                ~IsUnmarked(sent.content.payload.functionArgs[i])
    /\ HasReadWhole("value") /\ got.ok =>
          \A i \in DOMAIN AbiTypes :
              /\ MatchType(sent.content, AbiTypes[i]) => MatchType(got.value, AbiTypes[i])
              /\ MatchType(got.value, AbiTypes[i]) /\ IsUnmarked(sent.content) =>
                    MatchType(sent.content, AbiTypes[i])

\* A structured message verifies just as itself and under names and versions of the same last
\* eight bits of each character; on a chain that is not the main one only if the chain is in the
\* domain that it is verified under, since the verifier is given no network (structured-message.ts).
\* In hex a message that is not plain may verify as none: never one with a utf8 string that begins
\* with a byte order mark.
StructuredIsVerified ==
    sent.kind = "structured" =>
        LET request == sent.content
            chains == <<request.domain.chainId, request.network, MainnetChain>>
            signed == chains[CHOOSE i \in 1..3 : chains[i] # Unset /\ \A j \in 1..(i - 1) : chains[j] = Unset]
            octets(domain) == <<AsciiToBytes(domain.name), AsciiToBytes(domain.version)>>
            agrees(domain) == /\ octets(domain) = octets(request.domain)
                              /\ signed = IF domain.chainId = Unset THEN MainnetChain ELSE domain.chainId
        IN  /\ HasReadWhole("structured") /\ (request.isHex => IsPlain(request.message)) =>
                  got.ok /\ (got.value <=> agrees(request.domain))
            /\ HasReadWhole("structured") /\ request.isHex /\ ~IsUnmarked(request.message) =>
                  ~(got.ok /\ got.value)
            /\ IsPlain(request.message) => \A i \in DOMAIN Structured :
                  LET other == Structured[i]
                      verdict == VerifiesStructured(wire, other.message, other.isHex, other.domain)
                  IN  IsConstructed(other.message) /\ IsPlain(other.message) =>
                        verdict.ok /\ (verdict.value <=>
                                          other.message = request.message /\ agrees(other.domain))
=============================================================================
