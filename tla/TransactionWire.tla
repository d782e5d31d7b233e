--------------------------- MODULE TransactionWire ---------------------------
(***************************************************************************)
(* The wire format of transactions: payload.ts, postcondition.ts, types.ts,  *)
(* keys.ts and the serializing halves of authorization.ts and transaction.ts *)
(* in packages/core/src/transactions.                                        *)
(*                                                                          *)
(* Enumerations are their numbers, as on the wire.  The sizes the code fixes *)
(* are constants, as in ClarityValues.                                       *)
(***************************************************************************)
EXTENDS ClarityValues

CONSTANTS
    AmountBytes,    \* 8
    MemoLength,     \* MEMO_MAX_LENGTH_BYTES: 34
    MaxCode,        \* 100000
    CoinbaseLength, \* COINBASE_BUFFER_LENGTH_BYTES: 32
    KeyBytes,       \* of a coordinate of a public key: 32
    SignatureBytes  \* RECOVERABLE_ECDSA_SIG_LENGTH_BYTES: 65

ASSUME TransactionWireAssumption ==
    {AmountBytes, MemoLength, MaxCode, CoinbaseLength, KeyBytes, SignatureBytes}
        \subseteq Nat \ {0}

TransactionVersion == [Mainnet |-> 0, Testnet |-> 128]
AuthType == [Standard |-> 4, Sponsored |-> 5]
AddressHashMode == [P2PKH |-> 0, P2SH |-> 1, P2WPKH |-> 2, P2WSH |-> 3]
PubKeyEncoding == [Compressed |-> 0, Uncompressed |-> 1]
PayloadType == [TokenTransfer |-> 0, SmartContract |-> 1, ContractCall |-> 2,
                PoisonMicroblock |-> 3, Coinbase |-> 4]
PostConditionType == [STX |-> 0, Fungible |-> 1, NonFungible |-> 2]
PrincipalID == [Origin |-> 1, Standard |-> 2, Contract |-> 3]

SingleSigModes == {AddressHashMode.P2PKH, AddressHashMode.P2WPKH}

-----------------------------------------------------------------------------
(* Memos.                                                                   *)

\* createMemoString
FitsMemo(string) == Len(Utf8ToBytes(string)) <= MemoLength

SerializeMemo(string) ==
    LET bytes == Utf8ToBytes(string)
    IN  bytes \o [i \in 1..(MemoLength - Len(bytes)) |-> 0]

\* deserializeMemoString ends the memo at the first zero.  Without one, indexOf gives -1
\* and slice(0, -1) drops the last byte.
ReadMemo(reader) ==
    Then(ReadBuffer(reader, MemoLength), LAMBDA bytes, rest :
      LET zeros == {i \in DOMAIN bytes : bytes[i] = 0}
          end == IF zeros = {} THEN Len(bytes) - 1
                 ELSE (CHOOSE i \in zeros : \A j \in zeros : i <= j) - 1
      IN  Read(BytesToUtf8(SubSeq(bytes, 1, end)), rest))

-----------------------------------------------------------------------------
(* Payloads.                                                                *)

\* createTokenTransferPayload, createContractCallPayload, createSmartContractPayload and
\* createCoinbasePayload accept what they are given.
IsPayload(payload) ==
    CASE payload.payloadType = PayloadType.TokenTransfer ->
            IsConstructed(payload.recipient) /\ FitsMemo(payload.memo)
      [] payload.payloadType = PayloadType.ContractCall ->
            /\ FitsLPString(payload.contractName, MaxString)
            /\ FitsLPString(payload.functionName, MaxString)
            /\ \A i \in DOMAIN payload.functionArgs : IsConstructed(payload.functionArgs[i])
      [] payload.payloadType = PayloadType.SmartContract ->
            /\ FitsLPString(payload.contractName, MaxString)
            /\ FitsLPString(payload.codeBody, MaxCode)
      [] payload.payloadType = PayloadType.PoisonMicroblock -> TRUE
      [] payload.payloadType = PayloadType.Coinbase ->
            Len(payload.coinbaseBuffer) = CoinbaseLength

SerializePayload(payload) == <<payload.payloadType>> \o
    CASE payload.payloadType = PayloadType.TokenTransfer ->
            SerializeCV(payload.recipient) \o IntToBytes(payload.amount, AmountBytes)
            \o SerializeMemo(payload.memo)
      [] payload.payloadType = PayloadType.ContractCall ->
            SerializeAddress(payload.contractAddress) \o SerializeLPString(payload.contractName, 1)
            \o SerializeLPString(payload.functionName, 1)
            \o IntToBytes(Len(payload.functionArgs), WordBytes)
            \o Concat([i \in DOMAIN payload.functionArgs |-> SerializeCV(payload.functionArgs[i])])
      [] payload.payloadType = PayloadType.SmartContract ->
            SerializeLPString(payload.contractName, 1)
            \o SerializeLPString(payload.codeBody, WordBytes)
      [] payload.payloadType = PayloadType.PoisonMicroblock -> <<>>
      [] payload.payloadType = PayloadType.Coinbase -> payload.coinbaseBuffer

DeserializePayload(reader) ==
    Then(ReadUInt8Enum(reader, Seqs!Range(PayloadType)), LAMBDA type, r :
      CASE type = PayloadType.TokenTransfer ->
              Then(DeserializeCV(r), LAMBDA recipient, r2 :
                Then(ReadBigInt(r2, AmountBytes), LAMBDA amount, r3 :
                  Then(ReadMemo(r3), LAMBDA memo, rest :
                    Read([payloadType |-> type, recipient |-> recipient, amount |-> amount,
                          memo |-> memo], rest))))
        [] type = PayloadType.ContractCall ->
              Then(ReadAddress(r), LAMBDA address, r2 :
                Then(ReadLPString(r2, 1, MaxString), LAMBDA contract, r3 :
                  Then(ReadLPString(r3, 1, MaxString), LAMBDA function, r4 :
                    Then(ReadCounted(r4, DeserializeCV), LAMBDA args, rest :
                      Read([payloadType |-> type, contractAddress |-> address,
                            contractName |-> contract, functionName |-> function,
                            functionArgs |-> args], rest)))))
        [] type = PayloadType.SmartContract ->
              Then(ReadLPString(r, 1, MaxString), LAMBDA contract, r2 :
                Then(ReadLPString(r2, WordBytes, MaxCode), LAMBDA code, rest :
                  Read([payloadType |-> type, contractName |-> contract, codeBody |-> code], rest)))
        [] type = PayloadType.PoisonMicroblock -> Read([payloadType |-> type], r)
        [] type = PayloadType.Coinbase ->
              Then(ReadBuffer(r, CoinbaseLength), LAMBDA bytes, rest :
                IF Len(bytes) # CoinbaseLength THEN Throws
                ELSE Read([payloadType |-> type, coinbaseBuffer |-> bytes], rest)))

-----------------------------------------------------------------------------
(* Post-conditions.                                                         *)

SerializePrincipal(principal) ==
    <<principal.prefix>> \o SerializeAddress(principal.address)
    \o IF principal.prefix = PrincipalID.Contract
       THEN SerializeLPString(principal.contractName, 1) ELSE <<>>

\* The prefix of the origin is read as if a contract followed it.
ReadPrincipal(reader) ==
    Then(ReadUInt8Enum(reader, Seqs!Range(PrincipalID)), LAMBDA prefix, r :
      Then(ReadAddress(r), LAMBDA address, r2 :
        IF prefix = PrincipalID.Standard
        THEN Read([prefix |-> prefix, address |-> address], r2)
        ELSE Then(ReadLPString(r2, 1, MaxString), LAMBDA name, rest :
               Read([prefix |-> prefix, address |-> address, contractName |-> name], rest))))

SerializeAssetInfo(info) ==
    SerializeAddress(info.address) \o SerializeLPString(info.contractName, 1)
    \o SerializeLPString(info.assetName, 1)

ReadAssetInfo(reader) ==
    Then(ReadAddress(reader), LAMBDA address, r :
      Then(ReadLPString(r, 1, MaxString), LAMBDA contract, r2 :
        Then(ReadLPString(r2, 1, MaxString), LAMBDA asset, rest :
          Read([address |-> address, contractName |-> contract, assetName |-> asset], rest))))

SerializePostCondition(condition) ==
    LET type == condition.conditionType
    IN  <<type>> \o SerializePrincipal(condition.principal)
        \o (IF type = PostConditionType.STX THEN <<>> ELSE SerializeAssetInfo(condition.assetInfo))
        \o (IF type = PostConditionType.NonFungible THEN SerializeCV(condition.assetName) ELSE <<>>)
        \o <<condition.conditionCode>>
        \o IF type = PostConditionType.NonFungible THEN <<>>
           ELSE IntToBytes(condition.amount, AmountBytes)

FungibleConditionCodes == 1..5
NonFungibleConditionCodes == {16, 17}

ReadFungibleCondition(reader, condition) ==
    Then(ReadUInt8Enum(reader, FungibleConditionCodes), LAMBDA code, r :
      Then(ReadBigInt(r, AmountBytes), LAMBDA amount, rest :
        Read(condition @@ [conditionCode |-> code, amount |-> amount], rest)))

DeserializePostCondition(reader) ==
    Then(ReadUInt8Enum(reader, Seqs!Range(PostConditionType)), LAMBDA type, r :
      Then(ReadPrincipal(r), LAMBDA principal, r2 :
        LET condition == [conditionType |-> type, principal |-> principal]
        IN  IF type = PostConditionType.STX THEN ReadFungibleCondition(r2, condition)
            ELSE Then(ReadAssetInfo(r2), LAMBDA info, r3 :
              IF type = PostConditionType.Fungible
              THEN ReadFungibleCondition(r3, condition @@ [assetInfo |-> info])
              ELSE Then(DeserializeCV(r3), LAMBDA name, r4 :
                     Then(ReadUInt8Enum(r4, NonFungibleConditionCodes), LAMBDA code, rest :
                       Read(condition @@ [assetInfo |-> info, assetName |-> name,
                                          conditionCode |-> code], rest))))))

\* serializeLPList and deserializeLPList, of post-conditions and of auth fields.
SerializeLPList(values, Serialize(_)) ==
    IntToBytes(Len(values), WordBytes) \o Concat([i \in DOMAIN values |-> Serialize(values[i])])

ReadLPList(reader, ReadOne(_)) ==
    Then(ReadLength(reader, WordBytes), LAMBDA count, r : ReadMany(r, count, ReadOne))
=============================================================================
