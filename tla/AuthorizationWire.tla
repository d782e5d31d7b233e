-------------------------- MODULE AuthorizationWire --------------------------
(***************************************************************************)
(* The wire format of authorizations and of whole transactions:              *)
(* authorization.ts, keys.ts and transaction.ts in                           *)
(* packages/core/src/transactions.                                          *)
(*                                                                          *)
(* A public key is its bytes: 2 or 3 and x, or 4, x and y.  A signature is   *)
(* bytes, the first of which tells the x of its key.                         *)
(***************************************************************************)
EXTENDS TransactionWire

AnchorModes == 1..3
PostConditionModes == {1, 2}

-----------------------------------------------------------------------------
(* Keys.                                                                    *)

IsCompressed(key) == Head(key) # 4

CompressPublicKey(key) ==
    IF IsCompressed(key) THEN key
    ELSE <<2 + (key[Len(key)] % 2)>> \o SubSeq(key, 2, KeyBytes + 1)

ReadPublicKey(reader) ==
    Then(ReadUInt(reader, 1), LAMBDA id, r :
      Then(ReadBuffer(r, IF id = 4 THEN 2 * KeyBytes ELSE KeyBytes), LAMBDA bytes, rest :
        Read(<<id>> \o bytes, rest)))

\* deserializeMessageSignature, whose createMessageSignature checks the length.
ReadSignature(reader) ==
    Then(ReadBuffer(reader, SignatureBytes), LAMBDA bytes, rest :
      IF Len(bytes) # SignatureBytes THEN Throws ELSE Read(bytes, rest))

-----------------------------------------------------------------------------
(* Auth fields.                                                             *)

AuthFieldType(contents, encoding) ==
    (IF contents = "signature" THEN 2 ELSE 0) + encoding

\* serializeTransactionAuthField compresses a public key that is not.
SerializeAuthField(field) ==
    <<AuthFieldType(field.kind, field.pubKeyEncoding)>> \o
    IF field.kind = "signature" THEN field.data ELSE CompressPublicKey(field.data)

\* A reader that takes every key for compressed.
ReadAuthFieldCompressed(reader) ==
    Then(ReadUInt8Enum(reader, 0..3), LAMBDA type, r :
      IF type < 2
      THEN Then(ReadPublicKey(r), LAMBDA data, rest :
             Read([kind |-> "pubkey", pubKeyEncoding |-> 0, data |-> data], rest))
      ELSE Then(ReadSignature(r), LAMBDA data, rest :
             Read([kind |-> "signature", pubKeyEncoding |-> 0, data |-> data], rest)))

ReadAuthField(reader) ==
    Then(ReadUInt8Enum(reader, 0..3), LAMBDA type, r :
      LET field(kind) == [kind |-> kind, pubKeyEncoding |-> type % 2]
      IN  IF type < 2
          THEN Then(ReadPublicKey(r), LAMBDA data, rest :
                 Read(field("pubkey") @@ [data |-> data], rest))
          ELSE Then(ReadSignature(r), LAMBDA data, rest :
                 Read(field("signature") @@ [data |-> data], rest)))

-----------------------------------------------------------------------------
(* Spending conditions.                                                     *)

IsSingleSig(condition) == "signature" \in DOMAIN condition

\* A serialization whose fee comes before its nonce.
SerializeConditionFeeFirst(condition) ==
    <<condition.hashMode>> \o condition.signer
    \o IntToBytes(condition.fee, AmountBytes) \o IntToBytes(condition.nonce, AmountBytes)
    \o IF IsSingleSig(condition)
       THEN <<condition.keyEncoding>> \o condition.signature
       ELSE SerializeLPList(condition.fields, SerializeAuthField)
            \o IntToBytes(condition.signaturesRequired, 2)

SerializeCondition(condition) ==
    <<condition.hashMode>> \o condition.signer
    \o IntToBytes(condition.nonce, AmountBytes) \o IntToBytes(condition.fee, AmountBytes)
    \o IF IsSingleSig(condition)
       THEN <<condition.keyEncoding>> \o condition.signature
       ELSE SerializeLPList(condition.fields, SerializeAuthField)
            \o IntToBytes(condition.signaturesRequired, 2)

ReadSingleSig(reader, condition) ==
    Then(ReadUInt8Enum(reader, Seqs!Range(PubKeyEncoding)), LAMBDA encoding, r :
      IF condition.hashMode = AddressHashMode.P2WPKH /\ encoding # PubKeyEncoding.Compressed
      THEN Throws
      ELSE Then(ReadSignature(r), LAMBDA signature, rest :
             Read(condition @@ [keyEncoding |-> encoding, signature |-> signature], rest)))

HaveUncompressed(fields) == \E i \in DOMAIN fields :
    IF fields[i].kind = "pubkey" THEN ~IsCompressed(fields[i].data)
    ELSE fields[i].pubKeyEncoding = PubKeyEncoding.Uncompressed

\* The number of signatures is not compared with signaturesRequired, so that a transaction
\* may be handed on before it has them all.
ReadMultiSig(reader, condition) ==
    Then(ReadLPList(reader, ReadAuthField), LAMBDA fields, r :
      Then(ReadUInt(r, 2), LAMBDA required, rest :
        IF HaveUncompressed(fields) /\ condition.hashMode = AddressHashMode.P2WSH THEN Throws
        ELSE Read(condition @@ [fields |-> fields, signaturesRequired |-> required], rest)))

ReadCondition(reader) ==
    Then(ReadUInt8Enum(reader, Seqs!Range(AddressHashMode)), LAMBDA mode, r :
      Then(ReadBuffer(r, HashBytes), LAMBDA signer, r2 :
        Then(ReadBigInt(r2, AmountBytes), LAMBDA nonce, r3 :
          Then(ReadBigInt(r3, AmountBytes), LAMBDA fee, r4 :
            LET condition == [hashMode |-> mode, signer |-> signer, nonce |-> nonce, fee |-> fee]
            IN  IF mode \in SingleSigModes THEN ReadSingleSig(r4, condition)
                                           ELSE ReadMultiSig(r4, condition)))))

-----------------------------------------------------------------------------
(* Transactions.                                                            *)

\* A transaction has one spending condition, or that of a sponsor as well.
SerializeAuthorization(tx) ==
    <<tx.authType>> \o Concat([i \in DOMAIN tx.conditions |-> SerializeCondition(tx.conditions[i])])

ReadAuthorization(reader) ==
    Then(ReadUInt8Enum(reader, Seqs!Range(AuthType)), LAMBDA type, r :
      Then(ReadMany(r, IF type = AuthType.Standard THEN 1 ELSE 2, ReadCondition),
           LAMBDA conditions, rest :
             Read([authType |-> type, conditions |-> conditions], rest)))

SerializeTransaction(tx) ==
    <<tx.version>> \o IntToBytes(tx.chainId, WordBytes) \o SerializeAuthorization(tx)
    \o <<tx.anchorMode, tx.postConditionMode>>
    \o SerializeLPList(tx.postConditions, SerializePostCondition)
    \o SerializePayload(tx.payload)

DeserializeTransaction(reader) ==
    Then(ReadUInt8Enum(reader, Seqs!Range(TransactionVersion)), LAMBDA version, r :
      Then(ReadUInt(r, WordBytes), LAMBDA chainId, r2 :
        Then(ReadAuthorization(r2), LAMBDA auth, r3 :
          Then(ReadUInt8Enum(r3, AnchorModes), LAMBDA anchor, r4 :
            Then(ReadUInt8Enum(r4, PostConditionModes), LAMBDA mode, r5 :
              Then(ReadLPList(r5, DeserializePostCondition), LAMBDA conditions, r6 :
                Then(DeserializePayload(r6), LAMBDA payload, rest :
                  Read(auth @@ [version |-> version, chainId |-> chainId,
                                anchorMode |-> anchor, postConditionMode |-> mode,
                                postConditions |-> conditions, payload |-> payload], rest))))))))

\* The numbers that go through intToBytes, whose range nothing checks.
Amounts(tx) ==
    {tx.conditions[i].nonce : i \in DOMAIN tx.conditions}
    \cup {tx.conditions[i].fee : i \in DOMAIN tx.conditions}
    \cup {tx.postConditions[i].amount :
            i \in {j \in DOMAIN tx.postConditions : "amount" \in DOMAIN tx.postConditions[j]}}
    \cup IF "amount" \in DOMAIN tx.payload THEN {tx.payload.amount} ELSE {}

\* serialize does not throw.
CanSerialize(tx) == \A n \in Amounts(tx) : HasBytes(n, AmountBytes)
=============================================================================
