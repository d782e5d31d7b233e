--------------------------- MODULE TransactionAuth ---------------------------
(***************************************************************************)
(* Spending conditions, the chain of signature hashes and its verification: *)
(* packages/core/src/transactions/authorization.ts, the signing methods of   *)
(* transaction.ts and the constructor of TransactionSigner in signer.ts.     *)
(*                                                                          *)
(* Cryptography is symbolic.  A private key and its public key are one       *)
(* member of Keys, in one encoding: the compressed and the uncompressed      *)
(* public key of one private number are two members.  A hash is the sequence *)
(* of what was hashed into it, so that different inputs have different       *)
(* hashes.  A signature is its key and the hash it was made over; recovering *)
(* the key from it and another hash gives some other key, NoKey.  An address *)
(* is the ordered list of its keys and the number of signatures it requires. *)
(***************************************************************************)
EXTENDS Naturals, Sequences, FiniteSets

CONSTANTS
    Keys,
    Uncompressed,   \* the keys whose private key lacks the 01 suffix
    Twin,           \* the key of the same private number in the other encoding
    NoKey

ASSUME TransactionAuthAssumption ==
    /\ Uncompressed \subseteq Keys /\ NoKey \notin Keys
    /\ Twin \in [Keys -> Keys]
    /\ \A key \in Keys :
         /\ Twin[Twin[key]] = key
         /\ Twin[key] \in Uncompressed <=> key \notin Uncompressed

AuthTypes == {"Standard", "Sponsored"}

Kinds == {"single", "multi"}

Encoding(key) == IF key \in Uncompressed THEN "uncompressed" ELSE "compressed"

InEncoding(key, encoding) == IF Encoding(key) = encoding THEN key ELSE Twin[key]

compressPublicKey(key) == InEncoding(key, "compressed")

PubkeyField(key) == [kind |-> "pubkey", key |-> key, over |-> <<>>]

SignatureField(key, hash) == [kind |-> "signature", key |-> key, over |-> hash]

\* A spending condition.  The signature of a single-sig condition is its only
\* field; without one it holds the empty signature.
Condition(kind, keys, required, fee, nonce) ==
    [kind |-> kind, keys |-> keys, required |-> required, fee |-> fee, nonce |-> nonce,
     fields |-> <<>>]

SingleSig(key, fee, nonce) == Condition("single", <<key>>, 1, fee, nonce)

SignatureFields(cond) == {i \in DOMAIN cond.fields : cond.fields[i].kind = "signature"}

NumSigs(cond) == Cardinality(SignatureFields(cond))

-----------------------------------------------------------------------------
(* The chain of hashes.                                                     *)

\* The hash of the transaction with a cleared authorization: fee, nonce, fields
\* and the whole sponsor are not in it.
SignBegin(tx) == <<[authType |-> tx.authType, keys |-> tx.origin.keys,
                    required |-> tx.origin.required]>>

\* What each signature covers besides the hash before it.
Terms(authType, cond) == [authType |-> authType, fee |-> cond.fee, nonce |-> cond.nonce]

SigHashPreSign(hash, terms) == Append(hash, terms)

\* A signature is the same whatever the encoding of its key.
SigHashPostSign(hash, encoding, field) ==
    Append(hash, [encoding |-> encoding, number |-> compressPublicKey(field.key),
                  over |-> field.over])

\* The signature of key, as the field it becomes, and the hash after it.
NextSignature(hash, authType, cond, key) ==
    LET pre == SigHashPreSign(hash, Terms(authType, cond))
        field == SignatureField(key, pre)
    IN  [field |-> field, hash |-> SigHashPostSign(pre, Encoding(key), field)]

NextVerification(hash, terms, encoding, field) ==
    LET pre == SigHashPreSign(hash, terms)
    IN  [key |-> IF field.over = pre THEN field.key ELSE NoKey,
         hash |-> SigHashPostSign(pre, encoding, field)]

\* A signAndAppend that treats every condition as a multi-sig one.
AddSignatureAlways(cond, field) == [cond EXCEPT !.fields = Append(@, field)]

\* signAndAppend: a single-sig condition keeps the last signature only, and its
\* keyEncoding decides which of a signer's keys is recovered from it.
AddSignature(cond, field) ==
    [cond EXCEPT !.fields =
       IF cond.kind = "single"
       THEN <<[field EXCEPT !.key = InEncoding(@, Encoding(cond.keys[1]))]>>
       ELSE Append(@, field)]

\* What serialize and deserialize make of a transaction: the keys of its fields
\* are written compressed, whatever their encoding.
DeserializedField(field) ==
    IF field.kind = "pubkey" THEN PubkeyField(compressPublicKey(field.key)) ELSE field

Deserialized(tx) ==
    [tx EXCEPT !.origin.fields = [i \in DOMAIN @ |-> DeserializedField(@[i])]]

-----------------------------------------------------------------------------
(* Verification.  (A multi-sig account is of the hash mode P2SH, which takes *)
(* keys of either encoding.)                                                *)

\* One turn of the loop over the fields: the keys found so far and the hash.
VerifyField(terms, acc, field) ==
    IF field.kind = "pubkey"
    THEN [acc EXCEPT !.keys = Append(@, field.key)]
    ELSE LET next == NextVerification(acc.hash, terms, Encoding(field.key), field)
         IN  [keys |-> Append(acc.keys, next.key), hash |-> next.hash]

Verification == INSTANCE SequenceFold WITH Step <- VerifyField

\* verify, over the fields of a condition: the keys found and the last hash.
VerifyFields(cond, hash, authType) ==
    Verification!Fold(Terms(authType, cond), [keys |-> <<>>, hash |-> hash], cond.fields)

\* verify does not throw.
Verifies(cond, hash, authType) ==
    /\ NumSigs(cond) = cond.required
    /\ VerifyFields(cond, hash, authType).keys = cond.keys

VerifiesOrigin(tx) == Verifies(tx.origin, SignBegin(tx), "Standard")

\* The hash verifyOrigin returns.
OriginHash(tx) == VerifyFields(tx.origin, SignBegin(tx), "Standard").hash

-----------------------------------------------------------------------------
(* new TransactionSigner(transaction).                                      *)

\* A check that is off by one.
OversignedByTwo(cond) == cond.kind = "multi" /\ NumSigs(cond) > cond.required

Oversigned(cond) == cond.kind = "multi" /\ NumSigs(cond) >= cond.required

\* The constructor throws otherwise.
CanConstruct(tx) == ~Oversigned(tx.origin)

\* A constructor that starts from the bare transaction.
ReconstructNothing(tx) == SignBegin(tx)

\* One turn of its loop over the fields, which takes each key for compressed.
ReplayField(terms, hash, field) ==
    IF field.kind = "signature" THEN NextVerification(hash, terms, "compressed", field).hash
                                ELSE hash

Replay == INSTANCE SequenceFold WITH Step <- ReplayField

\* The sigHash reconstructed from the signatures a multi-sig origin has.
ReconstructSigHash(tx) ==
    IF tx.origin.kind = "single"
    THEN SignBegin(tx)
    ELSE Replay!Fold(Terms(tx.authType, tx.origin), SignBegin(tx), tx.origin.fields)

-----------------------------------------------------------------------------
(* The transaction's setters.                                               *)

\* The fee is the sponsor's when there is one.
SetFee(tx, fee) ==
    IF tx.authType = "Standard" THEN [tx EXCEPT !.origin.fee = fee]
                                ELSE [tx EXCEPT !.sponsor.fee = fee]

SetNonce(tx, nonce) == [tx EXCEPT !.origin.nonce = nonce]

SetSponsor(tx, cond) == [tx EXCEPT !.sponsor = cond]

\* createSponsoredAuth's sponsor, until there is one.
NoSponsor == SingleSig(NoKey, 0, 0)

-----------------------------------------------------------------------------
(* createSponsorSigner, which sets the sponsor again, verifies the origin and *)
(* constructs a signer; and signSponsor.                                    *)

\* Neither setSponsor, verifyOrigin nor the constructor throws.
CanSponsor(tx) == tx.authType = "Sponsored" /\ VerifiesOrigin(tx) /\ CanConstruct(tx)

\* A sponsor that signs over the bare transaction, not over the origin's signatures.
SponsoredOverBegin(tx, key, fee, nonce) ==
    LET cond == SingleSig(key, fee, nonce)
        next == NextSignature(SignBegin(tx), "Sponsored", cond, key)
    IN  SetSponsor(tx, AddSignature(cond, next.field))

Sponsored(tx, key, fee, nonce) ==
    LET cond == SingleSig(key, fee, nonce)
        next == NextSignature(OriginHash(tx), "Sponsored", cond, key)
    IN  SetSponsor(tx, AddSignature(cond, next.field))

-----------------------------------------------------------------------------
(* Types.                                                                   *)

IsField(field) ==
    /\ DOMAIN field = {"kind", "key", "over"}
    /\ field.kind \in {"pubkey", "signature"}
    /\ field.key \in Keys

IsSequence(s) == s \in Seq({s[i] : i \in DOMAIN s})

IsCondition(cond) ==
    /\ DOMAIN cond = {"kind", "keys", "required", "fee", "nonce", "fields"}
    /\ cond.kind \in Kinds
    /\ cond.keys \in Seq(Keys \cup {NoKey})
    /\ cond.required \in Nat /\ cond.fee \in Nat /\ cond.nonce \in Nat
    /\ IsSequence(cond.fields)
    /\ \A i \in DOMAIN cond.fields : IsField(cond.fields[i])
    /\ cond.kind = "single" => Len(cond.fields) <= 1

IsTransaction(tx) ==
    /\ DOMAIN tx = {"authType", "origin", "sponsor"}
    /\ tx.authType \in AuthTypes
    /\ IsCondition(tx.origin)
    /\ IsCondition(tx.sponsor)
=============================================================================
