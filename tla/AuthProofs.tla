----------------------------- MODULE AuthProofs -----------------------------
(***************************************************************************)
(* What TransactionAuth's operators do, for any keys, fields and hashes: the *)
(* conditions and transactions they make are well formed, and the loops of   *)
(* verification and reconstruction over the fields do what their last turn   *)
(* says.  The proofs about co-signing and about the builders rest on it.     *)
(***************************************************************************)
EXTENDS TransactionAuth, FiniteSetTheorems, SequenceTheorems, TLAPS

-----------------------------------------------------------------------------
(* Conditions and the fields added to them.                                 *)

LEMMA FunctionIsSequence ==
    ASSUME NEW n \in Nat, NEW S, NEW f \in [1..n -> S]
    PROVE  f \in Seq(S)
BY SeqDef

LEMMA AppendedFields ==
    ASSUME NEW cond, IsCondition(cond), NEW field, IsField(field),
           NEW fs, fs = Append(cond.fields, field)
    PROVE  /\ IsSequence(fs)
           /\ \A i \in DOMAIN fs : IsField(fs[i])
           /\ DOMAIN fs = 1..(Len(cond.fields) + 1)
           /\ Len(cond.fields) \in Nat
           /\ DOMAIN cond.fields = 1..Len(cond.fields)
           /\ \A i \in DOMAIN cond.fields : fs[i] = cond.fields[i]
           /\ fs[Len(cond.fields) + 1] = field
<1> DEFINE S == {cond.fields[i] : i \in DOMAIN cond.fields} \cup {field}
           n == Len(cond.fields)
<1>1. cond.fields \in Seq(S)
  BY SeqMonotonic DEF IsCondition, IsSequence
<1>2. /\ n \in Nat
      /\ DOMAIN cond.fields = 1..n
      /\ DOMAIN fs = 1..(n + 1)
      /\ \A i \in 1..n : fs[i] = cond.fields[i]
      /\ fs[n + 1] = field
      /\ fs \in Seq(S)
      /\ Len(fs) = n + 1
  BY <1>1
<1>3. \A i \in 1..(n + 1) : IsField(fs[i])
  <2>1. \A i \in 1..n : IsField(fs[i])
    BY <1>2 DEF IsCondition
  <2> QED
    BY <1>2, <2>1
<1>4. IsSequence(fs)
  <2>1. fs \in [1..(n + 1) -> S]
    BY <1>2, LenProperties
  <2>2. fs \in [1..(n + 1) -> {fs[i] : i \in DOMAIN fs}]
    BY <1>2, <2>1
  <2>3. n + 1 \in Nat
    BY <1>2
  <2> QED
    BY <2>2, <2>3, FunctionIsSequence DEF IsSequence
<1> QED
  BY <1>2, <1>3, <1>4

LEMMA FieldCount ==
    ASSUME NEW cond, IsCondition(cond)
    PROVE  /\ IsFiniteSet(SignatureFields(cond))
           /\ NumSigs(cond) \in Nat
           /\ SignatureFields(cond) \subseteq 1..Len(cond.fields)
           /\ Len(cond.fields) \in Nat
<1>1. Len(cond.fields) \in Nat /\ DOMAIN cond.fields = 1..Len(cond.fields)
  BY LenProperties DEF IsCondition, IsSequence
<1>2. SignatureFields(cond) \subseteq 1..Len(cond.fields)
  BY <1>1 DEF SignatureFields
<1>3. IsFiniteSet(1..Len(cond.fields))
  <2>1. 1 \in Int /\ Len(cond.fields) \in Int
    BY <1>1
  <2> QED
    BY <2>1, FS_Interval, Zenon
<1>4. IsFiniteSet(SignatureFields(cond))
  BY <1>2, <1>3, FS_Subset
<1> QED
  BY <1>1, <1>2, <1>4, FS_CardinalityType DEF NumSigs

\* What a field appended to a condition does to its count of signatures.
LEMMA AppendedCount ==
    ASSUME NEW cond, IsCondition(cond), NEW field, IsField(field),
           NEW next, next = [cond EXCEPT !.fields = Append(@, field)]
    PROVE  /\ NumSigs(next) = IF field.kind = "signature" THEN NumSigs(cond) + 1 ELSE NumSigs(cond)
           /\ IsSequence(next.fields)
           /\ \A i \in DOMAIN next.fields : IsField(next.fields[i])
<1> DEFINE n == Len(cond.fields)
<1>1. next.fields = Append(cond.fields, field)
  BY DEF IsCondition
<1>2. /\ DOMAIN next.fields = 1..(n + 1)
      /\ n \in Nat
      /\ DOMAIN cond.fields = 1..n
      /\ \A i \in 1..n : next.fields[i] = cond.fields[i]
      /\ next.fields[n + 1] = field
  BY <1>1, AppendedFields
<1>0. IsSequence(next.fields) /\ \A i \in DOMAIN next.fields : IsField(next.fields[i])
  <2>1. ASSUME NEW fs, fs = Append(cond.fields, field)
        PROVE  IsSequence(fs)
    BY <2>1, AppendedFields
  <2>2. ASSUME NEW fs, fs = Append(cond.fields, field)
        PROVE  \A i \in DOMAIN fs : IsField(fs[i])
    BY <2>2, AppendedFields
  <2>3. IsSequence(next.fields)
    BY ONLY <2>1, <1>1
  <2>4. \A i \in DOMAIN next.fields : IsField(next.fields[i])
    BY ONLY <2>2, <1>1
  <2> QED
    BY <2>3, <2>4
<1>3. CASE field.kind = "signature"
  <2>1. SignatureFields(next) = SignatureFields(cond) \cup {n + 1}
    BY <1>2, <1>3 DEF SignatureFields
  <2>2. n + 1 \notin SignatureFields(cond)
    BY <1>2, FieldCount
  <2> QED
    BY <1>3, <2>1, <2>2, FieldCount, FS_AddElement, <1>0 DEF NumSigs
<1>4. CASE field.kind # "signature"
  <2>1. SignatureFields(next) = SignatureFields(cond)
    BY <1>2, <1>4 DEF SignatureFields
  <2> QED
    BY <1>0, <1>4, <2>1 DEF NumSigs
<1> QED
  BY <1>3, <1>4

\* A condition after a public key was appended to it.
LEMMA AppendedCondition ==
    ASSUME NEW cond, IsCondition(cond), cond.kind = "multi", NEW field, IsField(field),
           NEW next, next = [cond EXCEPT !.fields = Append(@, field)]
    PROVE  IsCondition(next) /\ next.kind = "multi" /\ next.required = cond.required
<1>1. next.fields = Append(cond.fields, field)
  BY DEF IsCondition
<1>2. /\ IsSequence(next.fields)
      /\ \A i \in DOMAIN next.fields : IsField(next.fields[i])
  BY AppendedCount
<1>3. /\ DOMAIN next = DOMAIN cond
      /\ next.kind = cond.kind /\ next.keys = cond.keys /\ next.required = cond.required
      /\ next.fee = cond.fee /\ next.nonce = cond.nonce
  BY DEF IsCondition
<1> QED
  BY <1>2, <1>3 DEF IsCondition

\* The key of a number in an encoding is a key.
LEMMA InEncodingType ==
    ASSUME NEW key \in Keys, NEW encoding
    PROVE  InEncoding(key, encoding) \in Keys
BY TransactionAuthAssumption DEF InEncoding

\* The field of a single-sig condition that is signed: of one number with the signer's.
OnlyField(cond, field) == [field EXCEPT !.key = InEncoding(@, Encoding(cond.keys[1]))]

LEMMA SingleField ==
    ASSUME NEW cond, IsCondition(cond), cond.kind = "single",
           NEW field, IsField(field), field.kind = "signature"
    PROVE  /\ AddSignature(cond, field) = [cond EXCEPT !.fields = <<OnlyField(cond, field)>>]
           /\ IsField(OnlyField(cond, field))
           /\ OnlyField(cond, field).kind = "signature"
           /\ OnlyField(cond, field).over = field.over
<1> DEFINE key == InEncoding(field.key, Encoding(cond.keys[1]))
           only == [field EXCEPT !.key = key]
<1>0. OnlyField(cond, field) = only
  BY DEF OnlyField, IsField
<1>1. AddSignature(cond, field) = [cond EXCEPT !.fields = <<only>>]
  BY <1>0 DEF AddSignature, OnlyField
<1>2. field.key \in Keys /\ key \in Keys
  BY InEncodingType DEF IsField
<1>3. IsField(only) /\ only.kind = "signature" /\ only.over = field.over /\ only.key = key
  <2> HIDE DEF key
  <2> QED
    BY <1>2 DEF IsField
<1> HIDE DEF only
<1> QED
  BY <1>0, <1>1, <1>3

\* It is the signer's own field when the account's key signed.
LEMMA SingleFieldOwn ==
    ASSUME NEW cond, NEW key \in Keys, cond.keys = <<key>>,
           NEW field, field = SignatureField(key, field.over)
    PROVE  OnlyField(cond, field) = field
<1>1. field.key = key /\ cond.keys[1] = key
  BY DEF SignatureField
<1>2. InEncoding(field.key, Encoding(cond.keys[1])) = field.key
  BY <1>1 DEF InEncoding
<1>3. OnlyField(cond, field) = [field EXCEPT !.key = field.key]
  BY <1>1, <1>2 DEF OnlyField, SignatureField
<1> QED
  BY <1>3 DEF SignatureField

\* A condition after it was signed.
LEMMA SignedCondition ==
    ASSUME NEW cond, IsCondition(cond), NEW field, IsField(field), field.kind = "signature"
    PROVE  /\ IsCondition(AddSignature(cond, field))
           /\ AddSignature(cond, field).kind = cond.kind
           /\ AddSignature(cond, field).required = cond.required
           /\ cond.kind = "multi" => NumSigs(AddSignature(cond, field)) = NumSigs(cond) + 1
<1> DEFINE next == AddSignature(cond, field)
<1>1. CASE cond.kind = "multi"
  <2>1. next = [cond EXCEPT !.fields = Append(@, field)]
    BY <1>1 DEF AddSignature
  <2>2. IsCondition(next) /\ next.kind = "multi" /\ next.required = cond.required
    BY <1>1, <2>1, AppendedCondition
  <2>3. NumSigs(next) = NumSigs(cond) + 1
    BY <2>1, AppendedCount
  <2> QED
    BY <1>1, <2>2, <2>3
<1>2. CASE cond.kind = "single"
  <2>1. PICK only : next = [cond EXCEPT !.fields = <<only>>] /\ IsField(only)
    BY <1>2, SingleField
  <2>2. /\ DOMAIN next = DOMAIN cond
        /\ next.kind = cond.kind /\ next.keys = cond.keys /\ next.required = cond.required
        /\ next.fee = cond.fee /\ next.nonce = cond.nonce
        /\ next.fields = <<only>>
    BY <2>1 DEF IsCondition
  <2>3. /\ IsSequence(next.fields)
        /\ \A i \in DOMAIN next.fields : IsField(next.fields[i])
        /\ Len(next.fields) = 1
    <3>1. DOMAIN <<only>> = {1} /\ <<only>>[1] = only /\ Len(<<only>>) = 1
      OBVIOUS
    <3>2. {<<only>>[i] : i \in DOMAIN <<only>>} = {only}
      BY <3>1
    <3> QED
      BY <2>1, <2>2, <3>1, <3>2 DEF IsSequence
  <2> QED
    BY <1>2, <2>2, <2>3 DEF IsCondition
<1> QED
  BY <1>1, <1>2 DEF IsCondition, Kinds

\* A new condition, without fields.
LEMMA NewCondition ==
    ASSUME NEW kind \in Kinds, NEW keys \in Seq(Keys \cup {NoKey}), NEW required \in Nat,
           NEW fee \in Nat, NEW nonce \in Nat
    PROVE  /\ IsCondition(Condition(kind, keys, required, fee, nonce))
           /\ NumSigs(Condition(kind, keys, required, fee, nonce)) = 0
<1> DEFINE cond == Condition(kind, keys, required, fee, nonce)
<1>1. cond.fields = <<>> /\ DOMAIN cond.fields = {} /\ Len(cond.fields) = 0
  BY DEF Condition
<1>2. IsCondition(cond)
  <2>1. IsSequence(cond.fields)
    BY <1>1 DEF IsSequence
  <2> QED
    BY <1>1, <2>1 DEF Condition, IsCondition
<1>3. SignatureFields(cond) = {}
  BY <1>1 DEF SignatureFields
<1> QED
  BY <1>2, <1>3, FS_EmptySet DEF NumSigs

-----------------------------------------------------------------------------
(* Transactions.                                                            *)

\* A transaction whose origin condition is replaced.
LEMMA OriginReplaced ==
    ASSUME NEW tx, IsTransaction(tx), NEW cond, IsCondition(cond),
           NEW next, next = [tx EXCEPT !.origin = cond]
    PROVE  IsTransaction(next) /\ next.origin = cond
<1>1. /\ DOMAIN next = DOMAIN tx
      /\ next.authType = tx.authType /\ next.sponsor = tx.sponsor /\ next.origin = cond
  BY DEF IsTransaction
<1> QED
  BY <1>1 DEF IsTransaction

\* A transaction whose sponsor condition is replaced.
LEMMA SponsorReplaced ==
    ASSUME NEW tx, IsTransaction(tx), NEW cond, IsCondition(cond),
           NEW next, next = [tx EXCEPT !.sponsor = cond]
    PROVE  IsTransaction(next) /\ next.origin = tx.origin
<1>1. /\ DOMAIN next = DOMAIN tx
      /\ next.authType = tx.authType /\ next.origin = tx.origin /\ next.sponsor = cond
  BY DEF IsTransaction
<1> QED
  BY <1>1 DEF IsTransaction

\* A condition with another fee or nonce has the fields it had.
LEMMA Repriced ==
    ASSUME NEW cond, IsCondition(cond), NEW v \in Nat,
           NEW next, next = [cond EXCEPT !.fee = v] \/ next = [cond EXCEPT !.nonce = v]
    PROVE  /\ IsCondition(next)
           /\ next.kind = cond.kind /\ next.required = cond.required
           /\ NumSigs(next) = NumSigs(cond)
<1>1. /\ DOMAIN next = DOMAIN cond
      /\ next.kind = cond.kind /\ next.keys = cond.keys /\ next.required = cond.required
      /\ next.fields = cond.fields
  BY DEF IsCondition
<1>2. next.fee \in Nat /\ next.nonce \in Nat
  BY DEF IsCondition
<1>3. IsCondition(next)
  BY <1>1, <1>2 DEF IsCondition
<1> QED
  BY <1>1, <1>3 DEF NumSigs, SignatureFields

\* setFee changes no signature.
LEMMA FeeSet ==
    ASSUME NEW tx, IsTransaction(tx), NEW fee \in Nat
    PROVE  /\ IsTransaction(SetFee(tx, fee))
           /\ SetFee(tx, fee).origin.kind = tx.origin.kind
           /\ SetFee(tx, fee).origin.required = tx.origin.required
           /\ NumSigs(SetFee(tx, fee).origin) = NumSigs(tx.origin)
<1>1. CASE tx.authType = "Standard"
  <2> DEFINE cond == [tx.origin EXCEPT !.fee = fee]
  <2>1. /\ IsCondition(cond) /\ cond.kind = tx.origin.kind
        /\ cond.required = tx.origin.required /\ NumSigs(cond) = NumSigs(tx.origin)
    BY Repriced DEF IsTransaction
  <2>2. SetFee(tx, fee) = [tx EXCEPT !.origin = cond]
    BY <1>1 DEF SetFee
  <2>3. IsTransaction(SetFee(tx, fee)) /\ SetFee(tx, fee).origin = cond
    BY ONLY <2>1, <2>2, OriginReplaced, IsTransaction(tx)
  <2> QED
    BY <2>1, <2>3
<1>2. CASE tx.authType # "Standard"
  <2> DEFINE cond == [tx.sponsor EXCEPT !.fee = fee]
  <2>1. IsCondition(cond)
    BY Repriced DEF IsTransaction
  <2>2. SetFee(tx, fee) = [tx EXCEPT !.sponsor = cond]
    BY <1>2 DEF SetFee
  <2>3. IsTransaction(SetFee(tx, fee)) /\ SetFee(tx, fee).origin = tx.origin
    BY ONLY <2>1, <2>2, SponsorReplaced, IsTransaction(tx)
  <2> QED
    BY <2>3
<1> QED
  BY <1>1, <1>2

\* setNonce changes no signature.
LEMMA NonceSet ==
    ASSUME NEW tx, IsTransaction(tx), NEW nonce \in Nat
    PROVE  /\ IsTransaction(SetNonce(tx, nonce))
           /\ SetNonce(tx, nonce).origin.kind = tx.origin.kind
           /\ SetNonce(tx, nonce).origin.required = tx.origin.required
           /\ NumSigs(SetNonce(tx, nonce).origin) = NumSigs(tx.origin)
<1> DEFINE cond == [tx.origin EXCEPT !.nonce = nonce]
<1>1. /\ IsCondition(cond) /\ cond.kind = tx.origin.kind
      /\ cond.required = tx.origin.required /\ NumSigs(cond) = NumSigs(tx.origin)
  BY Repriced DEF IsTransaction
<1>2. SetNonce(tx, nonce) = [tx EXCEPT !.origin = cond]
  BY DEF SetNonce
<1>3. IsTransaction(SetNonce(tx, nonce)) /\ SetNonce(tx, nonce).origin = cond
  BY ONLY <1>1, <1>2, OriginReplaced, IsTransaction(tx)
<1> QED
  BY <1>1, <1>3

\* The signature a signOrigin call will add.
LEMMA NewResult ==
    ASSUME NEW hash, NEW authType, NEW cond, NEW key \in Keys
    PROVE  /\ IsField(NextSignature(hash, authType, cond, key).field)
           /\ NextSignature(hash, authType, cond, key).field.kind = "signature"
BY DEF NextSignature, SignatureField, IsField

\* A sponsor leaves the origin alone.
LEMMA SponsoredTransaction ==
    ASSUME NEW tx, IsTransaction(tx), NEW key \in Keys, NEW fee \in Nat, NEW nonce \in Nat
    PROVE  /\ IsTransaction(Sponsored(tx, key, fee, nonce))
           /\ Sponsored(tx, key, fee, nonce).origin = tx.origin
<1> DEFINE cond == SingleSig(key, fee, nonce)
           field == NextSignature(OriginHash(tx), "Sponsored", cond, key).field
<1>2. IsCondition(cond)
  <2>1. <<key>> \in Seq(Keys \cup {NoKey})
    OBVIOUS
  <2>2. "single" \in Kinds /\ 1 \in Nat
    BY DEF Kinds
  <2> QED
    BY <2>1, <2>2, NewCondition DEF SingleSig
<1>3. IsField(field) /\ field.kind = "signature"
  BY NewResult
<1>4. IsCondition(AddSignature(cond, field))
  BY <1>2, <1>3, SignedCondition
<1>5. Sponsored(tx, key, fee, nonce) = [tx EXCEPT !.sponsor = AddSignature(cond, field)]
  BY DEF Sponsored, SetSponsor
<1> QED
  BY ONLY <1>4, <1>5, SponsorReplaced, IsTransaction(tx)

-----------------------------------------------------------------------------
(* Verification.                                                            *)

KeysIn(fields) == [i \in DOMAIN fields |-> fields[i].key]

FieldKeys(cond) == KeysIn(cond.fields)

\* What the loop has accumulated after n fields.
IsFound(found, n) ==
    /\ found = [keys |-> found.keys, hash |-> found.hash]
    /\ found.keys \in Seq(Keys \cup {NoKey}) /\ Len(found.keys) = n

\* One turn over a public key.
LEMMA PubkeyFound ==
    ASSUME NEW terms, NEW found, found = [keys |-> found.keys, hash |-> found.hash],
           NEW field, IsField(field), field.kind = "pubkey"
    PROVE  /\ VerifyField(terms, found, field).keys = Append(found.keys, field.key)
           /\ VerifyField(terms, found, field).hash = found.hash
BY DEF VerifyField

\* One turn over a signature of the hash the loop reached.
LEMMA SignatureFound ==
    ASSUME NEW terms, NEW found, NEW field, IsField(field), field.kind = "signature",
           field.over = SigHashPreSign(found.hash, terms)
    PROVE  /\ VerifyField(terms, found, field).keys = Append(found.keys, field.key)
           /\ VerifyField(terms, found, field).hash =
                  SigHashPostSign(field.over, Encoding(field.key), field)
BY DEF VerifyField, NextVerification

\* Each turn finds one more key.
LEMMA FoundOne ==
    ASSUME NEW terms, NEW found, NEW n \in Nat, IsFound(found, n), NEW field, IsField(field)
    PROVE  IsFound(VerifyField(terms, found, field), n + 1)
<1> DEFINE next == VerifyField(terms, found, field)
<1>1. PICK key, hash : /\ key \in Keys \cup {NoKey}
                       /\ next = [keys |-> Append(found.keys, key), hash |-> hash]
  <2>1. CASE field.kind = "pubkey"
    <3>1. next = [keys |-> Append(found.keys, field.key), hash |-> found.hash]
      BY <2>1 DEF VerifyField, IsFound
    <3> QED
      BY <3>1 DEF IsField
  <2>2. CASE field.kind = "signature"
    <3> DEFINE pre == SigHashPreSign(found.hash, terms)
               key == IF field.over = pre THEN field.key ELSE NoKey
               hash == SigHashPostSign(pre, Encoding(field.key), field)
    <3>1. next = [keys |-> Append(found.keys, key), hash |-> hash]
      BY <2>2 DEF VerifyField, NextVerification
    <3>2. key \in Keys \cup {NoKey}
      BY DEF IsField
    <3> HIDE DEF next, key, hash
    <3> QED
      BY <3>1, <3>2
  <2> QED
    BY <2>1, <2>2 DEF IsField
<1> HIDE DEF next
<1>2. /\ Append(found.keys, key) \in Seq(Keys \cup {NoKey})
      /\ Len(Append(found.keys, key)) = n + 1
  BY <1>1 DEF IsFound
<1> QED
  BY <1>1, <1>2 DEF IsFound, next

\* The fields of a condition as a sequence over some set.
LEMMA FieldsAreSequence ==
    ASSUME NEW cond, IsCondition(cond)
    PROVE  \E S : cond.fields \in Seq(S) /\ \A f \in S : IsField(f)
<1> DEFINE S == {cond.fields[i] : i \in DOMAIN cond.fields}
<1>1. cond.fields \in Seq(S) /\ \A f \in S : IsField(f)
  BY DEF IsCondition, IsSequence
<1> QED
  BY <1>1

\* verify finds one key for each field.
LEMMA VerifiedAll ==
    ASSUME NEW S, \A f \in S : IsField(f), NEW terms, NEW hash, NEW s \in Seq(S)
    PROVE  IsFound(Verification!Fold(terms, [keys |-> <<>>, hash |-> hash], s), Len(s))
<1> DEFINE base == [keys |-> <<>>, hash |-> hash]
           T == {t \in Seq(S) : IsFound(Verification!Fold(terms, base, t), Len(t))}
<1>1. <<>> \in T
  <2>1. Verification!Fold(terms, base, <<>>) = base
    BY Verification!FoldEmpty
  <2>2. IsFound(base, 0)
    BY DEF IsFound
  <2> QED
    BY <2>1, <2>2
<1>2. ASSUME NEW t \in Seq(S), NEW f \in S, t \in T PROVE Append(t, f) \in T
  <2> DEFINE found == Verification!Fold(terms, base, t)
  <2>1. Verification!Fold(terms, base, Append(t, f)) = VerifyField(terms, found, f)
    BY Verification!FoldAppend
  <2>2. IsFound(found, Len(t)) /\ Len(t) \in Nat /\ IsField(f)
    BY <1>2
  <2>3. IsFound(VerifyField(terms, found, f), Len(t) + 1)
    <3> HIDE DEF found
    <3> QED
      BY <2>2, FoundOne
  <2> QED
    BY <2>1, <2>3
<1>3. \A t \in Seq(S) : t \in T
  <2> HIDE DEF T
  <2> QED
    BY <1>1, <1>2, Verification!SequenceInduction
<1> QED
  BY <1>3

LEMMA VerifiedFields ==
    ASSUME NEW cond, IsCondition(cond), NEW hash, NEW authType
    PROVE  IsFound(VerifyFields(cond, hash, authType), Len(cond.fields))
BY FieldsAreSequence, VerifiedAll DEF VerifyFields

\* Without fields nothing is found.
LEMMA NoFieldVerified ==
    ASSUME NEW cond, cond.fields = <<>>, NEW hash, NEW authType
    PROVE  VerifyFields(cond, hash, authType) = [keys |-> <<>>, hash |-> hash]
BY Verification!FoldEmpty DEF VerifyFields

\* A field appended is what the loop sees last.
LEMMA FieldVerified ==
    ASSUME NEW cond, IsCondition(cond), NEW field, IsField(field), NEW next,
           next.fields = Append(cond.fields, field),
           next.fee = cond.fee, next.nonce = cond.nonce, NEW hash, NEW authType
    PROVE  VerifyFields(next, hash, authType) =
               VerifyField(Terms(authType, cond), VerifyFields(cond, hash, authType), field)
<1> DEFINE base == [keys |-> <<>>, hash |-> hash]
           S == {cond.fields[i] : i \in DOMAIN cond.fields} \cup {field}
<1>1. cond.fields \in Seq(S)
  BY SeqMonotonic DEF IsCondition, IsSequence
<1>2. Terms(authType, next) = Terms(authType, cond)
  BY DEF Terms
<1>3. ASSUME NEW terms
      PROVE  Verification!Fold(terms, base, Append(cond.fields, field)) =
                 VerifyField(terms, Verification!Fold(terms, base, cond.fields), field)
  <2> HIDE DEF S, base
  <2>1. field \in S
    BY DEF S
  <2> QED
    BY <1>1, <2>1, Verification!FoldAppend
<1> QED
  BY <1>2, <1>3 DEF VerifyFields

\* The keys of the fields, one appended.
LEMMA KeysAppended ==
    ASSUME NEW S, \A f \in S : IsField(f), NEW s \in Seq(S), NEW field \in S
    PROVE  KeysIn(Append(s, field)) = Append(KeysIn(s), field.key)
<1> DEFINE keys == KeysIn(s)
<1>1. PICK fs, n : fs = Append(s, field) /\ n = Len(s)
  OBVIOUS
<1>2. /\ DOMAIN fs = 1..(n + 1)
      /\ n \in Nat
      /\ DOMAIN s = 1..n
      /\ \A i \in 1..n : fs[i] = s[i]
      /\ fs[n + 1] = field
  BY <1>1
<1>3. KeysIn(fs) = [i \in 1..(n + 1) |-> fs[i].key]
  BY <1>2 DEF KeysIn
<1>4. keys \in Seq(Keys) /\ Len(keys) = n /\ \A i \in 1..n : keys[i] = fs[i].key
  <2>1. \A i \in 1..n : s[i].key \in Keys
    BY <1>2 DEF IsField
  <2>2. keys = [i \in 1..n |-> s[i].key]
    BY <1>2 DEF KeysIn
  <2> QED
    BY <1>2, <2>1, <2>2
<1>5. field.key \in Keys /\ fs[n + 1].key = field.key
  BY <1>2 DEF IsField
<1> HIDE DEF keys
<1>6. PICK all : all = Append(keys, field.key)
  OBVIOUS
<1>7. /\ all = [i \in 1..(n + 1) |-> all[i]]
      /\ \A i \in 1..n : all[i] = keys[i]
      /\ all[n + 1] = field.key
  BY <1>2, <1>4, <1>5, <1>6
<1>8. ASSUME NEW i \in 1..(n + 1) PROVE all[i] = fs[i].key
  <2>1. CASE i \in 1..n
    BY <1>4, <1>7, <2>1
  <2>2. CASE i = n + 1
    BY <1>5, <1>7, <2>2
  <2> QED
    BY <1>2, <2>1, <2>2
<1>9. all = [i \in 1..(n + 1) |-> fs[i].key]
  <2>1. ASSUME NEW f, NEW g, \A i \in 1..(n + 1) : f[i] = g[i].key, f = [i \in 1..(n + 1) |-> f[i]]
        PROVE  f = [i \in 1..(n + 1) |-> g[i].key]
    BY ONLY <2>1
  <2> QED
    BY ONLY <1>7, <1>8, <2>1
<1> QED
  BY <1>1, <1>3, <1>6, <1>9 DEF keys

LEMMA FieldKeysAppended ==
    ASSUME NEW cond, IsCondition(cond), NEW field, IsField(field), NEW next,
           next.fields = Append(cond.fields, field)
    PROVE  FieldKeys(next) = Append(FieldKeys(cond), field.key)
<1> DEFINE S == {cond.fields[i] : i \in DOMAIN cond.fields} \cup {field}
<1>1. cond.fields \in Seq(S) /\ field \in S
  BY SeqMonotonic DEF IsCondition, IsSequence
<1>2. \A f \in S : IsField(f)
  BY DEF IsCondition
<1> HIDE DEF S
<1>3. KeysIn(Append(cond.fields, field)) = Append(KeysIn(cond.fields), field.key)
  BY <1>1, <1>2, KeysAppended
<1> QED
  BY <1>3 DEF FieldKeys

\* Without a signature, verification finds the public keys and changes no hash.
LEMMA UnsignedVerified ==
    ASSUME NEW cond, IsCondition(cond), NumSigs(cond) = 0, NEW hash, NEW authType
    PROVE  /\ VerifyFields(cond, hash, authType).hash = hash
           /\ VerifyFields(cond, hash, authType).keys = FieldKeys(cond)
<1> DEFINE terms == Terms(authType, cond)
           base == [keys |-> <<>>, hash |-> hash]
           S == {cond.fields[i] : i \in DOMAIN cond.fields}
           T == {t \in Seq(S) : /\ Verification!Fold(terms, base, t).keys = KeysIn(t)
                                /\ Verification!Fold(terms, base, t).hash = hash
                                /\ IsFound(Verification!Fold(terms, base, t), Len(t))}
<1>1. cond.fields \in Seq(S) /\ \A f \in S : IsField(f)
  BY DEF IsCondition, IsSequence
<1>2. \A f \in S : f.kind = "pubkey"
  <2>1. SignatureFields(cond) = {}
    BY FieldCount, FS_EmptySet DEF NumSigs
  <2> QED
    BY <1>1, <2>1 DEF SignatureFields, IsField
<1> HIDE DEF S, terms
<1>3. <<>> \in T
  <2>1. Verification!Fold(terms, base, <<>>) = base
    BY Verification!FoldEmpty
  <2>2. IsFound(base, 0)
    BY DEF IsFound
  <2>3. KeysIn(<<>>) = <<>>
    BY DEF KeysIn
  <2> QED
    BY <2>1, <2>2, <2>3
<1>4. ASSUME NEW t \in Seq(S), NEW f \in S, t \in T PROVE Append(t, f) \in T
  <2>1. PICK found : found = Verification!Fold(terms, base, t)
    OBVIOUS
  <2>2. Verification!Fold(terms, base, Append(t, f)) = VerifyField(terms, found, f)
    BY <2>1, Verification!FoldAppend
  <2>3. /\ IsFound(found, Len(t)) /\ found.keys = KeysIn(t) /\ found.hash = hash
        /\ Len(t) \in Nat
        /\ IsField(f) /\ f.kind = "pubkey"
    BY <1>1, <1>2, <1>4, <2>1
  <2>4. IsFound(VerifyField(terms, found, f), Len(t) + 1)
    BY <2>3, FoundOne
  <2>5. /\ VerifyField(terms, found, f).keys = Append(found.keys, f.key)
        /\ VerifyField(terms, found, f).hash = found.hash
    BY <2>3, PubkeyFound DEF IsFound
  <2>6. KeysIn(Append(t, f)) = Append(KeysIn(t), f.key)
    BY <1>1, KeysAppended
  <2>7. Append(t, f) \in Seq(S) /\ Len(Append(t, f)) = Len(t) + 1
    BY <1>4
  <2> HIDE DEF base
  <2> QED
    BY <2>2, <2>3, <2>4, <2>5, <2>6, <2>7
<1>5. \A t \in Seq(S) : t \in T
  <2> HIDE DEF T
  <2> QED
    BY <1>3, <1>4, Verification!SequenceInduction
<1> QED
  BY <1>1, <1>5 DEF VerifyFields, FieldKeys, terms

\* The constructor's replay reaches the hash that verification reaches, when the
\* keys that signed are compressed ones.
LEMMA ReplayAgrees ==
    ASSUME NEW cond, IsCondition(cond), NEW hash, NEW authType,
           \A i \in SignatureFields(cond) : cond.fields[i].key \notin Uncompressed
    PROVE  Replay!Fold(Terms(authType, cond), hash, cond.fields) =
               VerifyFields(cond, hash, authType).hash
<1> DEFINE terms == Terms(authType, cond)
           base == [keys |-> <<>>, hash |-> hash]
           S == {cond.fields[i] : i \in DOMAIN cond.fields}
           T == {t \in Seq(S) : Replay!Fold(terms, hash, t) =
                                    Verification!Fold(terms, base, t).hash}
<1>1. cond.fields \in Seq(S) /\ \A f \in S : IsField(f)
  BY DEF IsCondition, IsSequence
<1>2. \A f \in S : f.kind = "signature" => f.key \notin Uncompressed
  BY DEF SignatureFields
<1> HIDE DEF S, terms
<1>3. <<>> \in T
  <2>1. Verification!Fold(terms, base, <<>>) = base
    BY Verification!FoldEmpty
  <2>2. Replay!Fold(terms, hash, <<>>) = hash
    BY Replay!FoldEmpty
  <2> QED
    BY <2>1, <2>2
<1>4. ASSUME NEW t \in Seq(S), NEW f \in S, t \in T PROVE Append(t, f) \in T
  <2>1. PICK found, replayed : /\ found = Verification!Fold(terms, base, t)
                               /\ replayed = Replay!Fold(terms, hash, t)
    OBVIOUS
  <2>2. /\ Verification!Fold(terms, base, Append(t, f)) = VerifyField(terms, found, f)
        /\ Replay!Fold(terms, hash, Append(t, f)) = ReplayField(terms, replayed, f)
    BY <2>1, Verification!FoldAppend, Replay!FoldAppend
  <2>3. found = [keys |-> found.keys, hash |-> found.hash]
    BY <1>1, <2>1, VerifiedAll DEF IsFound
  <2>4. replayed = found.hash
    BY <1>4, <2>1
  <2>5. CASE f.kind = "pubkey"
    <3>1. VerifyField(terms, found, f).hash = found.hash
      BY <1>1, <2>3, <2>5, PubkeyFound
    <3>2. ReplayField(terms, replayed, f) = replayed
      BY <2>5 DEF ReplayField
    <3> QED
      BY <2>2, <2>4, <3>1, <3>2
  <2>6. CASE f.kind = "signature"
    <3>1. VerifyField(terms, found, f).hash =
              NextVerification(found.hash, terms, Encoding(f.key), f).hash
      BY <2>6 DEF VerifyField
    <3>2. ReplayField(terms, replayed, f) =
              NextVerification(replayed, terms, "compressed", f).hash
      BY <2>6 DEF ReplayField
    <3>3. Encoding(f.key) = "compressed"
      BY <1>2, <2>6 DEF Encoding
    <3> QED
      BY <2>2, <2>4, <3>1, <3>2, <3>3
  <2> QED
    BY <1>1, <2>5, <2>6 DEF IsField
<1>5. \A t \in Seq(S) : t \in T
  <2> HIDE DEF T
  <2> QED
    BY <1>3, <1>4, Verification!SequenceInduction
<1> QED
  BY <1>1, <1>5 DEF VerifyFields, terms

\* A public key appended to a condition.
LEMMA PubkeyVerified ==
    ASSUME NEW cond, IsCondition(cond), NEW field, IsField(field), field.kind = "pubkey",
           NEW next, next.fields = Append(cond.fields, field),
           next.fee = cond.fee, next.nonce = cond.nonce, NEW hash, NEW authType
    PROVE  /\ VerifyFields(next, hash, authType).hash = VerifyFields(cond, hash, authType).hash
           /\ VerifyFields(cond, hash, authType).keys = FieldKeys(cond) =>
                VerifyFields(next, hash, authType).keys = FieldKeys(next)
<1>1. PICK found, after, terms :
        /\ found = VerifyFields(cond, hash, authType)
        /\ after = VerifyFields(next, hash, authType)
        /\ terms = Terms(authType, cond)
  OBVIOUS
<1>2. after = VerifyField(terms, found, field)
  BY <1>1, FieldVerified
<1>3. found = [keys |-> found.keys, hash |-> found.hash]
  BY <1>1, VerifiedFields DEF IsFound
<1>4. after.keys = Append(found.keys, field.key) /\ after.hash = found.hash
  BY <1>2, <1>3, PubkeyFound
<1>5. FieldKeys(next) = Append(FieldKeys(cond), field.key)
  BY FieldKeysAppended
<1> QED
  BY <1>1, <1>4, <1>5

\* A signature made over the hash that verification reached, appended to a
\* multi-sig condition.
LEMMA SignatureVerified ==
    ASSUME NEW cond, IsCondition(cond), NEW hash, NEW authType, NEW key \in Keys,
           NEW result,
           result = NextSignature(VerifyFields(cond, hash, authType).hash, authType, cond, key),
           NEW next, next.fields = Append(cond.fields, result.field),
           next.fee = cond.fee, next.nonce = cond.nonce
    PROVE  /\ VerifyFields(next, hash, authType).hash = result.hash
           /\ VerifyFields(cond, hash, authType).keys = FieldKeys(cond) =>
                VerifyFields(next, hash, authType).keys = FieldKeys(next)
<1>1. PICK found, after, terms, field :
        /\ found = VerifyFields(cond, hash, authType)
        /\ after = VerifyFields(next, hash, authType)
        /\ terms = Terms(authType, cond)
        /\ field = result.field
  OBVIOUS
<1>2. /\ IsField(field) /\ field.kind = "signature"
      /\ field.key = key /\ field.over = SigHashPreSign(found.hash, terms)
      /\ result.hash = SigHashPostSign(field.over, Encoding(field.key), field)
  BY <1>1, NewResult DEF NextSignature, SignatureField
<1>3. after = VerifyField(terms, found, field)
  BY <1>1, <1>2, FieldVerified
<1>4. /\ after.keys = Append(found.keys, field.key)
      /\ after.hash = SigHashPostSign(field.over, Encoding(field.key), field)
  BY <1>2, <1>3, SignatureFound
<1>5. FieldKeys(next) = Append(FieldKeys(cond), field.key)
  BY <1>1, <1>2, FieldKeysAppended
<1> QED
  BY <1>1, <1>2, <1>4, <1>5

\* Verification of a condition whose only field is a signature.
LEMMA OnlyFieldVerified ==
    ASSUME NEW cond, NEW field, IsField(field), field.kind = "signature",
           cond.fields = <<field>>, NEW hash, NEW authType
    PROVE  LET pre == SigHashPreSign(hash, Terms(authType, cond))
           IN  /\ VerifyFields(cond, hash, authType).keys =
                      <<IF field.over = pre THEN field.key ELSE NoKey>>
               /\ VerifyFields(cond, hash, authType).hash =
                      SigHashPostSign(pre, Encoding(field.key), field)
<1> DEFINE base == [keys |-> <<>>, hash |-> hash]
           pre == SigHashPreSign(hash, Terms(authType, cond))
<1>1. ASSUME NEW terms
      PROVE  Verification!Fold(terms, base, <<field>>) = VerifyField(terms, base, field)
  <2> HIDE DEF base, pre
  <2>1. <<>> \in Seq({field}) /\ field \in {field} /\ <<field>> = Append(<<>>, field)
    OBVIOUS
  <2>2. Verification!Fold(terms, base, <<>>) = base
    BY Verification!FoldEmpty
  <2>3. ASSUME NEW s \in Seq({field})
        PROVE  Verification!Fold(terms, base, Append(s, field)) =
                   VerifyField(terms, Verification!Fold(terms, base, s), field)
    BY <2>1, Verification!FoldAppend
  <2> QED
    BY <2>1, <2>2, <2>3
<1>2. VerifyFields(cond, hash, authType) = VerifyField(Terms(authType, cond), base, field)
  BY <1>1 DEF VerifyFields
<1> HIDE DEF pre
<1>3. VerifyField(Terms(authType, cond), base, field) =
        [keys |-> Append(<<>>, IF field.over = pre THEN field.key ELSE NoKey),
         hash |-> SigHashPostSign(pre, Encoding(field.key), field)]
  BY DEF VerifyField, NextVerification, pre
<1> QED
  BY <1>2, <1>3 DEF pre
\* A condition whose only field is the signature of key over hash.
LEMMA SingleSigned ==
    ASSUME NEW cond, NEW hash, NEW authType, NEW key \in Keys,
           NEW result, result = NextSignature(hash, authType, cond, key),
           NEW next, next.fields = <<result.field>>,
           next.fee = cond.fee, next.nonce = cond.nonce
    PROVE  /\ VerifyFields(next, hash, authType).keys = <<key>>
           /\ VerifyFields(next, hash, authType).hash = result.hash
           /\ FieldKeys(next) = <<key>>
           /\ NumSigs(next) = 1
<1>1. PICK pre, field : /\ pre = SigHashPreSign(hash, Terms(authType, cond))
                        /\ field = result.field
  OBVIOUS
<1>2. /\ IsField(field) /\ field.kind = "signature"
      /\ field.key = key /\ field.over = pre
      /\ result.hash = SigHashPostSign(pre, Encoding(key), field)
  BY <1>1, NewResult DEF NextSignature, SignatureField
<1>3. Terms(authType, next) = Terms(authType, cond)
  BY DEF Terms
<1>4. /\ VerifyFields(next, hash, authType).keys = <<key>>
      /\ VerifyFields(next, hash, authType).hash = SigHashPostSign(pre, Encoding(key), field)
  BY <1>1, <1>2, <1>3, OnlyFieldVerified
<1>5. FieldKeys(next) = <<key>>
  BY <1>1, <1>2 DEF FieldKeys, KeysIn
<1>6. SignatureFields(next) = {1}
  BY <1>1, <1>2 DEF SignatureFields
<1>7. NumSigs(next) = 1
  BY <1>6, FS_Singleton DEF NumSigs
<1> QED
  BY <1>2, <1>4, <1>5, <1>7

\* A single-sig condition that verifies has the signature its key makes.
LEMMA SingleVerified ==
    ASSUME NEW cond, IsCondition(cond), cond.kind = "single", cond.required = 1,
           NEW key \in Keys, cond.keys = <<key>>, NEW hash, NEW authType,
           Verifies(cond, hash, authType)
    PROVE  VerifyFields(cond, hash, authType).hash = NextSignature(hash, authType, cond, key).hash
<1>1. NumSigs(cond) = 1 /\ VerifyFields(cond, hash, authType).keys = <<key>>
  BY DEF Verifies
<1>2. Len(cond.fields) = 1 /\ SignatureFields(cond) = {1}
  <2>1. SignatureFields(cond) # {}
    BY <1>1, FS_EmptySet DEF NumSigs
  <2>2. PICK n : n = Len(cond.fields)
    OBVIOUS
  <2>3. n \in Nat /\ n <= 1 /\ SignatureFields(cond) \subseteq 1..n
    <3>1. Len(cond.fields) <= 1
      BY DEF IsCondition
    <3>2. Len(cond.fields) \in Nat /\ SignatureFields(cond) \subseteq 1..Len(cond.fields)
      BY FieldCount
    <3> QED
      BY ONLY <2>2, <3>1, <3>2
  <2>4. n = 1
    BY <2>1, <2>3
  <2> QED
    BY <2>1, <2>2, <2>3, <2>4
<1>3. PICK field : cond.fields = <<field>> /\ IsField(field) /\ field.kind = "signature"
  BY <1>2 DEF IsCondition, IsSequence, SignatureFields
<1>4. PICK pre : pre = SigHashPreSign(hash, Terms(authType, cond))
  OBVIOUS
<1>5. /\ VerifyFields(cond, hash, authType).keys =
             <<IF field.over = pre THEN field.key ELSE NoKey>>
      /\ VerifyFields(cond, hash, authType).hash = SigHashPostSign(pre, Encoding(field.key), field)
  BY <1>3, <1>4, OnlyFieldVerified
<1>6. field.over = pre /\ field.key = key
  BY <1>1, <1>5, TransactionAuthAssumption
<1> QED
  BY <1>4, <1>5, <1>6 DEF NextSignature, SigHashPostSign, SignatureField

\* What a sponsor signs verifies, over the hash of the origin's signatures.
LEMMA SponsorVerifies ==
    ASSUME NEW tx, IsTransaction(tx), NEW key \in Keys, NEW fee \in Nat, NEW nonce \in Nat,
           NEW next, next = Sponsored(tx, key, fee, nonce)
    PROVE  /\ next.authType = tx.authType
           /\ OriginHash(next) = OriginHash(tx)
           /\ VerifiesOrigin(next) <=> VerifiesOrigin(tx)
           /\ Verifies(next.sponsor, OriginHash(next), "Sponsored")
           /\ next.sponsor.keys = <<key>>
           /\ next.sponsor.fee = fee
           /\ next.sponsor.nonce = nonce
<1> DEFINE cond == SingleSig(key, fee, nonce)
           result == NextSignature(OriginHash(tx), "Sponsored", cond, key)
<1>1. /\ DOMAIN next = {"authType", "origin", "sponsor"}
      /\ next.authType = tx.authType /\ next.origin = tx.origin
      /\ next.sponsor = AddSignature(cond, result.field)
  BY DEF Sponsored, SetSponsor, IsTransaction
<1>2. OriginHash(next) = OriginHash(tx) /\ (VerifiesOrigin(next) <=> VerifiesOrigin(tx))
  BY <1>1 DEF OriginHash, VerifiesOrigin, SignBegin
<1>3. /\ cond.kind = "single" /\ cond.keys = <<key>> /\ cond.required = 1
      /\ cond.fee = fee /\ cond.nonce = nonce
      /\ cond = [kind |-> "single", keys |-> <<key>>, required |-> 1, fee |-> fee,
                 nonce |-> nonce, fields |-> <<>>]
  BY DEF SingleSig, Condition
<1> HIDE DEF cond, result
<1>4. /\ next.sponsor.fields = <<result.field>>
      /\ next.sponsor.keys = <<key>> /\ next.sponsor.required = 1
      /\ next.sponsor.fee = fee /\ next.sponsor.nonce = nonce
  <2>1. InEncoding(result.field.key, Encoding(cond.keys[1])) = result.field.key
    <3>1. result.field.key = key /\ cond.keys[1] = key
      BY <1>3 DEF result, NextSignature, SignatureField
    <3> QED
      BY <3>1 DEF InEncoding
  <2>2. [result.field EXCEPT !.key = result.field.key] = result.field
    BY DEF result, NextSignature, SignatureField
  <2>3. next.sponsor = [cond EXCEPT !.fields = <<result.field>>]
    BY <1>1, <1>3, <2>1, <2>2 DEF AddSignature
  <2> QED
    BY <1>3, <2>3
<1>5. /\ VerifyFields(next.sponsor, OriginHash(tx), "Sponsored").keys = <<key>>
      /\ NumSigs(next.sponsor) = 1
  BY <1>3, <1>4, SingleSigned DEF result
<1> QED
  BY <1>1, <1>2, <1>4, <1>5 DEF Verifies

-----------------------------------------------------------------------------
(* Serializing and deserializing: only the keys of public key fields change.  *)

DeserializedFields(fields) == [i \in DOMAIN fields |-> DeserializedField(fields[i])]

\* A field stays a field of its kind, and a signature stays as it is.
LEMMA FieldDeserialized ==
    ASSUME NEW field, IsField(field)
    PROVE  /\ IsField(DeserializedField(field))
           /\ DeserializedField(field).kind = field.kind
           /\ field.kind = "signature" => DeserializedField(field) = field
<1>1. CASE field.kind = "pubkey"
  <2>1. compressPublicKey(field.key) \in Keys
    BY InEncodingType DEF IsField, compressPublicKey
  <2> QED
    BY <1>1, <2>1 DEF DeserializedField, PubkeyField, IsField
<1>2. CASE field.kind = "signature"
  BY <1>2 DEF DeserializedField
<1> QED
  BY <1>1, <1>2 DEF IsField

\* f has the values of t, of length n, and then x.
HasValues(f, n, t, x) ==
    f = [i \in 1..(n + 1) |-> f[i]] /\ (\A i \in 1..n : f[i] = t[i]) /\ f[n + 1] = x

\* Then it is t with x appended.
LEMMA AppendedValues ==
    ASSUME NEW n \in Nat, NEW S, NEW t \in Seq(S), Len(t) = n, NEW x \in S,
           NEW f, HasValues(f, n, t, x)
    PROVE  f = Append(t, x)
<1>1. PICK all : all = Append(t, x)
  OBVIOUS
<1>2. /\ all = [i \in 1..(n + 1) |-> all[i]]
      /\ \A i \in 1..n : all[i] = t[i]
      /\ all[n + 1] = x
  <2>1. /\ all \in Seq(S) /\ Len(all) = n + 1 /\ n + 1 \in Nat
        /\ \A i \in 1..n : all[i] = t[i]
        /\ all[n + 1] = x
    BY <1>1
  <2>2. all \in [1..Len(all) -> S]
    BY ONLY <2>1, LenProperties
  <2>3. all = [i \in 1..Len(all) |-> all[i]]
    BY ONLY <2>2
  <2> QED
    BY ONLY <2>1, <2>3
<1>3. ASSUME NEW i \in 1..(n + 1) PROVE all[i] = f[i]
  <2>1. i \in 1..n \/ i = n + 1
    OBVIOUS
  <2> QED
    BY <1>2, <2>1 DEF HasValues
<1>4. ASSUME NEW g, NEW h, g = [i \in 1..(n + 1) |-> g[i]], h = [i \in 1..(n + 1) |-> h[i]],
             \A i \in 1..(n + 1) : g[i] = h[i]
      PROVE  h = g
  BY ONLY <1>4
<1>5. f = [i \in 1..(n + 1) |-> f[i]]
  BY DEF HasValues
<1> QED
  BY ONLY <1>1, <1>2, <1>3, <1>4, <1>5

\* The fields of a copy, one for each.
LEMMA DeserializedSequence ==
    ASSUME NEW S, \A f \in S : IsField(f), NEW s \in Seq(S)
    PROVE  LET D == {DeserializedField(f) : f \in S}
           IN  /\ DeserializedFields(s) \in Seq(D)
               /\ Len(DeserializedFields(s)) = Len(s)
               /\ \A i \in 1..Len(s) : DeserializedFields(s)[i] = DeserializedField(s[i])
               /\ \A f \in D : IsField(f)
<1> DEFINE D == {DeserializedField(f) : f \in S}
<1>1. PICK n : n = Len(s) /\ n \in Nat /\ DOMAIN s = 1..n /\ \A i \in 1..n : s[i] \in S
  OBVIOUS
<1>2. DeserializedFields(s) = [i \in 1..n |-> DeserializedField(s[i])]
  BY <1>1 DEF DeserializedFields
<1>3. DeserializedFields(s) \in [1..n -> D]
  BY <1>1, <1>2
<1>4. DeserializedFields(s) \in Seq(D) /\ Len(DeserializedFields(s)) = n
  <2> HIDE DEF D
  <2> QED
    BY <1>1, <1>3, SeqDef, LenProperties
<1>5. \A f \in D : IsField(f)
  BY FieldDeserialized
<1> QED
  BY <1>1, <1>2, <1>4, <1>5

\* A field appended is deserialized like the others.
LEMMA DeserializedAppended ==
    ASSUME NEW S, \A f \in S : IsField(f), NEW s \in Seq(S), NEW f \in S
    PROVE  DeserializedFields(Append(s, f)) =
               Append(DeserializedFields(s), DeserializedField(f))
<1> DEFINE D == {DeserializedField(g) : g \in S}
<1>0. PICK n, all, d : n = Len(s) /\ all = Append(s, f) /\ d = DeserializedField(f)
  OBVIOUS
<1>1. /\ n \in Nat /\ DOMAIN all = 1..(n + 1)
      /\ \A i \in 1..n : all[i] = s[i]
      /\ all[n + 1] = f
  BY <1>0
<1>2. PICK t, after : t = DeserializedFields(s) /\ after = DeserializedFields(all)
  OBVIOUS
<1>3. t \in Seq(D) /\ Len(t) = n /\ \A i \in 1..n : t[i] = DeserializedField(s[i])
  BY <1>0, <1>2, DeserializedSequence
<1>4. after = [i \in 1..(n + 1) |-> DeserializedField(all[i])]
  BY <1>1, <1>2 DEF DeserializedFields
<1>5. after = [i \in 1..(n + 1) |-> after[i]]
  BY <1>4
<1>6. \A i \in 1..n : after[i] = t[i]
  BY <1>1, <1>3, <1>4
<1>7. after[n + 1] = d
  BY <1>0, <1>1, <1>4
<1>8. d \in D
  BY <1>0
<1> HIDE DEF D
<1>9. t \in Seq(D) /\ Len(t) = n
  BY <1>3
<1>11. HasValues(after, n, t, d)
  BY ONLY <1>5, <1>6, <1>7 DEF HasValues
<1>10. after = Append(t, d)
  BY ONLY <1>1, <1>8, <1>9, <1>11, AppendedValues
<1> QED
  BY <1>0, <1>2, <1>10

\* The loop reaches the same hash; what it finds for a signature is the same, and
\* for a public key it is the key of the field.
Agree(base, terms, s) ==
    LET was == Verification!Fold(terms, base, s)
        is == Verification!Fold(terms, base, DeserializedFields(s))
    IN  /\ is.hash = was.hash
        /\ is.keys = [i \in 1..Len(s) |-> IF s[i].kind = "signature" THEN was.keys[i]
                                          ELSE DeserializedField(s[i]).key]

\* One more turn of both loops.
LEMMA AgreeOne ==
    ASSUME NEW S, \A f \in S : IsField(f), NEW base, NEW terms, base.keys = <<>>,
           base = [keys |-> <<>>, hash |-> base.hash],
           NEW s \in Seq(S), NEW f \in S, Agree(base, terms, s)
    PROVE  Agree(base, terms, Append(s, f))
<1>1. PICK n, d, all, was, is, wasNext, isNext :
        /\ n = Len(s) /\ d = DeserializedField(f) /\ all = Append(s, f)
        /\ was = Verification!Fold(terms, base, s)
        /\ is = Verification!Fold(terms, base, DeserializedFields(s))
        /\ wasNext = Verification!Fold(terms, base, all)
        /\ isNext = Verification!Fold(terms, base, DeserializedFields(all))
  OBVIOUS
<1>2. /\ n \in Nat /\ Len(all) = n + 1
      /\ \A i \in 1..n : all[i] = s[i]
      /\ all[n + 1] = f
  BY <1>1
<1>3. /\ is.hash = was.hash
      /\ is.keys = [i \in 1..n |-> IF s[i].kind = "signature" THEN was.keys[i]
                                   ELSE DeserializedField(s[i]).key]
  BY <1>1 DEF Agree
<1>4. wasNext = VerifyField(terms, was, f) /\ IsFound(was, n)
  BY <1>1, Verification!FoldAppend, VerifiedAll
<1>5. isNext = VerifyField(terms, is, d) /\ IsFound(is, n)
  <2>0. PICK t, D : t = DeserializedFields(s) /\ D = {DeserializedField(g) : g \in S}
    OBVIOUS
  <2>1. /\ t = DeserializedFields(s)
        /\ t \in Seq(D) /\ Len(t) = n /\ (\A g \in D : IsField(g)) /\ d \in D
    BY <1>1, <2>0, DeserializedSequence
  <2>2. DeserializedFields(all) = Append(t, d)
    BY <1>1, <2>1, DeserializedAppended
  <2>3. Verification!Fold(terms, base, Append(t, d)) =
            VerifyField(terms, Verification!Fold(terms, base, t), d)
    BY <2>1, Verification!FoldAppend
  <2>4. IsFound(Verification!Fold(terms, base, t), Len(t))
    BY <2>1, VerifiedAll
  <2> QED
    BY <1>1, <2>1, <2>2, <2>3, <2>4
<1>6. IsField(f) /\ IsField(d) /\ d.kind = f.kind /\ (f.kind = "signature" => d = f)
  BY <1>1, FieldDeserialized
<1>7. PICK x, y : /\ wasNext.keys = Append(was.keys, x) /\ isNext.keys = Append(is.keys, y)
                  /\ y = (IF f.kind = "signature" THEN x ELSE d.key)
                  /\ isNext.hash = wasNext.hash
                  /\ x \in Keys \cup {NoKey} /\ y \in Keys \cup {NoKey}
  <2>1. CASE f.kind = "pubkey"
    <3>0. /\ was = [keys |-> was.keys, hash |-> was.hash]
          /\ is = [keys |-> is.keys, hash |-> is.hash]
      BY <1>4, <1>5 DEF IsFound
    <3>1. wasNext.keys = Append(was.keys, f.key) /\ wasNext.hash = was.hash
      <4>1. wasNext = [was EXCEPT !.keys = Append(was.keys, f.key)]
        BY <1>4, <2>1 DEF VerifyField
      <4> QED
        BY ONLY <3>0, <4>1
    <3>2. isNext.keys = Append(is.keys, d.key) /\ isNext.hash = is.hash
      <4>1. isNext = [is EXCEPT !.keys = Append(is.keys, d.key)]
        BY <1>5, <1>6, <2>1 DEF VerifyField
      <4> QED
        BY ONLY <3>0, <4>1
    <3> QED
      BY <1>3, <1>6, <2>1, <3>1, <3>2 DEF IsField
  <2>2. CASE f.kind = "signature"
    <3> DEFINE pre == SigHashPreSign(was.hash, terms)
               x == IF f.over = pre THEN f.key ELSE NoKey
               hash == SigHashPostSign(pre, Encoding(f.key), f)
    <3>1. wasNext = [keys |-> Append(was.keys, x), hash |-> hash]
      BY <1>4, <2>2 DEF VerifyField, NextVerification
    <3>2. isNext = [keys |-> Append(is.keys, x), hash |-> hash]
      BY <1>3, <1>5, <1>6, <2>2 DEF VerifyField, NextVerification
    <3>3. x \in Keys \cup {NoKey}
      BY <1>6 DEF IsField
    <3> HIDE DEF x, hash
    <3> QED
      BY <2>2, <3>1, <3>2, <3>3
  <2> QED
    BY <1>6, <2>1, <2>2 DEF IsField
<1>8. /\ is.keys \in Seq(Keys \cup {NoKey}) /\ Len(is.keys) = n
      /\ was.keys \in Seq(Keys \cup {NoKey}) /\ Len(was.keys) = n
  BY <1>4, <1>5 DEF IsFound
<1>9. /\ \A i \in 1..n : wasNext.keys[i] = was.keys[i]
      /\ wasNext.keys[n + 1] = x
  BY <1>2, <1>7, <1>8
<1>10. isNext.keys = [i \in 1..(n + 1) |-> IF all[i].kind = "signature" THEN wasNext.keys[i]
                                           ELSE DeserializedField(all[i]).key]
  <2> DEFINE f2 == [i \in 1..(n + 1) |-> IF all[i].kind = "signature" THEN wasNext.keys[i]
                                         ELSE DeserializedField(all[i]).key]
  <2>1. ASSUME NEW i \in 1..n PROVE f2[i] = is.keys[i]
    <3>1. is.keys[i] = IF s[i].kind = "signature" THEN was.keys[i]
                                                  ELSE DeserializedField(s[i]).key
      BY <1>3
    <3>2. i \in 1..(n + 1) /\ all[i] = s[i] /\ wasNext.keys[i] = was.keys[i]
      BY <1>2, <1>9
    <3>3. f2[i] = IF all[i].kind = "signature" THEN wasNext.keys[i]
                                              ELSE DeserializedField(all[i]).key
      BY <3>2
    <3> QED
      BY ONLY <3>1, <3>2, <3>3
  <2>2. f2[n + 1] = y
    <3>1. n + 1 \in 1..(n + 1)
      BY <1>2
    <3>2. f2[n + 1] = IF all[n + 1].kind = "signature" THEN wasNext.keys[n + 1]
                                                      ELSE DeserializedField(all[n + 1]).key
      BY <3>1
    <3>3. all[n + 1] = f /\ wasNext.keys[n + 1] = x /\ d = DeserializedField(f)
      BY <1>1, <1>2, <1>9
    <3> QED
      BY ONLY <1>7, <3>2, <3>3
  <2>3. f2 = [i \in 1..(n + 1) |-> f2[i]]
    OBVIOUS
  <2>5. HasValues(f2, n, is.keys, y)
    BY ONLY <2>1, <2>2, <2>3 DEF HasValues
  <2> HIDE DEF f2
  <2>4. f2 = Append(is.keys, y)
    <3>1. y \in Keys \cup {NoKey}
      BY <1>7
    <3> QED
      BY ONLY <1>2, <1>8, <2>5, <3>1, AppendedValues
  <2> QED
    BY <1>7, <2>4 DEF f2
<1> QED
  BY <1>1, <1>2, <1>7, <1>10 DEF Agree

\* Over all fields.
LEMMA AgreeAll ==
    ASSUME NEW S, \A f \in S : IsField(f), NEW hash, NEW terms, NEW s \in Seq(S)
    PROVE  Agree([keys |-> <<>>, hash |-> hash], terms, s)
<1> DEFINE base == [keys |-> <<>>, hash |-> hash]
           T == {t \in Seq(S) : Agree(base, terms, t)}
<1>1. <<>> \in T
  <2>1. DeserializedFields(<<>>) = <<>> /\ Len(<<>>) = 0 /\ <<>> \in Seq(S)
    BY DEF DeserializedFields
  <2>2. Verification!Fold(terms, base, <<>>) = base
    BY Verification!FoldEmpty
  <2> QED
    BY <2>1, <2>2 DEF Agree
<1>2. ASSUME NEW t \in Seq(S), NEW f \in S, t \in T PROVE Append(t, f) \in T
  <2>1. Agree(base, terms, t) /\ base.keys = <<>> /\ base = [keys |-> <<>>, hash |-> base.hash]
    BY <1>2
  <2> HIDE DEF base
  <2> QED
    BY <2>1, AgreeOne
<1>3. \A t \in Seq(S) : t \in T
  <2> HIDE DEF T
  <2> QED
    BY <1>1, <1>2, Verification!SequenceInduction
<1> QED
  BY <1>3

\* What a copy that was serialized and deserialized is.
LEMMA DeserializedTransaction ==
    ASSUME NEW tx, IsTransaction(tx)
    PROVE  /\ IsTransaction(Deserialized(tx))
           /\ Deserialized(tx).authType = tx.authType
           /\ Deserialized(tx).sponsor = tx.sponsor
           /\ Deserialized(tx).origin =
                  [tx.origin EXCEPT !.fields = DeserializedFields(tx.origin.fields)]
           /\ Deserialized(tx).origin.kind = tx.origin.kind
           /\ Deserialized(tx).origin.keys = tx.origin.keys
           /\ Deserialized(tx).origin.required = tx.origin.required
           /\ SignatureFields(Deserialized(tx).origin) = SignatureFields(tx.origin)
           /\ NumSigs(Deserialized(tx).origin) = NumSigs(tx.origin)
           /\ \A i \in SignatureFields(tx.origin) :
                Deserialized(tx).origin.fields[i] = tx.origin.fields[i]
<1>1. PICK cond, fields, after :
        /\ cond = tx.origin /\ fields = cond.fields
        /\ after = [cond EXCEPT !.fields = DeserializedFields(fields)]
  OBVIOUS
<1>2. Deserialized(tx) = [tx EXCEPT !.origin = after]
  BY <1>1 DEF Deserialized, DeserializedFields, IsTransaction
<1>3. IsCondition(cond)
  BY <1>1 DEF IsTransaction
<1>4. /\ DOMAIN after = DOMAIN cond
      /\ after.kind = cond.kind /\ after.keys = cond.keys /\ after.required = cond.required
      /\ after.fee = cond.fee /\ after.nonce = cond.nonce
      /\ after.fields = DeserializedFields(fields)
  BY <1>1, <1>3 DEF IsCondition
<1>5. PICK S, D : /\ fields \in Seq(S) /\ (\A f \in S : IsField(f))
                  /\ D = {DeserializedField(f) : f \in S}
  BY <1>1, <1>3, FieldsAreSequence
<1>6. /\ after.fields \in Seq(D) /\ Len(after.fields) = Len(fields)
      /\ \A f \in D : IsField(f)
      /\ \A i \in 1..Len(fields) : after.fields[i] = DeserializedField(fields[i])
  BY <1>4, <1>5, DeserializedSequence
<1>7. PICK n, t : /\ n = Len(fields) /\ t = after.fields /\ n \in Nat
                  /\ DOMAIN fields = 1..n /\ DOMAIN t = 1..n
  BY <1>5, <1>6
<1>8. \A i \in 1..n : /\ IsField(t[i]) /\ IsField(fields[i])
                      /\ t[i].kind = fields[i].kind
                      /\ fields[i].kind = "signature" => t[i] = fields[i]
  BY <1>5, <1>6, <1>7, FieldDeserialized
<1>9. IsSequence(t)
  <2>1. t \in [1..n -> {t[i] : i \in DOMAIN t}]
    BY <1>6, <1>7
  <2> QED
    BY <1>7, <2>1, FunctionIsSequence DEF IsSequence
<1>10. IsCondition(after)
  BY <1>1, <1>3, <1>4, <1>6, <1>7, <1>8, <1>9 DEF IsCondition
<1>11. SignatureFields(after) = SignatureFields(cond)
  BY <1>1, <1>7, <1>8 DEF SignatureFields
<1>12. \A i \in SignatureFields(cond) : after.fields[i] = cond.fields[i]
  BY <1>1, <1>7, <1>8 DEF SignatureFields
<1>13. IsTransaction(Deserialized(tx)) /\ Deserialized(tx).origin = after
  BY <1>2, <1>10, OriginReplaced
<1>14. Deserialized(tx).authType = tx.authType /\ Deserialized(tx).sponsor = tx.sponsor
  BY <1>2 DEF IsTransaction
<1> QED
  BY <1>1, <1>4, <1>11, <1>12, <1>13, <1>14 DEF NumSigs

\* Verification of such a copy: the same hash, and the key of each field if it
\* found the key of each field before.
LEMMA DeserializedVerified ==
    ASSUME NEW tx, IsTransaction(tx), NEW hash, NEW authType
    PROVE  /\ VerifyFields(Deserialized(tx).origin, hash, authType).hash =
                  VerifyFields(tx.origin, hash, authType).hash
           /\ VerifyFields(tx.origin, hash, authType).keys = FieldKeys(tx.origin) =>
                  VerifyFields(Deserialized(tx).origin, hash, authType).keys =
                      FieldKeys(Deserialized(tx).origin)
<1>1. PICK cond, after, terms, base, s, t :
        /\ cond = tx.origin /\ after = Deserialized(tx).origin
        /\ terms = Terms(authType, cond) /\ base = [keys |-> <<>>, hash |-> hash]
        /\ s = cond.fields /\ t = DeserializedFields(s)
  OBVIOUS
<1>2. IsCondition(cond) /\ after = [cond EXCEPT !.fields = t]
  BY <1>1, DeserializedTransaction DEF IsTransaction
<1>3. after.fields = t /\ Terms(authType, after) = terms
  BY <1>1, <1>2 DEF IsCondition, Terms
<1>4. PICK S : s \in Seq(S) /\ \A f \in S : IsField(f)
  BY <1>1, <1>2, FieldsAreSequence
<1>5. Agree(base, terms, s)
  BY <1>1, <1>4, AgreeAll
<1>6. PICK was, is : /\ was = VerifyFields(cond, hash, authType)
                     /\ is = VerifyFields(after, hash, authType)
                     /\ was = Verification!Fold(terms, base, s)
                     /\ is = Verification!Fold(terms, base, t)
  BY <1>1, <1>3 DEF VerifyFields
<1>7. PICK n : n = Len(s) /\ n \in Nat /\ DOMAIN s = 1..n /\ \A i \in 1..n : IsField(s[i])
  BY <1>4
<1>8. /\ is.hash = was.hash
      /\ is.keys = [i \in 1..n |-> IF s[i].kind = "signature" THEN was.keys[i]
                                   ELSE DeserializedField(s[i]).key]
  BY <1>1, <1>5, <1>6, <1>7 DEF Agree
<1>9. KeysIn(t) = [i \in 1..n |-> DeserializedField(s[i]).key]
  BY <1>1, <1>7 DEF KeysIn, DeserializedFields
<1>10. ASSUME was.keys = KeysIn(s) PROVE is.keys = KeysIn(t)
  <2>1. \A i \in 1..n : was.keys[i] = s[i].key
    BY <1>7, <1>10 DEF KeysIn
  <2>2. \A i \in 1..n : s[i].kind = "signature" => DeserializedField(s[i]) = s[i]
    BY <1>7, FieldDeserialized
  <2> QED
    BY <1>8, <1>9, <2>1, <2>2
<1> QED
  BY <1>1, <1>3, <1>6, <1>8, <1>10 DEF FieldKeys

\* A signed single-sig origin has no public key field that could change.
LEMMA DeserializedSingle ==
    ASSUME NEW tx, IsTransaction(tx), tx.origin.kind = "single", NumSigs(tx.origin) = 1
    PROVE  \A hash, authType : VerifyFields(Deserialized(tx).origin, hash, authType) =
                                  VerifyFields(tx.origin, hash, authType)
<1>1. PICK cond, fields, n : cond = tx.origin /\ fields = cond.fields /\ n = Len(fields)
  OBVIOUS
<1>12. IsCondition(cond) /\ cond.kind = "single"
  BY <1>1 DEF IsTransaction
<1>2. n <= 1 /\ n \in Nat /\ SignatureFields(cond) \subseteq 1..n
  <2>1. n <= 1
    BY <1>1, <1>12 DEF IsCondition
  <2> QED
    BY <1>1, <1>12, <2>1, FieldCount
<1>3. SignatureFields(cond) # {}
  <2>1. Cardinality(SignatureFields(cond)) = 1
    BY <1>1 DEF NumSigs
  <2> QED
    BY ONLY <2>1, FS_EmptySet
<1>4. n = 1 /\ SignatureFields(cond) = {1}
  BY <1>2, <1>3
<1>5. fields = [i \in 1..1 |-> fields[i]] /\ fields[1].kind = "signature" /\ DOMAIN fields = 1..1
  <2>1. PICK S : fields \in Seq(S)
    BY <1>1, <1>12, FieldsAreSequence
  <2>2. fields \in [1..n -> S]
    BY <1>1, <2>1, LenProperties
  <2> QED
    BY <1>1, <1>4, <2>2 DEF SignatureFields
<1>6. DeserializedField(fields[1]) = fields[1]
  BY <1>5 DEF DeserializedField
<1>7. DeserializedFields(fields) = [i \in 1..1 |-> DeserializedField(fields[i])]
  BY <1>5 DEF DeserializedFields
<1>8. [i \in 1..1 |-> DeserializedField(fields[i])] = [i \in 1..1 |-> fields[i]]
  BY <1>6
<1>9. DeserializedFields(fields) = fields
  BY <1>5, <1>7, <1>8
<1>10. PICK after : /\ after = Deserialized(tx).origin
                    /\ after = [cond EXCEPT !.fields = DeserializedFields(cond.fields)]
  BY <1>1, DeserializedTransaction
<1>11. after.fields = cond.fields /\ after.fee = cond.fee /\ after.nonce = cond.nonce
  BY <1>1, <1>9, <1>10, <1>12 DEF IsCondition
<1> QED
  BY <1>1, <1>10, <1>11 DEF VerifyFields, Terms
=============================================================================
