---------------------------- MODULE BuilderProofs ----------------------------
(***************************************************************************)
(* Proofs about TransactionBuilder, for any accounts, requests, fee rates    *)
(* and number of concurrent calls: what its loops over the signers and the   *)
(* keys make of a transaction, and what that says of every transaction a     *)
(* builder or a sponsor returns.                                            *)
(***************************************************************************)
EXTENDS TransactionBuilder, AuthProofs

-----------------------------------------------------------------------------
(* The loop over the signers.                                               *)

\* What else a condition has.
SameTerms(next, cond) ==
    /\ DOMAIN next = DOMAIN cond
    /\ next.kind = cond.kind /\ next.keys = cond.keys /\ next.required = cond.required
    /\ next.fee = cond.fee /\ next.nonce = cond.nonce

\* A signature or a public key added to a multi-sig condition.
LEMMA FieldAdded ==
    ASSUME NEW cond, IsCondition(cond), cond.kind = "multi", NEW field, IsField(field),
           NEW next, next = [cond EXCEPT !.fields = Append(@, field)]
    PROVE  /\ IsCondition(next) /\ SameTerms(next, cond)
           /\ next.fields = Append(cond.fields, field)
<1>1. next.fields = Append(cond.fields, field) /\ SameTerms(next, cond)
  BY DEF IsCondition, SameTerms
<1> QED
  BY <1>1, AppendedCondition

LEMMA SignatureCounted ==
    ASSUME NEW cond, IsCondition(cond), NEW field, IsField(field), field.kind = "signature",
           NEW next, next = [cond EXCEPT !.fields = Append(@, field)]
    PROVE  NumSigs(next) = NumSigs(cond) + 1
BY AppendedCount

LEMMA PubkeyNotCounted ==
    ASSUME NEW cond, IsCondition(cond), NEW field, IsField(field), field.kind = "pubkey",
           NEW next, next = [cond EXCEPT !.fields = Append(@, field)]
    PROVE  NumSigs(next) = NumSigs(cond)
BY AppendedCount

\* What signing has come to: the signers so far, verifying, over the hash to go on from.
IsSigned(origin, acc, begin, keys) ==
    /\ acc = [cond |-> acc.cond, hash |-> acc.hash]
    /\ IsCondition(acc.cond) /\ SameTerms(acc.cond, origin)
    /\ FieldKeys(acc.cond) = keys
    /\ NumSigs(acc.cond) = Len(keys)
    /\ VerifyFields(acc.cond, begin, "Standard").keys = FieldKeys(acc.cond)
    /\ VerifyFields(acc.cond, begin, "Standard").hash = acc.hash

LEMMA SignedOne ==
    ASSUME NEW origin, IsCondition(origin), origin.kind = "multi", NEW begin,
           NEW keys \in Seq(Keys), NEW key \in Keys,
           NEW acc, IsSigned(origin, acc, begin, keys)
    PROVE  IsSigned(origin, SignWith(origin, acc, key), begin, Append(keys, key))
<1>1. PICK cond, hash : cond = acc.cond /\ hash = acc.hash
  OBVIOUS
<1>2. PICK result, next :
        /\ result = NextSignature(hash, "Standard", origin, key)
        /\ next = AddSignature(cond, result.field)
  OBVIOUS
<1>3. SignWith(origin, acc, key) = [cond |-> next, hash |-> result.hash]
  BY <1>1, <1>2 DEF SignWith
<1>4. /\ IsCondition(cond) /\ SameTerms(cond, origin) /\ cond.kind = "multi"
      /\ FieldKeys(cond) = keys /\ NumSigs(cond) = Len(keys)
      /\ VerifyFields(cond, begin, "Standard").keys = FieldKeys(cond)
      /\ VerifyFields(cond, begin, "Standard").hash = hash
  BY <1>1 DEF IsSigned, SameTerms
<1>5. IsField(result.field) /\ result.field.kind = "signature" /\ result.field.key = key
  BY <1>2, NewResult DEF NextSignature, SignatureField
<1>6. next = [cond EXCEPT !.fields = Append(@, result.field)]
  BY <1>2, <1>4 DEF AddSignature
<1>7. /\ IsCondition(next) /\ SameTerms(next, cond)
      /\ next.fields = Append(cond.fields, result.field)
      /\ NumSigs(next) = NumSigs(cond) + 1
      /\ FieldKeys(next) = Append(FieldKeys(cond), key)
  <2>1. NumSigs(next) = NumSigs(cond) + 1
    BY <1>4, <1>5, <1>6, SignatureCounted
  <2>2. /\ IsCondition(next) /\ SameTerms(next, cond)
        /\ next.fields = Append(cond.fields, result.field)
    BY <1>4, <1>5, <1>6, FieldAdded
  <2>3. FieldKeys(next) = Append(FieldKeys(cond), result.field.key)
    BY <1>4, <1>5, <2>2, FieldKeysAppended
  <2> QED
    BY <1>5, <2>1, <2>2, <2>3
<1>8. result = NextSignature(VerifyFields(cond, begin, "Standard").hash, "Standard", cond, key)
  BY <1>2, <1>4 DEF NextSignature, Terms, SameTerms
<1>9. /\ VerifyFields(next, begin, "Standard").hash = result.hash
      /\ VerifyFields(next, begin, "Standard").keys = FieldKeys(next)
  <2>1. next.fee = cond.fee /\ next.nonce = cond.nonce
    BY <1>7 DEF SameTerms
  <2>2. next.fields = Append(cond.fields, result.field)
    BY <1>7
  <2> QED
    BY <1>4, <1>8, <2>1, <2>2, SignatureVerified
<1>10. Len(Append(keys, key)) = Len(keys) + 1
  OBVIOUS
<1>11. SameTerms(next, origin)
  BY <1>4, <1>7 DEF SameTerms
<1>12. PICK after : after = [cond |-> next, hash |-> result.hash]
  OBVIOUS
<1>13. /\ after.cond = next /\ after.hash = result.hash
       /\ after = [cond |-> after.cond, hash |-> after.hash]
  BY <1>12
<1>14. FieldKeys(next) = Append(keys, key) /\ NumSigs(next) = Len(Append(keys, key))
  BY <1>4, <1>7, <1>10
<1>15. IsSigned(origin, after, begin, Append(keys, key))
  BY ONLY <1>7, <1>9, <1>11, <1>13, <1>14 DEF IsSigned
<1> QED
  BY <1>3, <1>12, <1>15

LEMMA SignedAll ==
    ASSUME NEW origin, IsCondition(origin), origin.kind = "multi", origin.fields = <<>>,
           NEW begin, NEW keys \in Seq(Keys)
    PROVE  IsSigned(origin, Signing!Fold(origin, [cond |-> origin, hash |-> begin], keys),
                    begin, keys)
<1> DEFINE base == [cond |-> origin, hash |-> begin]
           T == {ks \in Seq(Keys) : IsSigned(origin, Signing!Fold(origin, base, ks), begin, ks)}
<1>1. <<>> \in T
  <2>1. Signing!Fold(origin, base, <<>>) = base
    BY Signing!FoldEmpty
  <2>2. /\ VerifyFields(origin, begin, "Standard").keys = <<>>
        /\ VerifyFields(origin, begin, "Standard").hash = begin
    BY NoFieldVerified
  <2>3. FieldKeys(origin) = <<>> /\ SignatureFields(origin) = {}
    BY DEF FieldKeys, KeysIn, SignatureFields
  <2>4. NumSigs(origin) = 0
    BY <2>3, FS_EmptySet DEF NumSigs
  <2>5. IsSigned(origin, base, begin, <<>>)
    BY <2>2, <2>3, <2>4 DEF IsSigned, SameTerms
  <2> QED
    BY <2>1, <2>5
<1>2. ASSUME NEW ks \in Seq(Keys), NEW key \in Keys, ks \in T PROVE Append(ks, key) \in T
  <2>1. PICK acc : acc = Signing!Fold(origin, base, ks)
    OBVIOUS
  <2>2. Signing!Fold(origin, base, Append(ks, key)) = SignWith(origin, acc, key)
    BY <2>1, Signing!FoldAppend
  <2>3. IsSigned(origin, acc, begin, ks)
    BY <1>2, <2>1
  <2>4. IsSigned(origin, SignWith(origin, acc, key), begin, Append(ks, key))
    BY <2>3, SignedOne
  <2> QED
    BY <2>2, <2>4
<1>3. \A ks \in Seq(Keys) : ks \in T
  <2> HIDE DEF T
  <2> QED
    BY <1>1, <1>2, Signing!SequenceInduction
<1> QED
  BY <1>3

-----------------------------------------------------------------------------
(* The loop over the keys that did not sign.                                *)

\* A condition with the keys of others appended.
IsAppended(next, cond, begin, keys) ==
    /\ IsCondition(next) /\ SameTerms(next, cond)
    /\ FieldKeys(next) = FieldKeys(cond) \o keys
    /\ NumSigs(next) = NumSigs(cond)
    /\ VerifyFields(next, begin, "Standard").keys = FieldKeys(next)

PubkeyFields(keys) == [i \in DOMAIN keys |-> PubkeyField(keys[i])]

LEMMA PubkeyFieldsAppended ==
    ASSUME NEW keys \in Seq(Keys), NEW key \in Keys
    PROVE  /\ PubkeyFields(keys) \in Seq({PubkeyField(k) : k \in Keys})
           /\ PubkeyFields(Append(keys, key)) = Append(PubkeyFields(keys), PubkeyField(key))
<1> DEFINE R == {PubkeyField(k) : k \in Keys}
<1>1. PICK ks, n, last : ks = Append(keys, key) /\ n = Len(keys) /\ last = PubkeyField(key)
  OBVIOUS
<1>2. /\ n \in Nat /\ DOMAIN keys = 1..n /\ DOMAIN ks = 1..(n + 1)
      /\ \A i \in 1..n : ks[i] = keys[i] /\ keys[i] \in Keys
      /\ ks[n + 1] = key
  BY <1>1
<1>3. PICK old : old = PubkeyFields(keys)
  OBVIOUS
<1>4. old \in Seq(R) /\ Len(old) = n /\ \A i \in 1..n : old[i] = PubkeyField(ks[i])
  <2>1. \A i \in 1..n : PubkeyField(keys[i]) \in R
    BY <1>2
  <2>2. old = [i \in 1..n |-> PubkeyField(keys[i])]
    BY <1>2, <1>3 DEF PubkeyFields
  <2>3. \A i \in 1..n : PubkeyField(keys[i]) = PubkeyField(ks[i])
    BY <1>2
  <2> HIDE DEF R
  <2> QED
    BY <1>2, <2>1, <2>2, <2>3
<1>5. last \in R
  BY <1>1
<1> HIDE DEF R
<1>6. PICK all : all = Append(old, last)
  OBVIOUS
<1>7. /\ all = [i \in 1..(n + 1) |-> all[i]]
      /\ \A i \in 1..n : all[i] = old[i]
      /\ all[n + 1] = last
  <2>1. /\ all \in Seq(R) /\ Len(all) = n + 1
        /\ \A i \in 1..n : all[i] = old[i]
        /\ all[n + 1] = last
    BY <1>4, <1>5, <1>6, AppendProperties
  <2> QED
    BY <2>1
<1>8. ASSUME NEW i \in 1..(n + 1) PROVE all[i] = PubkeyField(ks[i])
  <2>1. CASE i \in 1..n
    BY <1>4, <1>7, <2>1
  <2>2. CASE i = n + 1
    BY <1>1, <1>2, <1>7, <2>2
  <2> QED
    BY <1>2, <2>1, <2>2
<1>9. all = [i \in 1..(n + 1) |-> PubkeyField(ks[i])]
  <2>1. ASSUME NEW f, NEW g, \A i \in 1..(n + 1) : f[i] = PubkeyField(g[i]),
               f = [i \in 1..(n + 1) |-> f[i]]
        PROVE  f = [i \in 1..(n + 1) |-> PubkeyField(g[i])]
    BY ONLY <2>1
  <2> QED
    BY ONLY <1>7, <1>8, <2>1
<1>10. PubkeyFields(ks) = [i \in 1..(n + 1) |-> PubkeyField(ks[i])]
  BY <1>2 DEF PubkeyFields
<1> QED
  BY <1>1, <1>3, <1>4, <1>6, <1>9, <1>10 DEF R

\* A sequence extended after another one.
LEMMA ConcatAppend ==
    ASSUME NEW S, NEW s \in Seq(S), NEW t \in Seq(S), NEW x \in S
    PROVE  s \o Append(t, x) = Append(s \o t, x)
<1>1. <<x>> \in Seq(S) /\ s \o t \in Seq(S)
  BY ConcatProperties
<1> QED
  BY <1>1, AppendIsConcat, ConcatAssociative

LEMMA NoKeyAppended ==
    ASSUME NEW cond, IsCondition(cond)
    PROVE  /\ IsCondition(AppendKeys(cond, <<>>)) /\ SameTerms(AppendKeys(cond, <<>>), cond)
           /\ AppendKeys(cond, <<>>).fields = cond.fields
<1>1. PICK S : cond.fields \in Seq(S)
  BY FieldsAreSequence
<1>2. PICK fs : fs = PubkeyFields(<<>>)
  OBVIOUS
<1>3. fs = <<>>
  BY <1>2 DEF PubkeyFields
<1>4. cond.fields \o fs = cond.fields
  BY <1>1, <1>3, ConcatEmptySeq
<1>5. PICK next, old : next = AppendKeys(cond, <<>>) /\ old = cond.fields
  OBVIOUS
<1>6. next = [cond EXCEPT !.fields = old]
  BY <1>2, <1>4, <1>5 DEF AppendKeys, PubkeyFields
<1>7. next.fields = cond.fields /\ SameTerms(next, cond)
  BY <1>5, <1>6 DEF IsCondition, SameTerms
<1>8. IsCondition(next)
  BY <1>7 DEF IsCondition, SameTerms
<1> QED
  BY <1>5, <1>7, <1>8

LEMMA KeyAppended ==
    ASSUME NEW cond, IsCondition(cond), NEW keys \in Seq(Keys), NEW key \in Keys
    PROVE  AppendKeys(cond, Append(keys, key)) =
               [AppendKeys(cond, keys) EXCEPT !.fields = Append(@, PubkeyField(key))]
<1> DEFINE R == {PubkeyField(k) : k \in Keys}
<1>1. PICK S : cond.fields \in Seq(S)
  BY FieldsAreSequence
<1>2. PICK old, new, last :
        /\ old = PubkeyFields(keys) /\ new = PubkeyFields(Append(keys, key))
        /\ last = PubkeyField(key)
  OBVIOUS
<1>3. old \in Seq(R) /\ new = Append(old, last) /\ last \in R
  BY <1>2, PubkeyFieldsAppended
<1>4. cond.fields \in Seq(S \cup R) /\ old \in Seq(S \cup R) /\ last \in S \cup R
  <2> HIDE DEF R
  <2> QED
    BY <1>1, <1>3, SeqMonotonic
<1>5. cond.fields \o new = Append(cond.fields \o old, last)
  <2>1. PICK U : U = S \cup R
    OBVIOUS
  <2>2. cond.fields \in Seq(U) /\ old \in Seq(U) /\ last \in U /\ new = Append(old, last)
    BY <1>3, <1>4, <2>1
  <2>3. PICK first : first = cond.fields
    OBVIOUS
  <2>4. first \o Append(old, last) = Append(first \o old, last)
    <3>1. first \in Seq(U) /\ old \in Seq(U) /\ last \in U
      BY <2>2, <2>3
    <3> QED
      BY ONLY <3>1, ConcatAppend
  <2> QED
    BY <2>2, <2>3, <2>4
<1>6. /\ AppendKeys(cond, Append(keys, key)) = [cond EXCEPT !.fields = cond.fields \o new]
      /\ AppendKeys(cond, keys) = [cond EXCEPT !.fields = cond.fields \o old]
  BY <1>2 DEF AppendKeys, PubkeyFields
<1>7. [[cond EXCEPT !.fields = cond.fields \o old] EXCEPT !.fields = Append(@, last)] =
          [cond EXCEPT !.fields = Append(cond.fields \o old, last)]
  BY DEF IsCondition
<1> QED
  BY <1>2, <1>5, <1>6, <1>7

LEMMA FieldKeysType ==
    ASSUME NEW cond, IsCondition(cond)
    PROVE  FieldKeys(cond) \in Seq(Keys) /\ Len(FieldKeys(cond)) = Len(cond.fields)
<1>1. PICK n : n = Len(cond.fields)
  OBVIOUS
<1>2. n \in Nat /\ DOMAIN cond.fields = 1..n
  BY <1>1, LenProperties DEF IsCondition, IsSequence
<1>3. \A i \in 1..n : cond.fields[i].key \in Keys
  BY <1>2 DEF IsCondition, IsField
<1>4. FieldKeys(cond) = [i \in 1..n |-> cond.fields[i].key]
  BY <1>2 DEF FieldKeys, KeysIn
<1> QED
  BY <1>1, <1>2, <1>3, <1>4

\* Appending keys hides no signature and adds none.
LEMMA AppendedAll ==
    ASSUME NEW cond, IsCondition(cond), cond.kind = "multi", NEW begin,
           VerifyFields(cond, begin, "Standard").keys = FieldKeys(cond), NEW keys \in Seq(Keys)
    PROVE  IsAppended(AppendKeys(cond, keys), cond, begin, keys)
<1> DEFINE T == {ks \in Seq(Keys) : IsAppended(AppendKeys(cond, ks), cond, begin, ks)}
<1>1. <<>> \in T
  <2>1. PICK next : next = AppendKeys(cond, <<>>)
    OBVIOUS
  <2>2. IsCondition(next) /\ SameTerms(next, cond) /\ next.fields = cond.fields
    BY <2>1, NoKeyAppended
  <2>3. VerifyFields(next, begin, "Standard") = VerifyFields(cond, begin, "Standard")
    BY <2>2 DEF VerifyFields, Terms, SameTerms
  <2>4. FieldKeys(next) = FieldKeys(cond) /\ NumSigs(next) = NumSigs(cond)
    BY <2>2 DEF FieldKeys, NumSigs, SignatureFields
  <2>5. FieldKeys(cond) \o <<>> = FieldKeys(cond)
    <3>1. FieldKeys(cond) \in Seq(Keys)
      BY FieldKeysType
    <3> QED
      BY <3>1, ConcatEmptySeq
  <2>6. IsAppended(next, cond, begin, <<>>)
    BY <2>2, <2>3, <2>4, <2>5 DEF IsAppended
  <2> QED
    BY <2>1, <2>6
<1>2. ASSUME NEW ks \in Seq(Keys), NEW key \in Keys, ks \in T PROVE Append(ks, key) \in T
  <2>1. PICK old, field : old = AppendKeys(cond, ks) /\ field = PubkeyField(key)
    OBVIOUS
  <2>2. PICK next : next = AppendKeys(cond, Append(ks, key))
    OBVIOUS
  <2>3. next = [old EXCEPT !.fields = Append(@, field)]
    BY <2>1, <2>2, KeyAppended
  <2>4. IsField(field) /\ field.kind = "pubkey" /\ field.key = key
    BY <2>1 DEF IsField, PubkeyField
  <2>5. /\ IsCondition(old) /\ SameTerms(old, cond) /\ old.kind = "multi"
        /\ FieldKeys(old) = FieldKeys(cond) \o ks /\ NumSigs(old) = NumSigs(cond)
        /\ VerifyFields(old, begin, "Standard").keys = FieldKeys(old)
    BY <1>2, <2>1 DEF IsAppended, SameTerms
  <2>6. /\ IsCondition(next) /\ SameTerms(next, old)
        /\ next.fields = Append(old.fields, field)
        /\ NumSigs(next) = NumSigs(old)
        /\ FieldKeys(next) = Append(FieldKeys(old), key)
    <3>1. /\ IsCondition(next) /\ SameTerms(next, old)
          /\ next.fields = Append(old.fields, field)
      BY <2>3, <2>4, <2>5, FieldAdded
    <3>2. NumSigs(next) = NumSigs(old)
      BY <2>3, <2>4, <2>5, PubkeyNotCounted
    <3>3. FieldKeys(next) = Append(FieldKeys(old), field.key)
      BY <2>4, <2>5, <3>1, FieldKeysAppended
    <3> QED
      BY <2>4, <3>1, <3>2, <3>3
  <2>7. VerifyFields(next, begin, "Standard").keys = FieldKeys(next)
    <3>1. next.fee = old.fee /\ next.nonce = old.nonce
      BY <2>6 DEF SameTerms
    <3>2. VerifyFields(old, begin, "Standard").keys = FieldKeys(old) =>
              VerifyFields(next, begin, "Standard").keys = FieldKeys(next)
      <4>1. /\ IsCondition(old) /\ IsField(field) /\ field.kind = "pubkey"
            /\ next.fields = Append(old.fields, field)
        BY <2>4, <2>5, <2>6
      <4> QED
        BY ONLY <3>1, <4>1, PubkeyVerified
    <3> QED
      BY <2>5, <3>2
  <2>8. Append(FieldKeys(old), key) = FieldKeys(cond) \o Append(ks, key)
    <3>1. PICK first : first = FieldKeys(cond)
      OBVIOUS
    <3>2. first \in Seq(Keys)
      BY <3>1, FieldKeysType
    <3>3. first \o Append(ks, key) = Append(first \o ks, key)
      BY <3>2, ConcatAppend
    <3> QED
      BY <2>5, <3>1, <3>3
  <2>9. SameTerms(next, cond)
    BY <2>5, <2>6 DEF SameTerms
  <2>10. IsAppended(next, cond, begin, Append(ks, key))
    BY <2>5, <2>6, <2>7, <2>8, <2>9 DEF IsAppended
  <2> QED
    BY <2>2, <2>10
<1>3. \A ks \in Seq(Keys) : ks \in T
  <2> HIDE DEF T
  <2> QED
    BY <1>1, <1>2, Filter!SequenceInduction
<1> QED
  BY <1>3

Signs(signerKeys, key) == \E i \in DOMAIN signerKeys : signerKeys[i] = key

\* What is left of the account's keys has no key that signed.
LEMMA RemainingHaveNotSigned ==
    ASSUME NEW signerKeys, NEW keys \in Seq(Keys)
    PROVE  /\ Remaining(keys, signerKeys) \in Seq(Keys)
           /\ \A i \in DOMAIN Remaining(keys, signerKeys) :
                ~Signs(signerKeys, Remaining(keys, signerKeys)[i])
<1> DEFINE Holds(kept) == kept \in Seq(Keys) /\ \A i \in DOMAIN kept : ~Signs(signerKeys, kept[i])
           T == {ks \in Seq(Keys) : Holds(Filter!Fold(signerKeys, <<>>, ks))}
<1>1. <<>> \in T
  <2>1. Filter!Fold(signerKeys, <<>>, <<>>) = <<>>
    BY Filter!FoldEmpty
  <2>2. Holds(<<>>)
    OBVIOUS
  <2> QED
    BY <2>1, <2>2
<1>2. ASSUME NEW ks \in Seq(Keys), NEW key \in Keys, ks \in T PROVE Append(ks, key) \in T
  <2>1. PICK kept : kept = Filter!Fold(signerKeys, <<>>, ks)
    OBVIOUS
  <2>2. Filter!Fold(signerKeys, <<>>, Append(ks, key)) = KeepUnlessSigner(signerKeys, kept, key)
    BY <2>1, Filter!FoldAppend
  <2>3. Holds(kept)
    BY <1>2, <2>1
  <2>4. CASE Signs(signerKeys, key)
    BY <2>2, <2>3, <2>4 DEF KeepUnlessSigner, Signs
  <2>5. CASE ~Signs(signerKeys, key)
    <3>1. Holds(Append(kept, key))
      <4>1. PICK all, n : all = Append(kept, key) /\ n = Len(kept)
        OBVIOUS
      <4>2. /\ n \in Nat /\ DOMAIN kept = 1..n /\ DOMAIN all = 1..(n + 1)
            /\ \A i \in 1..n : all[i] = kept[i]
            /\ all[n + 1] = key /\ all \in Seq(Keys)
        BY <2>3, <4>1
      <4>3. ASSUME NEW i \in 1..(n + 1) PROVE ~Signs(signerKeys, all[i])
        <5>1. CASE i = n + 1
          BY <2>5, <4>2, <5>1
        <5>2. CASE i \in 1..n
          <6>1. all[i] = kept[i] /\ ~Signs(signerKeys, kept[i])
            BY <2>3, <4>2, <5>2
          <6> QED
            BY <6>1
        <5> QED
          BY <4>2, <5>1, <5>2
      <4> QED
        BY <4>1, <4>2, <4>3
    <3>2. KeepUnlessSigner(signerKeys, kept, key) = Append(kept, key)
      BY <2>5 DEF KeepUnlessSigner, Signs
    <3>3. Append(ks, key) \in Seq(Keys)
      OBVIOUS
    <3> HIDE DEF Holds
    <3> QED
      BY <2>2, <3>1, <3>2, <3>3
  <2> QED
    BY <2>4, <2>5
<1>3. \A ks \in Seq(Keys) : ks \in T
  <2> HIDE DEF T
  <2> QED
    BY <1>1, <1>2, Filter!SequenceInduction
<1> QED
  BY <1>3 DEF Remaining

\* rest is what comes after the first n keys.
IsRest(rest, keys, n) ==
    /\ rest \in Seq(Keys)
    /\ Len(rest) = IF Len(keys) <= n THEN 0 ELSE Len(keys) - n
    /\ \A i \in 1..Len(rest) : rest[i] = keys[n + i]

\* If the first n keys sign and no later one does, the later ones are left.
LEMMA RemainingIsRest ==
    ASSUME NEW signerKeys, NEW keys \in Seq(Keys), NEW n \in Nat,
           \A i \in 1..Len(keys) : i <= n <=> Signs(signerKeys, keys[i])
    PROVE  IsRest(Remaining(keys, signerKeys), keys, n)
<1> DEFINE Split(ks) == \A i \in 1..Len(ks) : i <= n <=> Signs(signerKeys, ks[i])
           Kept(ks) == Split(ks) => IsRest(Filter!Fold(signerKeys, <<>>, ks), ks, n)
           T == {ks \in Seq(Keys) : Kept(ks)}
<1>1. <<>> \in T
  <2>1. Filter!Fold(signerKeys, <<>>, <<>>) = <<>>
    BY Filter!FoldEmpty
  <2>2. IsRest(<<>>, <<>>, n)
    BY DEF IsRest
  <2> QED
    BY <2>1, <2>2
<1>2. ASSUME NEW ks \in Seq(Keys), NEW key \in Keys, ks \in T PROVE Append(ks, key) \in T
  <2>1. PICK kept : kept = Filter!Fold(signerKeys, <<>>, ks)
    OBVIOUS
  <2>2. Filter!Fold(signerKeys, <<>>, Append(ks, key)) = KeepUnlessSigner(signerKeys, kept, key)
    BY <2>1, Filter!FoldAppend
  <2>3. PICK all, m : all = Append(ks, key) /\ m = Len(ks)
    OBVIOUS
  <2>4. /\ m \in Nat /\ Len(all) = m + 1 /\ all[m + 1] = key
        /\ \A i \in 1..m : all[i] = ks[i]
    BY <2>3
  <2> SUFFICES Kept(all)
    <3> HIDE DEF Kept
    <3> QED
      BY <2>3
  <2> SUFFICES ASSUME Split(all)
               PROVE  IsRest(KeepUnlessSigner(signerKeys, kept, key), all, n)
    BY <2>2, <2>3
  <2>5. m + 1 <= n <=> Signs(signerKeys, key)
    BY <2>4
  <2>6. Split(ks)
    BY <2>3, <2>4
  <2>7. IsRest(kept, ks, n)
    BY <1>2, <2>1, <2>6
  <2> HIDE DEF Split
  <2>8. CASE m + 1 <= n
    BY <2>3, <2>4, <2>5, <2>7, <2>8 DEF IsRest, KeepUnlessSigner, Signs
  <2>9. CASE ~(m + 1 <= n)
    <3>1. KeepUnlessSigner(signerKeys, kept, key) = Append(kept, key)
      BY <2>5, <2>9 DEF KeepUnlessSigner, Signs
    <3>2. /\ kept \in Seq(Keys) /\ Len(kept) = m - n
          /\ \A i \in 1..(m - n) : kept[i] = ks[n + i]
      BY <2>3, <2>4, <2>7, <2>9 DEF IsRest
    <3>3. /\ Append(kept, key) \in Seq(Keys) /\ Len(Append(kept, key)) = m - n + 1
          /\ \A i \in 1..(m - n) : Append(kept, key)[i] = kept[i]
          /\ Append(kept, key)[m - n + 1] = key
      BY <3>2
    <3>4. ASSUME NEW i \in 1..(m - n + 1) PROVE Append(kept, key)[i] = all[n + i]
      <4>1. CASE i = m - n + 1
        BY <2>4, <2>9, <3>3, <4>1
      <4>2. CASE i \in 1..(m - n)
        BY <2>4, <2>9, <3>2, <3>3, <4>2
      <4>3. i = m - n + 1 \/ i \in 1..(m - n)
        BY <2>4, <2>9
      <4> QED
        BY <4>1, <4>2, <4>3
    <3> QED
      BY <2>4, <2>9, <3>1, <3>3, <3>4 DEF IsRest
  <2> QED
    BY <2>8, <2>9
<1>3. \A ks \in Seq(Keys) : ks \in T
  <2> HIDE DEF T
  <2> QED
    BY <1>1, <1>2, Filter!SequenceInduction
<1> QED
  BY <1>3 DEF Remaining

-----------------------------------------------------------------------------
(* What a builder signs, and whether it verifies.                           *)

LEMMA OriginSigned ==
    ASSUME NEW tx, IsTransaction(tx), NEW cond, IsCondition(cond), SameTerms(cond, tx.origin),
           NEW next, next = [tx EXCEPT !.origin = cond]
    PROVE  /\ IsTransaction(next) /\ next.origin = cond
           /\ next.authType = tx.authType /\ next.sponsor = tx.sponsor
           /\ SignBegin(next) = SignBegin(tx)
<1>1. IsTransaction(next) /\ next.origin = cond
  BY OriginReplaced
<1>2. next.authType = tx.authType /\ next.sponsor = tx.sponsor
  BY DEF IsTransaction
<1>3. SignBegin(next) = SignBegin(tx)
  BY <1>1, <1>2 DEF SignBegin, SameTerms
<1> QED
  BY <1>1, <1>2, <1>3

LEMMA SingleOriginSigned ==
    ASSUME NEW tx, IsTransaction(tx), tx.origin.kind = "single", tx.origin.required = 1,
           NEW key \in Keys, tx.origin.keys = <<key>>
    PROVE  /\ IsCondition(SignedOrigin(tx, <<key>>))
           /\ SameTerms(SignedOrigin(tx, <<key>>), tx.origin)
           /\ Verifies(SignedOrigin(tx, <<key>>), SignBegin(tx), "Standard")
<1>1. PICK origin, begin, base :
        origin = tx.origin /\ begin = SignBegin(tx) /\ base = [cond |-> origin, hash |-> begin]
  OBVIOUS
<1>2. PICK result, next :
        result = NextSignature(begin, "Standard", origin, key)
        /\ next = AddSignature(origin, result.field)
  OBVIOUS
<1>3. SignedOrigin(tx, <<key>>) = next
  <2>1. Append(<<>>, key) = <<key>> /\ <<>> \in Seq(Keys)
    OBVIOUS
  <2>2. Signing!Fold(origin, base, Append(<<>>, key)) =
            SignWith(origin, Signing!Fold(origin, base, <<>>), key)
    BY <2>1, Signing!FoldAppend
  <2>3. Signing!Fold(origin, base, <<>>) = base
    BY Signing!FoldEmpty
  <2>4. SignWith(origin, base, key).cond = next
    BY <1>1, <1>2 DEF SignWith
  <2>5. SignedOrigin(tx, <<key>>) = Signing!Fold(origin, base, <<key>>).cond
    BY <1>1 DEF SignedOrigin
  <2> QED
    BY <2>1, <2>2, <2>3, <2>4, <2>5
<1>4. IsCondition(origin) /\ origin.kind = "single" /\ origin.required = 1 /\ origin.keys = <<key>>
  BY <1>1 DEF IsTransaction
<1>5. IsField(result.field) /\ result.field.kind = "signature"
  BY <1>2, NewResult
<1>6. IsCondition(next)
  BY <1>2, <1>4, <1>5, SignedCondition
<1>7. next.fields = <<result.field>> /\ SameTerms(next, origin)
  <2>1. PICK only : only = OnlyField(origin, result.field)
    OBVIOUS
  <2>4. next = [origin EXCEPT !.fields = <<only>>]
    BY <1>2, <1>4, <1>5, <2>1, SingleField
  <2>2. result.field = SignatureField(key, result.field.over)
    BY <1>2 DEF NextSignature, SignatureField
  <2>3. only = result.field
    BY <1>4, <2>1, <2>2, SingleFieldOwn
  <2> QED
    BY <1>4, <2>3, <2>4 DEF IsCondition, SameTerms
<1>8. VerifyFields(next, begin, "Standard").keys = <<key>> /\ NumSigs(next) = 1
  <2>1. next.fee = origin.fee /\ next.nonce = origin.nonce
    BY <1>7 DEF SameTerms
  <2> QED
    BY <1>2, <1>7, <2>1, SingleSigned
<1>9. Verifies(next, begin, "Standard")
  BY <1>4, <1>7, <1>8 DEF Verifies, SameTerms
<1> QED
  BY <1>1, <1>3, <1>6, <1>7, <1>9

\* All the signers' signatures, then all the other keys.
LEMMA MultiOriginSigned ==
    ASSUME NEW tx, IsTransaction(tx), tx.origin.kind = "multi", tx.origin.fields = <<>>,
           tx.origin.keys \in Seq(Keys), NEW signerKeys \in Seq(Keys)
    PROVE  /\ IsCondition(SignedOrigin(tx, signerKeys))
           /\ SameTerms(SignedOrigin(tx, signerKeys), tx.origin)
           /\ NumSigs(SignedOrigin(tx, signerKeys)) = Len(signerKeys)
           /\ VerifyFields(SignedOrigin(tx, signerKeys), SignBegin(tx), "Standard").keys =
                  signerKeys \o Remaining(tx.origin.keys, signerKeys)
<1>1. PICK origin, begin, acc :
        /\ origin = tx.origin /\ begin = SignBegin(tx)
        /\ acc = Signing!Fold(origin, [cond |-> origin, hash |-> begin], signerKeys)
  OBVIOUS
<1>2. PICK signed, rest : signed = acc.cond /\ rest = Remaining(origin.keys, signerKeys)
  OBVIOUS
<1>3. IsCondition(origin) /\ origin.kind = "multi" /\ origin.fields = <<>>
      /\ origin.keys \in Seq(Keys)
  BY <1>1 DEF IsTransaction
<1>4. IsSigned(origin, acc, begin, signerKeys)
  BY <1>1, <1>3, SignedAll
<1>5. /\ IsCondition(signed) /\ SameTerms(signed, origin) /\ signed.kind = "multi"
      /\ FieldKeys(signed) = signerKeys /\ NumSigs(signed) = Len(signerKeys)
      /\ VerifyFields(signed, begin, "Standard").keys = FieldKeys(signed)
  BY <1>2, <1>3, <1>4 DEF IsSigned, SameTerms
<1>6. PICK next : next = AppendKeys(signed, rest)
  OBVIOUS
<1>7. SignedOrigin(tx, signerKeys) = next
  BY <1>1, <1>2, <1>3, <1>6 DEF SignedOrigin
<1>8. rest \in Seq(Keys)
  BY <1>2, <1>3, RemainingHaveNotSigned
<1>9. IsAppended(next, signed, begin, rest)
  BY <1>5, <1>6, <1>8, AppendedAll
<1>10. /\ IsCondition(next) /\ SameTerms(next, origin)
       /\ NumSigs(next) = Len(signerKeys)
       /\ VerifyFields(next, begin, "Standard").keys = signerKeys \o rest
  BY <1>5, <1>9 DEF IsAppended, SameTerms
<1> QED
  BY <1>1, <1>2, <1>7, <1>10

\* The signers followed by the others are the account's keys, in its order, only
\* if the signers come first there and none of their keys comes again.
LEMMA OrderMatters ==
    ASSUME NEW keys \in Seq(Keys), NEW signerKeys \in Seq(Keys), Len(signerKeys) <= Len(keys)
    PROVE  signerKeys \o Remaining(keys, signerKeys) = keys <=>
               /\ \A i \in 1..Len(signerKeys) : signerKeys[i] = keys[i]
               /\ \A i \in 1..Len(signerKeys), j \in Len(signerKeys) + 1..Len(keys) :
                    keys[i] # keys[j]
<1> DEFINE n == Len(signerKeys)
           rest == Remaining(keys, signerKeys)
           all == signerKeys \o rest
           First == \A i \in 1..n : signerKeys[i] = keys[i]
           Apart == \A i \in 1..n, j \in n + 1..Len(keys) : keys[i] # keys[j]
<1>1. n \in Nat /\ DOMAIN signerKeys = 1..n /\ Len(keys) \in Nat /\ n <= Len(keys)
  OBVIOUS
<1>2. rest \in Seq(Keys) /\ \A i \in DOMAIN rest : ~Signs(signerKeys, rest[i])
  BY RemainingHaveNotSigned
<1>3. /\ Len(rest) \in Nat /\ DOMAIN rest = 1..Len(rest)
      /\ all \in Seq(Keys) /\ Len(all) = n + Len(rest)
      /\ \A i \in 1..n : all[i] = signerKeys[i]
      /\ \A i \in 1..Len(rest) : all[n + i] = rest[i]
  <2> HIDE DEF rest
  <2> QED
    BY <1>1, <1>2
<1>4. ASSUME all = keys PROVE First /\ Apart
  <2> HIDE DEF all, rest
  <2>1. First
    BY <1>3, <1>4
  <2>2. ASSUME NEW i \in 1..n, NEW j \in n + 1..Len(keys) PROVE keys[i] # keys[j]
    <3>1. j - n \in 1..Len(rest) /\ keys[j] = rest[j - n]
      <4>1. j - n \in 1..Len(rest) /\ n + (j - n) = j
        BY <1>1, <1>3, <1>4
      <4> QED
        BY <1>3, <1>4, <4>1
    <3>2. ~Signs(signerKeys, keys[j])
      BY <1>2, <1>3, <3>1
    <3>3. Signs(signerKeys, keys[i])
      BY <1>1, <2>1 DEF Signs
    <3> QED
      BY <3>2, <3>3
  <2> QED
    BY <2>1, <2>2
<1>5. ASSUME First, Apart PROVE all = keys
  <2>1. ASSUME NEW i \in 1..Len(keys) PROVE i <= n <=> Signs(signerKeys, keys[i])
    <3>1. ASSUME i <= n PROVE Signs(signerKeys, keys[i])
      BY <1>1, <1>5, <3>1 DEF Signs
    <3>2. ASSUME ~(i <= n), Signs(signerKeys, keys[i]) PROVE FALSE
      BY <1>1, <1>5, <3>2 DEF Signs
    <3> QED
      BY <3>1, <3>2
  <2>2. IsRest(rest, keys, n)
    BY <1>1, <2>1, RemainingIsRest
  <2> HIDE DEF all, rest
  <2>3. Len(rest) = Len(keys) - n
    BY <1>1, <2>2 DEF IsRest
  <2>4. Len(all) = Len(keys)
    BY <1>1, <1>3, <2>3
  <2>5. ASSUME NEW i \in 1..Len(keys) PROVE all[i] = keys[i]
    <3>1. CASE i <= n
      BY <1>1, <1>3, <1>5, <3>1
    <3>2. CASE ~(i <= n)
      <4>1. i - n \in 1..Len(rest) /\ n + (i - n) = i
        BY <1>1, <2>3, <3>2
      <4>2. all[i] = rest[i - n] /\ rest[i - n] = keys[i]
        BY <1>3, <2>2, <4>1 DEF IsRest
      <4> QED
        BY <4>2
    <3> QED
      BY <3>1, <3>2
  <2> QED
    BY <1>3, <2>4, <2>5
<1> QED
  BY <1>4, <1>5

-----------------------------------------------------------------------------
(* The inductive invariant.  What it says of a call, of a sponsor's call and *)
(* of a delivery does not mention a variable, so that a step's outcome can   *)
(* be proved to satisfy it before the step is.                               *)

IsOfRequest(tx, request) ==
    /\ tx.authType = request.authType
    /\ tx.origin.kind = request.kind
    /\ tx.origin.keys = request.keys
    /\ tx.origin.required = request.required

\* An estimated fee is the rate times the size of the transaction as it is now.
IsPriced(call) ==
    call.request.fee = Absent /\ call.request.how # "sync"
        /\ call.request.kind = "single" /\ call.request.authType = "Standard"
    => call.tx.origin.fee = call.rate * Size(call.request.payload, call.tx)

\* A builder's call between its steps.
IsCall(b, call) ==
    /\ DOMAIN call = {"at", "request", "rate", "mined", "tx"}
    /\ call.at \in Awaited \cup {"built", "failed"}
    /\ call.request \in Requests[b]
    /\ call.rate \in Nat /\ call.mined \in Nat
    /\ IsTransaction(call.tx)
    /\ call.tx.sponsor.kind = "single"
    /\ call.at \in {"fee", "nonce", "built"} => IsOfRequest(call.tx, call.request)
    /\ call.at \in {"fee", "nonce"} =>
         /\ call.tx.origin.fields = <<>>
         /\ call.request.nonce \in Nat \cup {Absent}
    /\ call.at = "fee" => call.request.fee = Absent
    /\ call.at = "nonce" => call.request.nonce = Absent /\ IsPriced(call)

HasNonce(call) ==
    call.request.nonce = Absent /\ call.request.how = "signed"
        /\ call.request.kind = "single" /\ call.request.authType = "Standard"
    => call.tx.origin.nonce = call.mined

IsSignedInOrder(call) ==
    call.request.how = "signed" => (VerifiesOrigin(call.tx) <=> SignsInOrder(call.request))

\* What a builder returns.
IsResult(call) == IsPriced(call) /\ HasNonce(call) /\ IsSignedInOrder(call)

IsOutcome(b, call) == IsCall(b, call) /\ (call.at = "built" => IsResult(call))

\* What sponsorTransaction returns for the transaction of a call.
IsSponsored(sponsor, call) ==
    /\ call.tx.authType = "Sponsored" /\ sponsor.tx.authType = "Sponsored"
    /\ VerifiesWhole(sponsor.tx)
    /\ sponsor.tx.origin = call.tx.origin
    /\ sponsor.tx.sponsor.kind = "single"
    /\ sponsor.tx.sponsor.keys = <<sponsor.request.key>>
    /\ sponsor.tx.sponsor.fee = sponsor.fee
    /\ sponsor.tx.sponsor.nonce = sponsor.nonce
    /\ sponsor.request.nonce = Absent => sponsor.nonce = sponsor.mined

\* A sponsor's call, on the transaction of a builder's call.
IsSponsor(s, sponsor, call) ==
    /\ DOMAIN sponsor = {"at", "of", "request", "rate", "mined", "fee", "nonce", "tx"}
    /\ sponsor.at \in {"fee", "nonce", "built", "failed"}
    /\ sponsor.of \in Builders /\ call.at = "built"
    /\ sponsor.request \in SponsorRequests[s]
    /\ sponsor.rate \in Nat /\ sponsor.mined \in Nat
    /\ sponsor.fee \in Nat /\ sponsor.nonce \in Nat
    /\ IsTransaction(sponsor.tx)
    /\ sponsor.request.fee # Absent => sponsor.fee = sponsor.request.fee
    /\ sponsor.request.nonce # Absent => sponsor.nonce = sponsor.request.nonce
    /\ sponsor.at = "fee" => sponsor.request.fee = Absent
    /\ sponsor.at = "nonce" => sponsor.request.nonce = Absent
    /\ sponsor.at \in {"nonce", "built"} /\ sponsor.request.fee = Absent
         /\ call.tx.authType = "Sponsored"
       => sponsor.fee = sponsor.rate * Size(call.request.payload, call.tx)
    /\ sponsor.at = "built" => IsSponsored(sponsor, call)

IsDelivery(sending) ==
    /\ DOMAIN sending = {"at", "sent"}
    /\ sending.at \in {"sending", "taken", "refused", "unknown"}
    /\ sending.sent.of \in Builders /\ IsTransaction(sending.sent.tx)

BuildersInv ==
    /\ DOMAIN calls = Builders
    /\ \A b \in Builders :
         calls[b] # NoCall =>
             /\ IsCall(b, calls[b])
             /\ calls[b].at = "built" /\ Untouched(b) => IsResult(calls[b])

SponsorsInv ==
    /\ DOMAIN sponsored = Sponsors
    /\ \A s \in Sponsors :
         sponsored[s] # NoCall => IsSponsor(s, sponsored[s], calls[sponsored[s].of])

\* What was sent of a standard transaction is what the builder returned.
DeliveriesInv ==
    /\ DOMAIN delivery = Calls
    /\ \A c \in Calls :
         delivery[c] # NotSent =>
             /\ IsDelivery(delivery[c]) /\ IsBuilt(c)
             /\ c \in Builders /\ calls[c].tx.authType = "Standard" /\ Untouched(c) =>
                  delivery[c].sent.tx = calls[c].tx

NodeInv ==
    /\ accounts \in [Accounts -> Nat]
    /\ \A sent \in pool : sent.of \in Builders /\ IsTransaction(sent.tx)

ResultsInv == BuildersInv /\ SponsorsInv /\ DeliveriesInv /\ NodeInv

-----------------------------------------------------------------------------
(* The steps of a builder's call.                                           *)

LEMMA RequestTypes ==
    ASSUME NEW b \in Builders, NEW request \in Requests[b]
    PROVE  /\ request.payload \in {"transfer", "call", "deploy"} /\ request.kind \in Kinds
           /\ request.keys \in Seq(Keys) /\ request.signerKeys \in Seq(Keys)
           /\ request.required \in Nat /\ request.required >= 1
           /\ request.required <= Len(request.keys)
           /\ request.kind = "single" =>
                Len(request.keys) = 1 /\ request.required = 1 /\ request.signerKeys = request.keys
           /\ request.authType \in AuthTypes
           /\ request.fee \in Values /\ request.nonce \in Values
           /\ request.how \in {"signed", "unsigned", "sync"}
<1>1. Len(request.keys) \in Nat
  BY BuilderAssumption
<1>2. request.required \in 1..Len(request.keys)
  BY BuilderAssumption
<1>3. request.required \in Nat /\ request.required >= 1 /\ request.required <= Len(request.keys)
  BY <1>1, <1>2
<1> QED
  BY <1>3, BuilderAssumption

LEMMA OneElement ==
    ASSUME NEW S, NEW s \in Seq(S), Len(s) = 1
    PROVE  \E x \in S : s = <<x>>
<1>1. PICK x : x = s[1]
  OBVIOUS
<1>2. x \in S
  BY <1>1
<1>3. <<x>> \in Seq(S) /\ Len(<<x>>) = 1 /\ <<x>>[1] = s[1]
  BY <1>1, <1>2
<1>4. s = <<x>>
  BY <1>3
<1> QED
  BY <1>2, <1>4

\* Whether signing makes the origin verify is a matter of the signers' order alone.
LEMMA VerifiesInOrder ==
    ASSUME NEW b \in Builders, NEW request \in Requests[b],
           NEW tx, IsTransaction(tx), IsOfRequest(tx, request), tx.origin.fields = <<>>,
           NEW signed, signed = SignedOrigin(tx, request.signerKeys)
    PROVE  /\ IsCondition(signed) /\ SameTerms(signed, tx.origin)
           /\ Verifies(signed, SignBegin(tx), "Standard") <=> SignsInOrder(request)
<1>1. PICK keys, signerKeys :
        /\ keys = request.keys /\ signerKeys = request.signerKeys
        /\ signed = SignedOrigin(tx, signerKeys)
  OBVIOUS
<1>2. keys \in Seq(Keys) /\ signerKeys \in Seq(Keys)
  BY <1>1, RequestTypes
<1>3. tx.origin.keys = keys /\ tx.origin.required = request.required
      /\ tx.origin.kind = request.kind /\ request.kind \in Kinds
  BY <1>1, RequestTypes DEF IsOfRequest
<1>4. IsCondition(signed) /\ SameTerms(signed, tx.origin)
      /\ (Verifies(signed, SignBegin(tx), "Standard") <=> SignsInOrder(request))
  <2>1. CASE tx.origin.kind = "single"
    <3>1. request.required = 1 /\ signerKeys = keys /\ Len(keys) = 1
      BY <1>1, <1>3, <2>1, RequestTypes
    <3>2. PICK key \in Keys : keys = <<key>>
      BY <1>2, <3>1, OneElement
    <3>3. signerKeys = <<key>> /\ tx.origin.keys = <<key>> /\ tx.origin.required = 1
      BY <1>3, <3>1, <3>2
    <3>4. IsCondition(signed) /\ SameTerms(signed, tx.origin)
          /\ Verifies(signed, SignBegin(tx), "Standard")
      BY <1>1, <2>1, <3>3, SingleOriginSigned
    <3>5. SignsInOrder(request)
      BY <1>1, <3>1 DEF SignsInOrder
    <3> QED
      BY <3>4, <3>5
  <2>2. CASE tx.origin.kind = "multi"
    <3>1. /\ IsCondition(signed) /\ SameTerms(signed, tx.origin)
          /\ NumSigs(signed) = Len(signerKeys)
          /\ VerifyFields(signed, SignBegin(tx), "Standard").keys =
                 signerKeys \o Remaining(keys, signerKeys)
      <4>1. tx.origin.keys \in Seq(Keys)
        BY <1>2, <1>3
      <4>2. /\ IsCondition(SignedOrigin(tx, signerKeys))
            /\ SameTerms(SignedOrigin(tx, signerKeys), tx.origin)
            /\ NumSigs(SignedOrigin(tx, signerKeys)) = Len(signerKeys)
        BY <1>2, <2>2, <4>1, MultiOriginSigned
      <4>3. VerifyFields(SignedOrigin(tx, signerKeys), SignBegin(tx), "Standard").keys =
                signerKeys \o Remaining(tx.origin.keys, signerKeys)
        BY <1>2, <2>2, <4>1, MultiOriginSigned
      <4> QED
        BY <1>1, <1>3, <4>2, <4>3
    <3>2. Verifies(signed, SignBegin(tx), "Standard") <=>
              Len(signerKeys) = request.required /\ signerKeys \o Remaining(keys, signerKeys) = keys
      BY <1>3, <3>1 DEF Verifies, SameTerms
    <3>3. CASE Len(signerKeys) # request.required
      BY <1>1, <3>1, <3>2, <3>3 DEF SignsInOrder
    <3>4. CASE Len(signerKeys) = request.required
      <4>1. Len(signerKeys) <= Len(keys)
        BY <1>1, <3>4, RequestTypes
      <4>2. signerKeys \o Remaining(keys, signerKeys) = keys <=>
                /\ \A i \in 1..Len(signerKeys) : signerKeys[i] = keys[i]
                /\ \A i \in 1..Len(signerKeys), j \in Len(signerKeys) + 1..Len(keys) :
                     keys[i] # keys[j]
        BY <1>2, <4>1, OrderMatters
      <4>3. SignsInOrder(request) <=>
                /\ \A i \in 1..Len(signerKeys) : signerKeys[i] = keys[i]
                /\ \A i \in 1..Len(signerKeys), j \in Len(signerKeys) + 1..Len(keys) :
                     keys[i] # keys[j]
        BY <1>1, <3>4 DEF SignsInOrder
      <4> QED
        BY <3>1, <3>2, <3>4, <4>2, <4>3
    <3> QED
      BY <3>3, <3>4
  <2> QED
    BY <1>3, <2>1, <2>2 DEF Kinds
<1> QED
  BY <1>4

LEMMA SizeType ==
    ASSUME NEW payload \in {"transfer", "call", "deploy"}, NEW tx, IsTransaction(tx)
    PROVE  Size(payload, tx) \in Nat
<1>1. PayloadSize[payload] \in Nat
  BY BuilderAssumption
<1>2. ASSUME NEW cond, IsCondition(cond) PROVE ConditionSize(cond) \in Nat
  BY <1>2, FieldCount DEF ConditionSize
<1>3. ConditionSize(tx.origin) \in Nat /\ ConditionSize(tx.sponsor) \in Nat
  BY <1>2 DEF IsTransaction
<1> QED
  BY <1>1, <1>3 DEF Size

\* What there is when fee and nonce are.
IsReady(b, call) ==
    /\ DOMAIN call = {"at", "request", "rate", "mined", "tx"}
    /\ call.request \in Requests[b]
    /\ call.rate \in Nat /\ call.mined \in Nat
    /\ IsTransaction(call.tx) /\ IsOfRequest(call.tx, call.request)
    /\ call.tx.origin.fields = <<>> /\ call.tx.sponsor.kind = "single"
    /\ IsPriced(call)

LEMMA CompletedOutcome ==
    ASSUME NEW b \in Builders, NEW call, IsReady(b, call), HasNonce(call)
    PROVE  IsOutcome(b, Completed(call))
<1>1. PICK request, tx : request = call.request /\ tx = call.tx
  OBVIOUS
<1>2. /\ request \in Requests[b] /\ IsTransaction(tx) /\ IsOfRequest(tx, request)
      /\ tx.origin.fields = <<>>
  BY <1>1 DEF IsReady
<1>3. PICK next : next = [tx EXCEPT !.origin = SignedOrigin(tx, request.signerKeys)]
  OBVIOUS
<1>4. /\ IsTransaction(next) /\ next.authType = tx.authType /\ next.sponsor = tx.sponsor
      /\ SameTerms(next.origin, tx.origin)
      /\ VerifiesOrigin(next) <=> SignsInOrder(request)
  <2>1. PICK signed : signed = SignedOrigin(tx, request.signerKeys)
    OBVIOUS
  <2>2. next = [tx EXCEPT !.origin = signed]
    BY <1>3, <2>1
  <2>3. /\ IsCondition(signed) /\ SameTerms(signed, tx.origin)
        /\ Verifies(signed, SignBegin(tx), "Standard") <=> SignsInOrder(request)
    BY <1>2, <2>1, VerifiesInOrder
  <2>4. /\ IsTransaction(next) /\ next.origin = signed
        /\ next.authType = tx.authType /\ next.sponsor = tx.sponsor
        /\ SignBegin(next) = SignBegin(tx)
    BY <1>2, <2>2, <2>3, OriginSigned
  <2> QED
    BY <2>3, <2>4 DEF VerifiesOrigin
<1>5. IsCall(b, Failed(call)) /\ Failed(call).at # "built"
  BY DEF IsReady, IsCall, Failed
<1>6. ASSUME request.how # "signed" PROVE IsOutcome(b, [call EXCEPT !.at = "built"])
  <2>1. PICK done : done = [call EXCEPT !.at = "built"]
    OBVIOUS
  <2>2. /\ done.at = "built" /\ done.request = call.request /\ done.rate = call.rate
        /\ done.mined = call.mined /\ done.tx = call.tx
        /\ DOMAIN done = {"at", "request", "rate", "mined", "tx"}
    BY <2>1 DEF IsReady
  <2>3. IsCall(b, done)
    BY <2>2 DEF IsReady, IsCall
  <2>4. IsResult(done)
    BY <1>1, <1>6, <2>2 DEF IsReady, IsResult, IsPriced, HasNonce, IsSignedInOrder
  <2> QED
    BY <2>1, <2>3, <2>4 DEF IsOutcome
<1>7. IsOutcome(b, [call EXCEPT !.at = "built", !.tx.origin = SignedOrigin(tx, request.signerKeys)])
  <2>1. PICK done :
          done = [call EXCEPT !.at = "built", !.tx.origin = SignedOrigin(tx, request.signerKeys)]
    OBVIOUS
  <2>2. /\ done.at = "built" /\ done.request = call.request /\ done.rate = call.rate
        /\ done.mined = call.mined /\ done.tx = next
        /\ DOMAIN done = {"at", "request", "rate", "mined", "tx"}
    BY <1>1, <1>3, <2>1 DEF IsReady
  <2>3. IsCall(b, done)
    BY <1>1, <1>2, <1>4, <2>2 DEF IsReady, IsCall, IsOfRequest, SameTerms
  <2>4. IsPriced(done)
    <3> SUFFICES ASSUME request.fee = Absent, request.how # "sync", request.kind = "single",
                        request.authType = "Standard"
                 PROVE  next.origin.fee = call.rate * Size(request.payload, next)
      BY <1>1, <2>2 DEF IsPriced
    <3>1. tx.origin.fee = call.rate * Size(request.payload, tx)
      BY <1>1 DEF IsReady, IsPriced
    <3>2. next.origin.fee = tx.origin.fee
      BY <1>4 DEF SameTerms
    <3>3. Size(request.payload, next) = Size(request.payload, tx)
      <4>1. /\ next.origin.kind = "single" /\ tx.origin.kind = "single"
            /\ next.authType = "Standard" /\ next.authType = tx.authType
        BY <1>2, <1>4 DEF IsOfRequest, SameTerms
      <4> QED
        BY <4>1 DEF Size, ConditionSize
    <3> QED
      BY <3>1, <3>2, <3>3
  <2>5. HasNonce(done)
    BY <1>1, <1>4, <2>2 DEF HasNonce, SameTerms
  <2>6. IsSignedInOrder(done)
    BY <1>1, <1>4, <2>2 DEF IsSignedInOrder
  <2> QED
    BY <2>1, <2>3, <2>4, <2>5, <2>6 DEF IsOutcome, IsResult
<1>8. CASE request.how # "signed"
  <2>1. Completed(call) = [call EXCEPT !.at = "built"]
    BY <1>1, <1>8 DEF Completed
  <2> QED
    BY <1>6, <1>8, <2>1
<1>9. CASE request.how = "signed" /\ CanSign(tx, request.signerKeys)
  <2>1. Completed(call) =
            [call EXCEPT !.at = "built", !.tx.origin = SignedOrigin(tx, request.signerKeys)]
    BY <1>1, <1>9 DEF Completed
  <2> QED
    BY <1>7, <2>1
<1>10. CASE request.how = "signed" /\ ~CanSign(tx, request.signerKeys)
  <2>1. Completed(call) = Failed(call)
    BY <1>1, <1>10 DEF Completed
  <2> QED
    BY <1>5, <2>1 DEF IsOutcome
<1> QED
  BY <1>8, <1>9, <1>10

\* What the setters leave as it was.
SameShape(next, tx) ==
    /\ next.authType = tx.authType
    /\ next.origin.kind = tx.origin.kind /\ next.origin.keys = tx.origin.keys
    /\ next.origin.required = tx.origin.required /\ next.origin.fields = tx.origin.fields
    /\ next.sponsor.kind = tx.sponsor.kind

LEMMA FeeShape ==
    ASSUME NEW tx, IsTransaction(tx), NEW fee \in Nat, NEW next, next = SetFee(tx, fee)
    PROVE  IsTransaction(next) /\ SameShape(next, tx)
<1>1. IsTransaction(next)
  BY FeeSet
<1>2. CASE tx.authType = "Standard"
  <2>1. next = [tx EXCEPT !.origin.fee = fee]
    BY <1>2 DEF SetFee
  <2> QED
    BY <1>1, <2>1 DEF IsTransaction, IsCondition, SameShape
<1>3. CASE tx.authType # "Standard"
  <2>1. next = [tx EXCEPT !.sponsor.fee = fee]
    BY <1>3 DEF SetFee
  <2> QED
    BY <1>1, <2>1 DEF IsTransaction, IsCondition, SameShape
<1> QED
  BY <1>2, <1>3

LEMMA NonceShape ==
    ASSUME NEW tx, IsTransaction(tx), NEW nonce \in Nat, NEW next, next = SetNonce(tx, nonce)
    PROVE  /\ IsTransaction(next) /\ SameShape(next, tx)
           /\ next.origin.nonce = nonce /\ next.origin.fee = tx.origin.fee
<1>1. IsTransaction(next)
  BY NonceSet
<1> QED
  BY <1>1 DEF SetNonce, IsTransaction, IsCondition, SameShape

LEMMA OriginFee ==
    ASSUME NEW tx, IsTransaction(tx), tx.authType = "Standard", NEW fee, NEW next, next = SetFee(tx, fee)
    PROVE  next.origin.fee = fee
BY DEF SetFee, IsTransaction, IsCondition

\* The transaction made of a request's account, with any fee and nonce.
LEMMA ConstructedTransaction ==
    ASSUME NEW b \in Builders, NEW request \in Requests[b], NEW given,
           given.kind = request.kind, given.keys = request.keys,
           given.required = request.required, given.authType = request.authType,
           given.fee \in Nat \cup {Absent}, given.nonce \in Nat \cup {Absent},
           NEW tx, tx = Constructed(given)
    PROVE  /\ IsTransaction(tx) /\ IsOfRequest(tx, request)
           /\ tx.origin.fields = <<>> /\ tx.sponsor.kind = "single"
<1>1. PICK fee \in Nat, nonce \in Nat :
        /\ fee = IF given.fee = Absent THEN 0 ELSE given.fee
        /\ nonce = IF given.nonce = Absent THEN 0 ELSE given.nonce
  OBVIOUS
<1>2. PICK origin : origin = Condition(given.kind, given.keys, given.required, fee, nonce)
  OBVIOUS
<1>3. IsCondition(origin)
  <2>1. given.kind \in Kinds /\ given.required \in Nat
    BY RequestTypes
  <2>2. given.keys \in Seq(Keys \cup {NoKey})
    <3>1. given.keys \in Seq(Keys)
      BY RequestTypes
    <3> QED
      BY <3>1, SeqMonotonic
  <2> QED
    BY <1>2, <2>1, <2>2, NewCondition
<1>4. /\ origin.kind = request.kind /\ origin.keys = request.keys
      /\ origin.required = request.required /\ origin.fields = <<>>
  BY <1>2 DEF Condition
<1>5. IsCondition(NoSponsor) /\ NoSponsor.kind = "single"
  <2>1. <<NoKey>> \in Seq(Keys \cup {NoKey})
    OBVIOUS
  <2> QED
    BY <2>1, NewCondition DEF NoSponsor, SingleSig, Condition, Kinds
<1>6. tx = [authType |-> given.authType, origin |-> origin, sponsor |-> NoSponsor]
  BY <1>1, <1>2 DEF Constructed
<1>7. given.authType \in AuthTypes
  BY RequestTypes
<1> QED
  BY <1>3, <1>4, <1>5, <1>6, <1>7 DEF IsTransaction, IsOfRequest

\* A builder's call that goes on with its request's transaction.
IsUnderWay(b, call) ==
    /\ DOMAIN call = {"at", "request", "rate", "mined", "tx"}
    /\ call.request \in Requests[b]
    /\ call.rate \in Nat /\ call.mined \in Nat
    /\ IsTransaction(call.tx) /\ call.tx.sponsor.kind = "single"

LEMMA CallUnderWay ==
    ASSUME NEW b, NEW call, IsCall(b, call)
    PROVE  IsUnderWay(b, call)
BY DEF IsCall, IsUnderWay

LEMMA FailedOutcome ==
    ASSUME NEW b, NEW call, IsUnderWay(b, call)
    PROVE  IsOutcome(b, Failed(call))
<1>1. PICK failed : failed = Failed(call)
  OBVIOUS
<1>2. /\ failed.at = "failed" /\ failed.request = call.request /\ failed.rate = call.rate
      /\ failed.mined = call.mined /\ failed.tx = call.tx
      /\ DOMAIN failed = {"at", "request", "rate", "mined", "tx"}
  BY <1>1 DEF IsUnderWay, Failed
<1>3. IsCall(b, failed)
  BY <1>2 DEF IsUnderWay, IsCall
<1> QED
  BY <1>1, <1>2, <1>3 DEF IsOutcome

LEMMA WithFeeOutcome ==
    ASSUME NEW b \in Builders, NEW call, IsReady(b, call), call.request.nonce \in Nat \cup {Absent}
    PROVE  IsOutcome(b, WithFee(call))
<1>1. CASE call.request.nonce = Absent
  <2>1. PICK next : next = [call EXCEPT !.at = "nonce"]
    OBVIOUS
  <2>2. /\ next.at = "nonce" /\ next.request = call.request /\ next.rate = call.rate
        /\ next.mined = call.mined /\ next.tx = call.tx
        /\ DOMAIN next = {"at", "request", "rate", "mined", "tx"}
    BY <2>1 DEF IsReady
  <2>3. IsPriced(next)
    BY <2>2 DEF IsReady, IsPriced
  <2>4. IsCall(b, next)
    BY <1>1, <2>2, <2>3 DEF IsReady, IsCall, Awaited
  <2>5. WithFee(call) = next
    BY <1>1, <2>1 DEF WithFee
  <2> QED
    BY <2>2, <2>4, <2>5 DEF IsOutcome
<1>2. CASE call.request.nonce # Absent
  <2>1. HasNonce(call)
    BY <1>2 DEF HasNonce
  <2>2. WithFee(call) = Completed(call)
    BY <1>2 DEF WithFee
  <2> QED
    BY <2>1, <2>2, CompletedOutcome
<1> QED
  BY <1>1, <1>2

\* Construction: up to the next await, or to the end.
LEMMA ConstructionOutcome ==
    ASSUME NEW b \in Builders, NEW call, IsUnderWay(b, call)
    PROVE  IsOutcome(b, Construction(call))
<1>1. CASE Undefined \in {call.request.fee, call.request.nonce}
  BY <1>1, FailedOutcome DEF Construction
<1>2. CASE Undefined \notin {call.request.fee, call.request.nonce}
  <2>1. PICK request, tx, made :
          /\ request = call.request /\ tx = Constructed(request)
          /\ made = [call EXCEPT !.tx = tx]
    OBVIOUS
  <2>2. request \in Requests[b] /\ request.fee \in Nat \cup {Absent}
        /\ request.nonce \in Nat \cup {Absent}
    <3>1. request \in Requests[b]
      BY <2>1 DEF IsUnderWay
    <3>2. request.fee \in Values /\ request.nonce \in Values
      BY <3>1, RequestTypes
    <3> QED
      BY <1>2, <2>1, <3>1, <3>2 DEF Values
  <2>3. /\ IsTransaction(tx) /\ IsOfRequest(tx, request)
        /\ tx.origin.fields = <<>> /\ tx.sponsor.kind = "single"
    BY <2>1, <2>2, ConstructedTransaction
  <2>4. CASE request.how = "sync"
    <3>1. PICK priced, final, next :
            /\ priced = SetFee(tx, 0) /\ final = SetNonce(priced, 0)
            /\ next = [made EXCEPT !.tx = SetNonce(SetFee(@, 0), 0)]
      OBVIOUS
    <3>2. IsTransaction(priced) /\ SameShape(priced, tx)
      BY <2>3, <3>1, FeeShape
    <3>3. IsTransaction(final) /\ SameShape(final, priced)
      BY <3>1, <3>2, NonceShape
    <3>4. /\ next.request = request /\ next.rate = call.rate /\ next.mined = call.mined
          /\ next.tx = final /\ DOMAIN next = {"at", "request", "rate", "mined", "tx"}
      BY <2>1, <3>1 DEF IsUnderWay
    <3>5. IsPriced(next) /\ HasNonce(next)
      BY <2>4, <3>4 DEF IsPriced, HasNonce
    <3>6. IsReady(b, next)
      BY <2>2, <2>3, <3>2, <3>3, <3>4, <3>5 DEF IsReady, IsUnderWay, IsOfRequest, SameShape
    <3>7. Construction(call) = Completed(next)
      BY <1>2, <2>1, <2>4, <3>1 DEF Construction, ConstructionOf
    <3> QED
      BY <3>5, <3>6, <3>7, CompletedOutcome
  <2>5. CASE request.how # "sync" /\ request.fee = Absent
    <3>1. PICK next : next = [made EXCEPT !.at = "fee"]
      OBVIOUS
    <3>2. /\ next.at = "fee" /\ next.request = request /\ next.rate = call.rate
          /\ next.mined = call.mined
          /\ next.tx = tx /\ DOMAIN next = {"at", "request", "rate", "mined", "tx"}
      BY <2>1, <3>1 DEF IsUnderWay
    <3>3. IsCall(b, next)
      BY <2>2, <2>3, <2>5, <3>2 DEF IsCall, IsUnderWay, Awaited
    <3>4. Construction(call) = next
      BY <1>2, <2>1, <2>5, <3>1 DEF Construction, ConstructionOf
    <3> QED
      BY <3>2, <3>3, <3>4 DEF IsOutcome
  <2>6. CASE request.how # "sync" /\ request.fee # Absent
    <3>1. /\ made.request = request /\ made.rate = call.rate /\ made.mined = call.mined
          /\ made.tx = tx /\ DOMAIN made = {"at", "request", "rate", "mined", "tx"}
      BY <2>1 DEF IsUnderWay
    <3>2. IsPriced(made)
      BY <2>6, <3>1 DEF IsPriced
    <3>3. IsReady(b, made)
      BY <2>2, <2>3, <3>1, <3>2 DEF IsReady, IsUnderWay
    <3>4. Construction(call) = WithFee(made)
      BY <1>2, <2>1, <2>6 DEF Construction, ConstructionOf
    <3> QED
      BY <2>2, <3>1, <3>3, <3>4, WithFeeOutcome
  <2> QED
    BY <2>4, <2>5, <2>6
<1> QED
  BY <1>1, <1>2

LEMMA BuildOutcome ==
    ASSUME NEW b \in Builders, NEW request \in Requests[b], NEW call,
           call = [at |-> "abi", request |-> request, rate |-> 0, mined |-> 0,
                   tx |-> Constructed([request EXCEPT !.fee = Absent, !.nonce = Absent])]
    PROVE  IsOutcome(b, call) /\ IsOutcome(b, Construction(call))
<1>1. PICK given, tx :
        given = [request EXCEPT !.fee = Absent, !.nonce = Absent] /\ tx = Constructed(given)
  OBVIOUS
<1>2. DOMAIN request = {"payload", "kind", "keys", "signerKeys", "required", "authType",
                        "fee", "nonce", "validate", "how"}
  BY BuilderAssumption
<1>3. /\ given.kind = request.kind /\ given.keys = request.keys
      /\ given.required = request.required /\ given.authType = request.authType
      /\ given.fee = Absent /\ given.nonce = Absent
  BY <1>1, <1>2
<1>4. IsTransaction(tx) /\ tx.sponsor.kind = "single"
  BY <1>1, <1>3, ConstructedTransaction
<1>5. /\ call.at = "abi" /\ call.request = request /\ call.rate = 0 /\ call.mined = 0
      /\ call.tx = tx /\ DOMAIN call = {"at", "request", "rate", "mined", "tx"}
  BY <1>1
<1>6. IsUnderWay(b, call)
  BY <1>4, <1>5 DEF IsUnderWay
<1>7. IsCall(b, call)
  BY <1>4, <1>5 DEF IsCall, Awaited
<1> QED
  BY <1>5, <1>6, <1>7, ConstructionOutcome DEF IsOutcome

LEMMA FeeOutcome ==
    ASSUME NEW b \in Builders, NEW call, IsCall(b, call), call.at = "fee",
           NEW rate \in Rates, NEW fee, fee = Estimate(call.request.payload, call.tx, rate)
    PROVE  IsOutcome(b, WithFee([call EXCEPT !.tx = SetFee(@, fee), !.rate = rate]))
<1>1. PICK tx, priced, next :
        /\ tx = call.tx /\ priced = SetFee(tx, fee)
        /\ next = [call EXCEPT !.tx = SetFee(@, fee), !.rate = rate]
  OBVIOUS
<1>2. PICK request, size : request = call.request /\ size = Size(request.payload, tx)
  OBVIOUS
<1>3. /\ request \in Requests[b] /\ IsTransaction(tx) /\ IsOfRequest(tx, request)
      /\ tx.origin.fields = <<>> /\ tx.sponsor.kind = "single"
      /\ request.nonce \in Nat \cup {Absent}
  BY <1>1, <1>2 DEF IsCall
<1>4. rate \in Nat /\ fee = rate * size /\ fee \in Nat
  <2>1. rate \in Nat
    BY BuilderAssumption
  <2>2. request.payload \in {"transfer", "call", "deploy"}
    BY <1>3, RequestTypes
  <2>3. size \in Nat
    BY <1>2, <1>3, <2>2, SizeType
  <2>4. fee = rate * size
    BY <1>1, <1>2 DEF Estimate
  <2> QED
    BY <2>1, <2>3, <2>4
<1>5. IsTransaction(priced) /\ SameShape(priced, tx)
  BY <1>1, <1>3, <1>4, FeeShape
<1>6. /\ next.request = request /\ next.rate = rate /\ next.mined = call.mined
      /\ next.tx = priced /\ DOMAIN next = {"at", "request", "rate", "mined", "tx"}
  BY <1>1, <1>2 DEF IsCall
<1>7. IsPriced(next)
  <2> SUFFICES ASSUME request.kind = "single", request.authType = "Standard"
               PROVE  priced.origin.fee = rate * Size(request.payload, priced)
    BY <1>6 DEF IsPriced
  <2>1. /\ tx.origin.kind = "single" /\ tx.authType = "Standard"
        /\ priced.origin.kind = "single" /\ priced.authType = "Standard"
    BY <1>3, <1>5 DEF IsOfRequest, SameShape
  <2>2. Size(request.payload, priced) = size
    BY <1>2, <2>1 DEF Size, ConditionSize
  <2>3. priced.origin.fee = fee
    BY <1>1, <1>3, <2>1, OriginFee
  <2> QED
    BY <1>4, <2>2, <2>3
<1>8. IsReady(b, next)
  BY <1>3, <1>4, <1>5, <1>6, <1>7 DEF IsReady, IsCall, IsOfRequest, SameShape
<1> QED
  BY <1>1, <1>3, <1>6, <1>8, WithFeeOutcome

LEMMA NonceOutcome ==
    ASSUME NEW b \in Builders, NEW call, IsCall(b, call), call.at = "nonce",
           NEW nonce \in Nat, NEW mined \in Nat, call.request.kind = "single" => nonce = mined
    PROVE  IsOutcome(b, Completed([call EXCEPT !.tx = SetNonce(@, nonce), !.mined = mined]))
<1>1. PICK tx, final, next :
        /\ tx = call.tx /\ final = SetNonce(tx, nonce)
        /\ next = [call EXCEPT !.tx = SetNonce(@, nonce), !.mined = mined]
  OBVIOUS
<1>2. PICK request : request = call.request
  OBVIOUS
<1>3. /\ request \in Requests[b] /\ IsTransaction(tx) /\ IsOfRequest(tx, request)
      /\ tx.origin.fields = <<>> /\ tx.sponsor.kind = "single"
  BY <1>1, <1>2 DEF IsCall
<1>4. /\ IsTransaction(final) /\ SameShape(final, tx)
      /\ final.origin.nonce = nonce /\ final.origin.fee = tx.origin.fee
  BY <1>1, <1>3, NonceShape
<1>5. /\ next.request = request /\ next.rate = call.rate /\ next.mined = mined
      /\ next.tx = final /\ DOMAIN next = {"at", "request", "rate", "mined", "tx"}
  BY <1>1, <1>2 DEF IsCall
<1>6. IsPriced(next)
  <2> SUFFICES ASSUME request.fee = Absent, request.how # "sync", request.kind = "single",
                      request.authType = "Standard"
               PROVE  final.origin.fee = call.rate * Size(request.payload, final)
    BY <1>5 DEF IsPriced
  <2>1. /\ tx.origin.kind = "single" /\ tx.authType = "Standard"
        /\ final.origin.kind = "single" /\ final.authType = "Standard"
    BY <1>3, <1>4 DEF IsOfRequest, SameShape
  <2>2. Size(request.payload, final) = Size(request.payload, tx)
    BY <2>1 DEF Size, ConditionSize
  <2>3. tx.origin.fee = call.rate * Size(request.payload, tx)
    BY <1>1, <1>2 DEF IsCall, IsPriced
  <2> QED
    BY <1>4, <2>2, <2>3
<1>7. HasNonce(next)
  BY <1>2, <1>4, <1>5 DEF HasNonce
<1>8. IsReady(b, next)
  BY <1>3, <1>4, <1>5, <1>6 DEF IsReady, IsCall, IsOfRequest, SameShape
<1> QED
  BY <1>1, <1>7, <1>8, CompletedOutcome

-----------------------------------------------------------------------------
(* What a step of a builder's call preserves.                               *)

LEMMA NonceType ==
    ASSUME NodeInv, NEW address
    PROVE  NonceOf(address) \in Nat
BY DEF NodeInv, NonceOf

\* A builder's call takes a step, and nothing else happens.
BuilderMoves(b, call) ==
    /\ calls' = [calls EXCEPT ![b] = call]
    /\ UNCHANGED <<sponsored, delivery, accounts, pool>>
    /\ calls[b].at # "built"
    /\ IsOutcome(b, call)

LEMMA AwaitingCall ==
    ASSUME ResultsInv, NEW b \in Builders, calls[b].at \in Awaited
    PROVE  IsCall(b, calls[b])
<1>1. calls[b] # NoCall
  BY DEF NoCall, Awaited
<1> QED
  BY <1>1 DEF ResultsInv, BuildersInv

LEMMA BuilderStepsMove ==
    ASSUME ResultsInv, NEW b \in Builders, BuilderSteps(b)
    PROVE  \E call : BuilderMoves(b, call)
<1>1. PICK old : old = calls[b]
  OBVIOUS
<1>2. CASE \E request \in Requests[b] : Build(b, request)
  <2>1. PICK request \in Requests[b] : Build(b, request)
    BY <1>2
  <2>2. PICK call :
          call = [at |-> "abi", request |-> request, rate |-> 0, mined |-> 0,
                  tx |-> Constructed([request EXCEPT !.fee = Absent, !.nonce = Absent])]
    OBVIOUS
  <2>3. IsOutcome(b, call) /\ IsOutcome(b, Construction(call))
    BY <2>2, BuildOutcome
  <2>4. /\ calls' = [calls EXCEPT ![b] = call] \/ calls' = [calls EXCEPT ![b] = Construction(call)]
        /\ UNCHANGED <<sponsored, delivery, accounts, pool>> /\ calls[b].at # "built"
    <3>1. PICK next :
            next = IF request.payload = "call" /\ request.validate
                   THEN call ELSE Construction(call)
      OBVIOUS
    <3>2. next = call \/ next = Construction(call)
      BY <3>1
    <3>3. SetCall(b, next) /\ calls[b] = NoCall
      BY <2>1, <2>2, <3>1 DEF Build
    <3>4. calls' = [calls EXCEPT ![b] = next] /\ UNCHANGED <<sponsored, delivery, accounts, pool>>
      BY <3>3 DEF SetCall
    <3>5. calls[b].at # "built"
      BY <3>3 DEF NoCall
    <3> QED
      BY <3>2, <3>4, <3>5
  <2> QED
    BY <2>3, <2>4 DEF BuilderMoves
<1>3. CASE \E fits \in BOOLEAN : AbiAnswered(b, fits)
  <2>1. /\ \/ calls' = [calls EXCEPT ![b] = Construction(old)]
           \/ calls' = [calls EXCEPT ![b] = Failed(old)]
        /\ UNCHANGED <<sponsored, delivery, accounts, pool>> /\ old.at = "abi"
    BY <1>1, <1>3 DEF AbiAnswered, SetCall
  <2>2. IsUnderWay(b, old)
    BY <1>1, <2>1, AwaitingCall, CallUnderWay DEF Awaited
  <2>3. IsOutcome(b, Construction(old)) /\ IsOutcome(b, Failed(old))
    BY <2>2, ConstructionOutcome, FailedOutcome
  <2> QED
    BY <1>1, <2>1, <2>3 DEF BuilderMoves
<1>4. CASE \E rate \in Rates : FeeAnswered(b, rate)
  <2>1. PICK rate \in Rates : FeeAnswered(b, rate)
    BY <1>4
  <2>2. PICK fee, call :
          /\ fee = Estimate(old.request.payload, old.tx, rate)
          /\ call = WithFee([old EXCEPT !.tx = SetFee(@, fee), !.rate = rate])
    OBVIOUS
  <2>3. /\ calls' = [calls EXCEPT ![b] = call] /\ old.at = "fee"
        /\ UNCHANGED <<sponsored, delivery, accounts, pool>>
    BY <1>1, <2>1, <2>2 DEF FeeAnswered, SetCall
  <2>4. IsCall(b, old)
    BY <1>1, <2>3, AwaitingCall DEF Awaited
  <2>5. IsOutcome(b, call)
    BY <2>2, <2>3, <2>4, FeeOutcome
  <2> QED
    BY <1>1, <2>3, <2>5 DEF BuilderMoves
<1>5. CASE NonceAnswered(b)
  <2>1. PICK nonce, mined, call :
          /\ nonce = NonceOf(LookedUp(old.tx)) /\ mined = NonceOf(Payer(old.tx.origin))
          /\ call = Completed([old EXCEPT !.tx = SetNonce(@, nonce), !.mined = mined])
    OBVIOUS
  <2>2. /\ calls' = [calls EXCEPT ![b] = call] /\ old.at = "nonce"
        /\ UNCHANGED <<sponsored, delivery, accounts, pool>>
    BY <1>1, <1>5, <2>1 DEF NonceAnswered, SetCall
  <2>3. IsCall(b, old)
    BY <1>1, <2>2, AwaitingCall DEF Awaited
  <2>4. nonce \in Nat /\ mined \in Nat
    BY <2>1, NonceType DEF ResultsInv
  <2>5. old.request.kind = "single" => nonce = mined
    BY <2>1, <2>2, <2>3 DEF IsCall, IsOfRequest, LookedUp, Payer
  <2>6. IsOutcome(b, call)
    BY <2>1, <2>2, <2>3, <2>4, <2>5, NonceOutcome
  <2> QED
    BY <1>1, <2>2, <2>6 DEF BuilderMoves
<1>6. CASE FetchFails(b)
  <2>1. /\ calls' = [calls EXCEPT ![b] = Failed(old)] /\ old.at \in Awaited
        /\ UNCHANGED <<sponsored, delivery, accounts, pool>>
    BY <1>1, <1>6 DEF FetchFails, SetCall
  <2>2. IsOutcome(b, Failed(old))
    BY <1>1, <2>1, AwaitingCall, CallUnderWay, FailedOutcome
  <2> QED
    BY <1>1, <2>1, <2>2 DEF BuilderMoves, Awaited
<1> QED
  BY <1>2, <1>3, <1>4, <1>5, <1>6 DEF BuilderSteps

LEMMA NodeKept ==
    ASSUME NodeInv, UNCHANGED <<accounts, pool>>
    PROVE  NodeInv'
BY DEF NodeInv

LEMMA BuilderMovesPreserves ==
    ASSUME ResultsInv, NEW b \in Builders, NEW call, BuilderMoves(b, call)
    PROVE  ResultsInv'
<1>1. /\ DOMAIN calls = Builders /\ DOMAIN calls' = Builders
      /\ calls'[b] = call /\ \A other \in Builders : other # b => calls'[other] = calls[other]
      /\ sponsored' = sponsored /\ delivery' = delivery
      /\ calls[b].at # "built" /\ IsOutcome(b, call)
  BY DEF BuilderMoves, ResultsInv, BuildersInv
<1>2. ASSUME NEW s \in Sponsors, sponsored[s] # NoCall
      PROVE  /\ IsSponsor(s, sponsored[s], calls[sponsored[s].of])
             /\ sponsored[s].of \in Builders
             /\ calls'[sponsored[s].of] = calls[sponsored[s].of]
  <2>1. IsSponsor(s, sponsored[s], calls[sponsored[s].of])
    BY <1>2 DEF ResultsInv, SponsorsInv
  <2>2. sponsored[s].of \in Builders /\ calls[sponsored[s].of].at = "built"
    BY <2>1 DEF IsSponsor
  <2> QED
    BY <1>1, <2>1, <2>2
<1>3. ASSUME NEW other \in Builders, other # b, Untouched(other)' PROVE Untouched(other)
  BY <1>1, <1>3 DEF Untouched
<1>4. BuildersInv'
  <2>1. ASSUME NEW other \in Builders, calls'[other] # NoCall
        PROVE  /\ IsCall(other, calls'[other])
               /\ calls'[other].at = "built" /\ Untouched(other)' => IsResult(calls'[other])
    <3>1. CASE other = b
      BY <1>1, <3>1 DEF IsOutcome
    <3>2. CASE other # b
      <4>1. calls'[other] = calls[other]
        BY <1>1, <3>2
      <4>2. /\ IsCall(other, calls[other])
            /\ calls[other].at = "built" /\ Untouched(other) => IsResult(calls[other])
        BY <2>1, <4>1 DEF ResultsInv, BuildersInv
      <4> QED
        BY <1>3, <3>2, <4>1, <4>2
    <3> QED
      BY <3>1, <3>2
  <2> QED
    BY <1>1, <2>1 DEF BuildersInv
<1>5. SponsorsInv'
  <2>1. ASSUME NEW s \in Sponsors, sponsored'[s] # NoCall
        PROVE  IsSponsor(s, sponsored'[s], calls'[sponsored'[s].of])
    BY <1>1, <1>2, <2>1
  <2>2. DOMAIN sponsored' = Sponsors
    BY <1>1 DEF ResultsInv, SponsorsInv
  <2> QED
    BY <2>1, <2>2 DEF SponsorsInv
<1>6. DeliveriesInv'
  <2>1. ASSUME NEW c \in Calls, delivery'[c] # NotSent
        PROVE  /\ IsDelivery(delivery'[c]) /\ IsBuilt(c)'
               /\ c \in Builders /\ calls'[c].tx.authType = "Standard" /\ Untouched(c)' =>
                    delivery'[c].sent.tx = calls'[c].tx
    <3>1. /\ IsDelivery(delivery[c]) /\ IsBuilt(c)
          /\ c \in Builders /\ calls[c].tx.authType = "Standard" /\ Untouched(c) =>
               delivery[c].sent.tx = calls[c].tx
      BY <1>1, <2>1 DEF ResultsInv, DeliveriesInv
    <3>2. c \in Builders => c # b /\ calls'[c] = calls[c]
      BY <1>1, <3>1 DEF IsBuilt
    <3>3. IsBuilt(c)'
      BY <1>1, <3>1, <3>2 DEF IsBuilt
    <3> QED
      BY <1>1, <1>3, <3>1, <3>2, <3>3
  <2>2. DOMAIN delivery' = Calls
    BY <1>1 DEF ResultsInv, DeliveriesInv
  <2> QED
    BY <2>1, <2>2 DEF DeliveriesInv
<1>7. NodeInv'
  BY NodeKept DEF ResultsInv, BuilderMoves
<1> QED
  BY <1>4, <1>5, <1>6, <1>7 DEF ResultsInv

-----------------------------------------------------------------------------
(* What a sponsor may do to the call whose transaction it was given.        *)

Evolves(old, new) ==
    /\ DOMAIN new = {"at", "request", "rate", "mined", "tx"}
    /\ new.at = old.at /\ new.request = old.request
    /\ new.rate = old.rate /\ new.mined = old.mined
    /\ IsTransaction(new.tx) /\ SameShape(new.tx, old.tx)
    /\ new.tx.authType = "Sponsored" => new.tx.origin = old.tx.origin

LEMMA EvolvedCall ==
    ASSUME NEW b, NEW old, IsCall(b, old), old.at = "built", NEW new, Evolves(old, new)
    PROVE  IsCall(b, new)
BY DEF IsCall, Evolves, SameShape, IsOfRequest

LEMMA EvolvedResult ==
    ASSUME NEW b, NEW old, IsCall(b, old), old.at = "built", IsResult(old),
           NEW new, Evolves(old, new), new.tx.authType = "Sponsored" \/ new.tx = old.tx
    PROVE  IsResult(new)
<1>1. CASE new.tx = old.tx
  BY <1>1 DEF Evolves, IsResult, IsPriced, HasNonce, IsSignedInOrder
<1>2. CASE new.tx.authType = "Sponsored"
  <2>1. new.request.authType = "Sponsored"
    BY <1>2 DEF IsCall, IsOfRequest, Evolves, SameShape
  <2>2. IsPriced(new) /\ HasNonce(new)
    BY <2>1 DEF IsPriced, HasNonce
  <2>3. VerifiesOrigin(new.tx) <=> VerifiesOrigin(old.tx)
    BY <1>2 DEF VerifiesOrigin, SignBegin, Evolves, SameShape
  <2>4. IsSignedInOrder(new)
    BY <2>3 DEF IsResult, IsSignedInOrder, Evolves
  <2> QED
    BY <2>2, <2>4 DEF IsResult
<1> QED
  BY <1>1, <1>2

LEMMA EvolvedSponsor ==
    ASSUME NEW b, NEW old, IsCall(b, old), NEW new, Evolves(old, new),
           NEW s, NEW sponsor, IsSponsor(s, sponsor, old)
    PROVE  IsSponsor(s, sponsor, new)
<1>1. new.at = old.at /\ new.request = old.request /\ new.tx.authType = old.tx.authType
  BY DEF Evolves, SameShape
<1>2. ASSUME old.tx.authType = "Sponsored"
      PROVE  Size(new.request.payload, new.tx) = Size(old.request.payload, old.tx)
  <2>1. new.tx.origin = old.tx.origin /\ old.tx.sponsor.kind = "single" /\ new.tx.sponsor.kind = "single"
    BY <1>1, <1>2 DEF Evolves, SameShape, IsCall
  <2> QED
    BY <1>1, <2>1 DEF Size, ConditionSize
<1>3. sponsor.at = "built" => IsSponsored(sponsor, new)
  BY <1>1 DEF IsSponsor, IsSponsored, Evolves
<1> QED
  BY <1>1, <1>2, <1>3 DEF IsSponsor

LEMMA TransactionEvolves ==
    ASSUME NEW b, NEW old, IsCall(b, old), NEW tx, IsTransaction(tx), SameShape(tx, old.tx),
           tx.authType = "Sponsored" => tx.origin = old.tx.origin,
           NEW new, new = [old EXCEPT !.tx = tx]
    PROVE  Evolves(old, new) /\ new.tx = tx
BY DEF IsCall, Evolves

\* What a sponsor's call has when it comes to signing.
IsPaying(s, sponsor, b, request, tx) ==
    /\ DOMAIN sponsor = {"at", "of", "request", "rate", "mined", "fee", "nonce", "tx"}
    /\ sponsor.of = b /\ b \in Builders
    /\ sponsor.request \in SponsorRequests[s]
    /\ sponsor.rate \in Nat /\ sponsor.mined \in Nat
    /\ sponsor.fee \in Nat /\ sponsor.nonce \in Nat
    /\ IsTransaction(sponsor.tx)
    /\ sponsor.request.fee # Absent => sponsor.fee = sponsor.request.fee
    /\ sponsor.request.nonce # Absent => sponsor.nonce = sponsor.request.nonce
    /\ sponsor.request.fee = Absent /\ tx.authType = "Sponsored" =>
         sponsor.fee = sponsor.rate * Size(request.payload, tx)

\* A sponsor's call takes a step, which may change the transaction it was given.
SponsorMoves(s, b, sponsor, new) ==
    /\ sponsored' = [sponsored EXCEPT ![s] = sponsor]
    /\ DOMAIN calls' = Builders /\ calls'[b] = new
    /\ \A other \in Builders : other # b => calls'[other] = calls[other]
    /\ UNCHANGED <<delivery, accounts, pool>>
    /\ \/ sponsored[s] = NoCall
       \/ /\ sponsored[s].at # "built"
          /\ sponsored[s].of = b /\ sponsored[s].request = sponsor.request
    /\ b \in Builders /\ sponsor.of = b /\ calls[b].at = "built"
    /\ Evolves(calls[b], new) /\ IsSponsor(s, sponsor, new)
    /\ new.tx.authType = "Standard" => new.tx = calls[b].tx \/ sponsor.request.fee = Absent

LEMMA SponsorMovesPreserves ==
    ASSUME ResultsInv, NEW s \in Sponsors, NEW b, NEW sponsor, NEW new,
           SponsorMoves(s, b, sponsor, new)
    PROVE  ResultsInv'
<1>1. /\ DOMAIN calls' = Builders /\ calls'[b] = new /\ b \in Builders
      /\ \A other \in Builders : other # b => calls'[other] = calls[other]
      /\ DOMAIN sponsored' = Sponsors /\ sponsored'[s] = sponsor /\ sponsor.of = b
      /\ \A other \in Sponsors : other # s => sponsored'[other] = sponsored[other]
      /\ delivery' = delivery /\ calls[b].at = "built"
      /\ Evolves(calls[b], new) /\ IsSponsor(s, sponsor, new)
  BY DEF SponsorMoves, ResultsInv, SponsorsInv
<1>2. /\ new.at = "built" /\ new.tx.authType = calls[b].tx.authType /\ sponsor # NoCall
  BY <1>1 DEF Evolves, SameShape, IsSponsor, NoCall
<1>3. IsCall(b, calls[b])
  BY <1>1 DEF ResultsInv, BuildersInv, NoCall
<1>4. ASSUME NEW c \in Builders, Untouched(c)' PROVE Untouched(c)
  <2> SUFFICES ASSUME NEW other \in Sponsors, sponsored[other] # NoCall, sponsored[other].of = c,
                      sponsored[other].request.fee = Absent
               PROVE  calls[c].tx.authType = "Sponsored"
    BY DEF Untouched
  <2>1. /\ sponsored'[other] # NoCall /\ sponsored'[other].of = c
        /\ sponsored'[other].request.fee = Absent
    <3>1. CASE other = s
      BY <1>1, <1>2, <3>1 DEF SponsorMoves
    <3>2. CASE other # s
      BY <1>1, <3>2
    <3> QED
      BY <3>1, <3>2
  <2>2. calls'[c].tx.authType = "Sponsored"
    BY <1>4, <2>1 DEF Untouched
  <2>3. CASE c = b
    BY <1>1, <1>2, <2>2, <2>3
  <2>4. CASE c # b
    BY <1>1, <2>2, <2>4
  <2> QED
    BY <2>3, <2>4
<1>5. ASSUME Untouched(b)' PROVE new.tx.authType = "Sponsored" \/ new.tx = calls[b].tx
  <2>1. CASE new.tx.authType = "Standard"
    <3>1. sponsor.request.fee # Absent
      BY <1>1, <1>2, <1>5, <2>1 DEF Untouched
    <3> QED
      BY <2>1, <3>1 DEF SponsorMoves
  <2>2. new.tx.authType \in AuthTypes
    BY <1>1 DEF Evolves, IsTransaction
  <2> QED
    BY <2>1, <2>2 DEF AuthTypes
<1>6. BuildersInv'
  <2>1. ASSUME NEW c \in Builders, calls'[c] # NoCall
        PROVE  /\ IsCall(c, calls'[c])
               /\ calls'[c].at = "built" /\ Untouched(c)' => IsResult(calls'[c])
    <3>1. CASE c = b
      <4>1. IsCall(b, new)
        BY <1>1, <1>3, EvolvedCall
      <4>2. ASSUME Untouched(b)' PROVE IsResult(new)
        <5>1. IsResult(calls[b])
          BY <1>1, <1>4, <4>2 DEF ResultsInv, BuildersInv, NoCall
        <5> QED
          BY <1>1, <1>3, <1>5, <4>2, <5>1, EvolvedResult
      <4> QED
        BY <1>1, <3>1, <4>1, <4>2
    <3>2. CASE c # b
      <4>1. calls'[c] = calls[c]
        BY <1>1, <3>2
      <4>2. /\ IsCall(c, calls[c])
            /\ calls[c].at = "built" /\ Untouched(c) => IsResult(calls[c])
        BY <2>1, <4>1 DEF ResultsInv, BuildersInv
      <4> QED
        BY <1>4, <4>1, <4>2
    <3> QED
      BY <3>1, <3>2
  <2> QED
    BY <1>1, <2>1 DEF BuildersInv
<1>7. SponsorsInv'
  <2>1. ASSUME NEW other \in Sponsors, sponsored'[other] # NoCall
        PROVE  IsSponsor(other, sponsored'[other], calls'[sponsored'[other].of])
    <3>1. CASE other = s
      BY <1>1, <3>1
    <3>2. CASE other # s
      <4>1. PICK of : of = sponsored[other].of
        OBVIOUS
      <4>2. sponsored'[other] = sponsored[other]
        BY <1>1, <3>2
      <4>3. IsSponsor(other, sponsored[other], calls[of]) /\ of \in Builders
        BY <2>1, <4>1, <4>2 DEF ResultsInv, SponsorsInv, IsSponsor
      <4>4. CASE of = b
        BY <1>1, <1>3, <4>1, <4>2, <4>3, <4>4, EvolvedSponsor
      <4>5. CASE of # b
        BY <1>1, <4>1, <4>2, <4>3, <4>5
      <4> QED
        BY <4>4, <4>5
    <3> QED
      BY <3>1, <3>2
  <2> QED
    BY <1>1, <2>1 DEF SponsorsInv
<1>8. DeliveriesInv'
  <2>1. ASSUME NEW c \in Calls, delivery'[c] # NotSent
        PROVE  /\ IsDelivery(delivery'[c]) /\ IsBuilt(c)'
               /\ c \in Builders /\ calls'[c].tx.authType = "Standard" /\ Untouched(c)' =>
                    delivery'[c].sent.tx = calls'[c].tx
    <3>1. /\ IsDelivery(delivery[c]) /\ IsBuilt(c)
          /\ c \in Builders /\ calls[c].tx.authType = "Standard" /\ Untouched(c) =>
               delivery[c].sent.tx = calls[c].tx
      BY <1>1, <2>1 DEF ResultsInv, DeliveriesInv
    <3>2. IsBuilt(c)'
      <4>1. CASE c \in Builders
        BY <1>1, <1>2, <3>1, <4>1 DEF IsBuilt
      <4>2. CASE c \notin Builders
        <5>1. c \in Sponsors /\ sponsored[c].at = "built"
          BY <3>1, <4>2 DEF IsBuilt, Calls
        <5>2. c # s
          BY <5>1 DEF SponsorMoves, NoCall
        <5> QED
          BY <1>1, <4>2, <5>1, <5>2 DEF IsBuilt
      <4> QED
        BY <4>1, <4>2
    <3>3. ASSUME c \in Builders, calls'[c].tx.authType = "Standard", Untouched(c)'
          PROVE  delivery[c].sent.tx = calls'[c].tx
      <4>1. Untouched(c)
        BY <1>4, <3>3
      <4>2. CASE c = b
        <5>1. new.tx = calls[b].tx
          BY <1>1, <1>5, <3>3, <4>2
        <5> QED
          BY <1>1, <3>1, <3>3, <4>1, <4>2, <5>1
      <4>3. CASE c # b
        <5>1. calls'[c] = calls[c]
          BY <1>1, <3>3, <4>3
        <5> QED
          BY <3>1, <3>3, <4>1, <5>1
      <4> QED
        BY <4>2, <4>3
    <3> QED
      BY <1>1, <3>1, <3>2, <3>3
  <2>2. DOMAIN delivery' = Calls
    BY <1>1 DEF ResultsInv, DeliveriesInv
  <2> QED
    BY <2>1, <2>2 DEF DeliveriesInv
<1>9. NodeInv'
  BY NodeKept DEF ResultsInv, SponsorMoves
<1> QED
  BY <1>6, <1>7, <1>8, <1>9 DEF ResultsInv

\* What sponsorTransaction gives back.
LEMMA SponsoredOutcome ==
    ASSUME NEW tx, IsTransaction(tx), CanSponsor(tx), NEW call, call.tx = tx,
           NEW key \in Keys, NEW fee \in Nat, NEW nonce \in Nat, NEW sponsor,
           sponsor.tx = Sponsored(tx, key, fee, nonce),
           sponsor.request.key = key, sponsor.fee = fee, sponsor.nonce = nonce,
           sponsor.request.nonce = Absent => sponsor.nonce = sponsor.mined
    PROVE  IsTransaction(sponsor.tx) /\ IsSponsored(sponsor, call)
<1>1. PICK next : next = Sponsored(tx, key, fee, nonce)
  OBVIOUS
<1>2. IsTransaction(next) /\ next.origin = tx.origin
  BY <1>1, SponsoredTransaction
<1>3. /\ next.authType = tx.authType
      /\ OriginHash(next) = OriginHash(tx)
      /\ VerifiesOrigin(next) <=> VerifiesOrigin(tx)
  BY <1>1, SponsorVerifies
<1>4. /\ Verifies(next.sponsor, OriginHash(next), "Sponsored")
      /\ next.sponsor.keys = <<key>> /\ next.sponsor.fee = fee /\ next.sponsor.nonce = nonce
  BY <1>1, SponsorVerifies
<1>5. next.sponsor.kind = "single"
  BY <1>1 DEF Sponsored, SetSponsor, AddSignature, SingleSig, Condition, IsTransaction
<1>6. VerifiesWhole(next) /\ next.authType = "Sponsored"
  BY <1>3, <1>4 DEF VerifiesWhole, CanSponsor
<1> QED
  BY <1>1, <1>2, <1>3, <1>4, <1>5, <1>6 DEF IsSponsored

LEMMA SponsorRequestTypes ==
    ASSUME NEW s \in Sponsors, NEW request \in SponsorRequests[s]
    PROVE  /\ request.key \in Keys
           /\ request.fee \in Nat \cup {Absent} /\ request.nonce \in Nat \cup {Absent}
BY BuilderAssumption DEF Values

\* A sponsor's call that fails.
LEMMA FailedSponsor ==
    ASSUME NEW s, NEW b, NEW sponsor, NEW request, NEW tx, IsPaying(s, sponsor, b, request, tx),
           NEW call, call.at = "built"
    PROVE  IsSponsor(s, Failed(sponsor), call) /\ Failed(sponsor).of = b
           /\ Failed(sponsor).request = sponsor.request
<1>1. PICK failed : failed = Failed(sponsor)
  OBVIOUS
<1>2. /\ failed.at = "failed" /\ failed.of = sponsor.of /\ failed.request = sponsor.request
      /\ failed.rate = sponsor.rate /\ failed.mined = sponsor.mined /\ failed.fee = sponsor.fee
      /\ failed.nonce = sponsor.nonce /\ failed.tx = sponsor.tx
      /\ DOMAIN failed = {"at", "of", "request", "rate", "mined", "fee", "nonce", "tx"}
  BY <1>1 DEF Failed, IsPaying
<1>3. IsSponsor(s, failed, call)
  BY <1>2 DEF IsSponsor, IsPaying
<1> QED
  BY <1>1, <1>2, <1>3 DEF IsPaying

LEMMA UnsignedSponsor ==
    ASSUME NEW tx, IsTransaction(tx), tx.sponsor.kind = "single", NEW key \in Keys,
           NEW fee \in Nat, NEW nonce \in Nat,
           NEW next, next = SetSponsor(tx, SingleSig(key, fee, nonce))
    PROVE  IsTransaction(next) /\ SameShape(next, tx) /\ next.origin = tx.origin
<1>1. PICK cond : cond = SingleSig(key, fee, nonce)
  OBVIOUS
<1>2. IsCondition(cond) /\ cond.kind = "single"
  <2>1. <<key>> \in Seq(Keys \cup {NoKey}) /\ "single" \in Kinds /\ 1 \in Nat
    BY DEF Kinds
  <2> QED
    BY <1>1, <2>1, NewCondition DEF SingleSig, Condition
<1>3. next = [tx EXCEPT !.sponsor = cond]
  BY <1>1 DEF SetSponsor
<1>4. IsTransaction(next) /\ next.origin = tx.origin
  BY <1>2, <1>3, SponsorReplaced
<1>5. next.authType = tx.authType /\ next.sponsor = cond
  BY <1>3 DEF IsTransaction
<1> QED
  BY <1>2, <1>4, <1>5 DEF SameShape

\* Whether s may go on with the call of b.
MayMove(s, b, request) ==
    \/ sponsored[s] = NoCall
    \/ sponsored[s].at # "built" /\ sponsored[s].of = b /\ sponsored[s].request = request

\* The last stretch of sponsorTransaction.
LEMMA SponsorSignedMoves ==
    ASSUME ResultsInv, NEW s \in Sponsors, NEW b \in Builders, calls[b].at = "built",
           NEW sponsor, MayMove(s, b, sponsor.request), NEW tx, IsTransaction(tx),
           SameShape(tx, calls[b].tx),
           tx.authType = "Sponsored" => tx.origin = calls[b].tx.origin,
           tx.authType = "Standard" => tx = calls[b].tx \/ sponsor.request.fee = Absent,
           IsPaying(s, sponsor, b, calls[b].request, tx),
           sponsor.request.nonce = Absent => sponsor.nonce = sponsor.mined,
           SponsorSigned(s, sponsor, tx), UNCHANGED <<delivery, accounts, pool>>
    PROVE  \E next, new : SponsorMoves(s, b, next, new)
<1>1. PICK old, request, fee, nonce, unsigned, final, new :
        /\ old = calls[b] /\ request = sponsor.request
        /\ fee = sponsor.fee /\ nonce = sponsor.nonce
        /\ unsigned = SingleSig(request.key, fee, nonce)
        /\ final = IF tx.authType = "Sponsored" THEN SetSponsor(tx, unsigned) ELSE tx
        /\ new = [old EXCEPT !.tx = final]
  OBVIOUS
<1>2. PICK next :
        next = IF CanSponsor(final)
               THEN [sponsor EXCEPT !.at = "built", !.tx = Sponsored(final, request.key, fee, nonce)]
               ELSE Failed(sponsor)
  OBVIOUS
<1>3. IsCall(b, old) /\ old.at = "built" /\ old.tx.sponsor.kind = "single"
  <2>1. calls[b] # NoCall
    BY DEF NoCall
  <2> QED
    BY <1>1, <2>1 DEF ResultsInv, BuildersInv, IsCall
<1>4. /\ calls' = [calls EXCEPT ![b].tx = final]
      /\ sponsored' = [sponsored EXCEPT ![s] = next]
  BY <1>1, <1>2 DEF SponsorSigned, IsPaying
<1>5. request.key \in Keys /\ fee \in Nat /\ nonce \in Nat /\ sponsor.of = b
  BY <1>1, SponsorRequestTypes DEF IsPaying
<1>6. IsTransaction(final) /\ SameShape(final, tx) /\ final.authType = tx.authType
      /\ (tx.authType = "Sponsored" => final.origin = tx.origin)
      /\ (tx.authType # "Sponsored" => final = tx)
  <2>1. CASE tx.authType = "Sponsored"
    <3>1. tx.sponsor.kind = "single" /\ final = SetSponsor(tx, SingleSig(request.key, fee, nonce))
      BY <1>1, <1>3, <2>1 DEF SameShape
    <3>2. IsTransaction(final) /\ SameShape(final, tx) /\ final.origin = tx.origin
      BY <1>5, <3>1, UnsignedSponsor
    <3> QED
      BY <2>1, <3>2 DEF SameShape
  <2>2. CASE tx.authType # "Sponsored"
    BY <1>1, <2>2 DEF SameShape
  <2> QED
    BY <2>1, <2>2
<1>7. SameShape(final, old.tx) /\ (final.authType = "Sponsored" => final.origin = old.tx.origin)
  BY <1>1, <1>6 DEF SameShape
<1>8. Evolves(old, new) /\ new.tx = final
  BY <1>1, <1>3, <1>6, <1>7, TransactionEvolves
<1>9. new.at = "built" /\ new.request = calls[b].request
  BY <1>1, <1>3, <1>8 DEF Evolves
<1>10. IsSponsor(s, next, new) /\ next.of = b /\ next.request = request
  <2>1. CASE ~CanSponsor(final)
    <3>1. next = Failed(sponsor)
      BY <1>2, <2>1
    <3>2. PICK given : given = calls[b].request
      OBVIOUS
    <3>3. IsPaying(s, sponsor, b, given, tx)
      BY <3>2
    <3>4. /\ IsSponsor(s, Failed(sponsor), new) /\ Failed(sponsor).of = b
          /\ Failed(sponsor).request = sponsor.request
      BY ONLY <1>9, <3>3, FailedSponsor
    <3> QED
      BY <1>1, <3>1, <3>4
  <2>2. CASE CanSponsor(final)
    <3>1. next = [sponsor EXCEPT !.at = "built", !.tx = Sponsored(final, request.key, fee, nonce)]
      BY <1>2, <2>2
    <3>2. /\ next.at = "built" /\ next.of = b /\ next.request = request
          /\ next.rate = sponsor.rate /\ next.mined = sponsor.mined /\ next.fee = fee
          /\ next.nonce = nonce /\ next.tx = Sponsored(final, request.key, fee, nonce)
          /\ DOMAIN next = {"at", "of", "request", "rate", "mined", "fee", "nonce", "tx"}
      BY <1>1, <1>5, <3>1 DEF IsPaying
    <3>3. IsTransaction(next.tx) /\ IsSponsored(next, new)
      <4>1. next.request.key = request.key
            /\ (next.request.nonce = Absent => next.nonce = next.mined)
        BY <1>1, <3>2
      <4> QED
        BY <1>5, <1>6, <1>8, <2>2, <3>2, <4>1, SponsoredOutcome
    <3>4. ASSUME request.fee = Absent, new.tx.authType = "Sponsored"
          PROVE  next.fee = next.rate * Size(new.request.payload, new.tx)
      <4>1. tx.authType = "Sponsored" /\ final.origin = tx.origin
        BY <1>6, <1>8, <3>4
      <4>2. fee = sponsor.rate * Size(calls[b].request.payload, tx)
        BY <1>1, <3>4, <4>1 DEF IsPaying
      <4>3. final.sponsor.kind = "single" /\ tx.sponsor.kind = "single"
        BY <1>1, <1>3, <1>6 DEF SameShape
      <4>4. Size(calls[b].request.payload, final) = Size(calls[b].request.payload, tx)
        BY <1>6, <4>1, <4>3 DEF Size, ConditionSize
      <4> QED
        BY <1>8, <1>9, <3>2, <4>2, <4>4
    <3> QED
      BY <1>1, <1>9, <3>2, <3>3, <3>4 DEF IsSponsor, IsPaying
  <2> QED
    BY <2>1, <2>2
<1>11. new.tx.authType = "Standard" => new.tx = calls[b].tx \/ request.fee = Absent
  BY <1>1, <1>6, <1>8
<1>12. /\ DOMAIN calls' = Builders /\ calls'[b] = new
       /\ \A other \in Builders : other # b => calls'[other] = calls[other]
  BY <1>1, <1>4 DEF ResultsInv, BuildersInv
<1>13. SponsorMoves(s, b, next, new)
  BY <1>1, <1>4, <1>8, <1>10, <1>11, <1>12 DEF SponsorMoves, MayMove
<1> QED
  BY <1>13

LEMMA SponsorWithFeeMoves ==
    ASSUME ResultsInv, NEW s \in Sponsors, NEW b \in Builders, calls[b].at = "built",
           NEW sponsor, MayMove(s, b, sponsor.request), NEW tx, IsTransaction(tx),
           SameShape(tx, calls[b].tx),
           tx.authType = "Sponsored" => tx.origin = calls[b].tx.origin,
           tx.authType = "Standard" => tx = calls[b].tx \/ sponsor.request.fee = Absent,
           IsPaying(s, sponsor, b, calls[b].request, tx),
           SponsorWithFee(s, sponsor, tx), UNCHANGED <<delivery, accounts, pool>>
    PROVE  \E next, new : SponsorMoves(s, b, next, new)
<1>1. CASE sponsor.request.nonce # Absent
  <2>1. SponsorSigned(s, sponsor, tx)
    BY <1>1 DEF SponsorWithFee
  <2> QED
    BY <1>1, <2>1, SponsorSignedMoves
<1>2. CASE sponsor.request.nonce = Absent
  <2>1. PICK old, next, new :
          /\ old = calls[b] /\ next = [sponsor EXCEPT !.at = "nonce"]
          /\ new = [old EXCEPT !.tx = tx]
    OBVIOUS
  <2>2. /\ calls' = [calls EXCEPT ![b].tx = tx]
        /\ sponsored' = [sponsored EXCEPT ![s] = next]
    BY <1>2, <2>1 DEF SponsorWithFee, IsPaying
  <2>3. IsCall(b, old) /\ old.at = "built"
    <3>1. calls[b] # NoCall
      BY DEF NoCall
    <3> QED
      BY <2>1, <3>1 DEF ResultsInv, BuildersInv
  <2>4. Evolves(old, new) /\ new.tx = tx
    BY <2>1, <2>3, TransactionEvolves
  <2>5. new.at = "built" /\ new.request = calls[b].request
    BY <2>1, <2>3, <2>4 DEF Evolves
  <2>6. /\ next.at = "nonce" /\ next.of = b /\ next.request = sponsor.request
        /\ next.rate = sponsor.rate /\ next.mined = sponsor.mined /\ next.fee = sponsor.fee
        /\ next.nonce = sponsor.nonce /\ next.tx = sponsor.tx
        /\ DOMAIN next = {"at", "of", "request", "rate", "mined", "fee", "nonce", "tx"}
    BY <2>1 DEF IsPaying
  <2>7. IsSponsor(s, next, new)
    BY <1>2, <2>4, <2>5, <2>6 DEF IsSponsor, IsPaying
  <2>8. /\ DOMAIN calls' = Builders /\ calls'[b] = new
        /\ \A other \in Builders : other # b => calls'[other] = calls[other]
    BY <2>1, <2>2 DEF ResultsInv, BuildersInv
  <2>9. SponsorMoves(s, b, next, new)
    BY <2>1, <2>2, <2>4, <2>6, <2>7, <2>8 DEF SponsorMoves, MayMove
  <2> QED
    BY <2>9
<1> QED
  BY <1>1, <1>2

LEMMA SameTransaction ==
    ASSUME NEW b, NEW old, IsCall(b, old), NEW tx, tx = old.tx
    PROVE  IsTransaction(tx) /\ SameShape(tx, old.tx)
BY DEF IsCall, SameShape

LEMMA SponsorCallMoves ==
    ASSUME ResultsInv, NEW s \in Sponsors, NEW b \in Builders, NEW request \in SponsorRequests[s],
           Sponsor(s, b, request)
    PROVE  \E next, new : SponsorMoves(s, b, next, new)
<1>1. PICK old, fee, nonce, sponsor :
        /\ old = calls[b]
        /\ fee = IF request.fee = Absent THEN 0 ELSE request.fee
        /\ nonce = IF request.nonce = Absent THEN 0 ELSE request.nonce
        /\ sponsor = [at |-> "fee", of |-> b, request |-> request, rate |-> 0, mined |-> 0,
                      fee |-> fee, nonce |-> nonce, tx |-> old.tx]
  OBVIOUS
<1>2. sponsored[s] = NoCall /\ old.at = "built" /\ UNCHANGED <<delivery, accounts, pool>>
  BY <1>1 DEF Sponsor
<1>3. /\ sponsor.at = "fee" /\ sponsor.of = b /\ sponsor.request = request /\ sponsor.rate = 0
      /\ sponsor.mined = 0 /\ sponsor.fee = fee /\ sponsor.nonce = nonce /\ sponsor.tx = old.tx
      /\ DOMAIN sponsor = {"at", "of", "request", "rate", "mined", "fee", "nonce", "tx"}
  BY <1>1
<1>4. fee \in Nat /\ nonce \in Nat
  BY <1>1, SponsorRequestTypes
<1>5. IsCall(b, old) /\ IsTransaction(old.tx) /\ SameShape(old.tx, old.tx)
  <2>1. calls[b] # NoCall
    BY <1>1, <1>2 DEF NoCall
  <2> QED
    BY <1>1, <2>1, SameTransaction DEF ResultsInv, BuildersInv
<1>6. CASE request.fee = Absent
  <2>1. sponsored' = [sponsored EXCEPT ![s] = sponsor] /\ calls' = calls
    BY <1>1, <1>6 DEF Sponsor
  <2>2. Evolves(old, old)
    BY <1>5 DEF Evolves, IsCall
  <2>3. IsSponsor(s, sponsor, old)
    BY <1>1, <1>2, <1>3, <1>4, <1>5, <1>6 DEF IsSponsor
  <2>4. SponsorMoves(s, b, sponsor, old)
    BY <1>1, <1>2, <1>3, <2>1, <2>2, <2>3 DEF SponsorMoves, ResultsInv, BuildersInv
  <2> QED
    BY <2>4
<1>7. CASE request.fee # Absent
  <2>1. SponsorWithFee(s, sponsor, old.tx)
    BY <1>1, <1>7 DEF Sponsor
  <2>2. IsPaying(s, sponsor, b, calls[b].request, old.tx)
    BY <1>1, <1>3, <1>4, <1>5, <1>7 DEF IsPaying
  <2>3. MayMove(s, b, sponsor.request)
    BY <1>2 DEF MayMove
  <2> QED
    BY <1>1, <1>2, <1>5, <2>1, <2>2, <2>3, SponsorWithFeeMoves
<1> QED
  BY <1>6, <1>7

\* A sponsor's call that awaits an answer, and the call it is about.
LEMMA AwaitingSponsor ==
    ASSUME ResultsInv, NEW s \in Sponsors, sponsored[s].at \in Awaited
    PROVE  /\ IsSponsor(s, sponsored[s], calls[sponsored[s].of])
           /\ sponsored[s].of \in Builders /\ calls[sponsored[s].of].at = "built"
           /\ IsCall(sponsored[s].of, calls[sponsored[s].of])
<1>1. sponsored[s] # NoCall
  BY DEF NoCall, Awaited
<1>2. PICK b : b = sponsored[s].of
  OBVIOUS
<1>3. IsSponsor(s, sponsored[s], calls[b])
  BY <1>1, <1>2 DEF ResultsInv, SponsorsInv
<1>4. b \in Builders /\ calls[b].at = "built" /\ calls[b] # NoCall
  BY <1>2, <1>3 DEF IsSponsor, NoCall
<1>5. IsCall(b, calls[b])
  BY <1>4 DEF ResultsInv, BuildersInv
<1> QED
  BY <1>2, <1>3, <1>4, <1>5

LEMMA SponsorFeeMoves ==
    ASSUME ResultsInv, NEW s \in Sponsors, NEW rate \in Rates, SponsorFeeAnswered(s, rate)
    PROVE  \E b, next, new : SponsorMoves(s, b, next, new)
<1>1. PICK old, b, call : old = sponsored[s] /\ b = old.of /\ call = calls[b]
  OBVIOUS
<1>2. PICK fee, tx, sponsor :
        /\ fee = Estimate(call.request.payload, call.tx, rate)
        /\ tx = SetFee(call.tx, fee)
        /\ sponsor = [old EXCEPT !.fee = fee, !.rate = rate]
  OBVIOUS
<1>3. old.at = "fee" /\ SponsorWithFee(s, sponsor, tx) /\ UNCHANGED <<delivery, accounts, pool>>
  BY <1>1, <1>2 DEF SponsorFeeAnswered
<1>4. IsSponsor(s, old, call) /\ b \in Builders /\ call.at = "built" /\ IsCall(b, call)
  BY <1>1, <1>3, AwaitingSponsor DEF Awaited
<1>5. /\ sponsor.at = "fee" /\ sponsor.of = b /\ sponsor.request = old.request
      /\ sponsor.rate = rate /\ sponsor.mined = old.mined /\ sponsor.fee = fee
      /\ sponsor.nonce = old.nonce /\ sponsor.tx = old.tx
      /\ DOMAIN sponsor = {"at", "of", "request", "rate", "mined", "fee", "nonce", "tx"}
  BY <1>1, <1>2, <1>3, <1>4 DEF IsSponsor
<1>6. PICK payload, size : payload = call.request.payload /\ size = Size(payload, call.tx)
  OBVIOUS
<1>7. rate \in Nat /\ fee = rate * size /\ fee \in Nat
  <2>1. rate \in Nat
    BY BuilderAssumption
  <2>2. payload \in {"transfer", "call", "deploy"} /\ IsTransaction(call.tx)
    BY <1>4, <1>6, RequestTypes DEF IsCall
  <2>3. size \in Nat
    BY <1>6, <2>2, SizeType
  <2>4. fee = rate * size
    BY <1>2, <1>6 DEF Estimate
  <2> QED
    BY <2>1, <2>3, <2>4
<1>8. IsTransaction(tx) /\ SameShape(tx, call.tx) /\ IsTransaction(call.tx)
  <2>1. IsTransaction(call.tx)
    BY <1>4 DEF IsCall
  <2> QED
    BY <1>2, <1>7, <2>1, FeeShape
<1>9. old.request.fee = Absent
  BY <1>3, <1>4 DEF IsSponsor
<1>10. tx.authType = "Sponsored" => tx.origin = call.tx.origin
  BY <1>2, <1>8 DEF SetFee, IsTransaction, SameShape
<1>11. ASSUME tx.authType = "Sponsored" PROVE Size(payload, tx) = size
  <2>1. call.tx.authType = "Sponsored" /\ tx.sponsor.kind = "single" /\ call.tx.sponsor.kind = "single"
    BY <1>4, <1>8, <1>11 DEF SameShape, IsCall
  <2> QED
    BY <1>6, <1>10, <1>11, <2>1 DEF Size, ConditionSize
<1>12. IsPaying(s, sponsor, b, calls[b].request, tx)
  BY <1>1, <1>4, <1>5, <1>6, <1>7, <1>9, <1>11 DEF IsPaying, IsSponsor
<1>13. MayMove(s, b, sponsor.request)
  BY <1>1, <1>3, <1>5 DEF MayMove
<1> QED
  BY <1>1, <1>3, <1>4, <1>5, <1>8, <1>9, <1>10, <1>12, <1>13, SponsorWithFeeMoves

LEMMA SponsorNonceMoves ==
    ASSUME ResultsInv, NEW s \in Sponsors, SponsorNonceAnswered(s)
    PROVE  \E b, next, new : SponsorMoves(s, b, next, new)
<1>1. PICK old, b, call : old = sponsored[s] /\ b = old.of /\ call = calls[b]
  OBVIOUS
<1>2. PICK nonce, tx, sponsor :
        /\ nonce = NonceOf(Payer(SingleSig(old.request.key, 0, 0)))
        /\ tx = call.tx
        /\ sponsor = [old EXCEPT !.nonce = nonce, !.mined = nonce]
  OBVIOUS
<1>3. old.at = "nonce" /\ SponsorSigned(s, sponsor, tx) /\ UNCHANGED <<delivery, accounts, pool>>
  BY <1>1, <1>2 DEF SponsorNonceAnswered
<1>4. IsSponsor(s, old, call) /\ b \in Builders /\ call.at = "built" /\ IsCall(b, call)
  BY <1>1, <1>3, AwaitingSponsor DEF Awaited
<1>5. /\ sponsor.at = "nonce" /\ sponsor.of = b /\ sponsor.request = old.request
      /\ sponsor.rate = old.rate /\ sponsor.mined = nonce /\ sponsor.fee = old.fee
      /\ sponsor.nonce = nonce /\ sponsor.tx = old.tx
      /\ DOMAIN sponsor = {"at", "of", "request", "rate", "mined", "fee", "nonce", "tx"}
  BY <1>1, <1>2, <1>3, <1>4 DEF IsSponsor
<1>6. nonce \in Nat
  BY <1>2, NonceType DEF ResultsInv
<1>7. IsTransaction(tx) /\ SameShape(tx, call.tx)
  BY <1>2, <1>4, SameTransaction
<1>8. old.request.nonce = Absent
  BY <1>3, <1>4 DEF IsSponsor
<1>9. IsPaying(s, sponsor, b, calls[b].request, tx)
  BY <1>1, <1>2, <1>3, <1>4, <1>5, <1>6, <1>8 DEF IsPaying, IsSponsor
<1>10. MayMove(s, b, sponsor.request)
  BY <1>1, <1>3, <1>5 DEF MayMove
<1> QED
  BY <1>1, <1>2, <1>3, <1>4, <1>5, <1>7, <1>9, <1>10, SponsorSignedMoves

LEMMA SponsorFailureMoves ==
    ASSUME ResultsInv, NEW s \in Sponsors, SponsorFetchFails(s)
    PROVE  \E b, next, new : SponsorMoves(s, b, next, new)
<1>1. PICK old, b, call, next :
        old = sponsored[s] /\ b = old.of /\ call = calls[b] /\ next = Failed(old)
  OBVIOUS
<1>2. /\ old.at \in Awaited /\ sponsored' = [sponsored EXCEPT ![s] = next]
      /\ calls' = calls /\ UNCHANGED <<delivery, accounts, pool>>
  BY <1>1 DEF SponsorFetchFails
<1>3. IsSponsor(s, old, call) /\ b \in Builders /\ call.at = "built" /\ IsCall(b, call)
  BY <1>1, <1>2, AwaitingSponsor
<1>4. /\ next.at = "failed" /\ next.of = b /\ next.request = old.request
      /\ next.rate = old.rate /\ next.mined = old.mined /\ next.fee = old.fee
      /\ next.nonce = old.nonce /\ next.tx = old.tx
      /\ DOMAIN next = {"at", "of", "request", "rate", "mined", "fee", "nonce", "tx"}
  BY <1>1, <1>3 DEF IsSponsor, Failed
<1>5. IsSponsor(s, next, call)
  BY <1>3, <1>4 DEF IsSponsor
<1>6. Evolves(call, call)
  BY <1>3, SameTransaction DEF Evolves, IsCall
<1>7. old.at # "built"
  BY <1>2 DEF Awaited
<1>8. SponsorMoves(s, b, next, call)
  BY <1>1, <1>2, <1>3, <1>4, <1>5, <1>6, <1>7 DEF SponsorMoves, ResultsInv, BuildersInv
<1> QED
  BY <1>8

LEMMA SponsorStepsMove ==
    ASSUME ResultsInv, NEW s \in Sponsors, SponsorSteps(s)
    PROVE  \E b, next, new : SponsorMoves(s, b, next, new)
<1>1. CASE \E b \in Builders, request \in SponsorRequests[s] : Sponsor(s, b, request)
  BY <1>1, SponsorCallMoves
<1>2. CASE \E rate \in Rates : SponsorFeeAnswered(s, rate)
  BY <1>2, SponsorFeeMoves
<1>3. CASE SponsorNonceAnswered(s)
  BY <1>3, SponsorNonceMoves
<1>4. CASE SponsorFetchFails(s)
  BY <1>4, SponsorFailureMoves
<1> QED
  BY <1>1, <1>2, <1>3, <1>4 DEF SponsorSteps

-----------------------------------------------------------------------------
(* Broadcasting and mining.                                                 *)

\* One delivery changes, and what else there is for it does not.
LEMMA DeliveryChangePreserves ==
    ASSUME ResultsInv, NEW c \in Calls, NEW sending, IsDelivery(sending), IsBuilt(c),
           c \in Builders /\ calls[c].tx.authType = "Standard" /\ Untouched(c) =>
               sending.sent.tx = calls[c].tx,
           delivery' = [delivery EXCEPT ![c] = sending], UNCHANGED <<calls, sponsored>>
    PROVE  (BuildersInv /\ SponsorsInv /\ DeliveriesInv)'
<1>1. BuildersInv' /\ SponsorsInv'
  BY DEF ResultsInv, BuildersInv, SponsorsInv, Untouched
<1>2. /\ DOMAIN delivery' = Calls /\ delivery'[c] = sending
      /\ \A other \in Calls : other # c => delivery'[other] = delivery[other]
  BY DEF ResultsInv, DeliveriesInv
<1>3. ASSUME NEW other \in Calls, delivery'[other] # NotSent
      PROVE  /\ IsDelivery(delivery'[other]) /\ IsBuilt(other)'
             /\ other \in Builders /\ calls'[other].tx.authType = "Standard" /\ Untouched(other)' =>
                  delivery'[other].sent.tx = calls'[other].tx
  <2>1. IsBuilt(other)' = IsBuilt(other) /\ (Untouched(other)' <=> Untouched(other))
    BY DEF IsBuilt, Untouched
  <2>2. CASE other = c
    BY <1>2, <2>1, <2>2
  <2>3. CASE other # c
    BY <1>2, <1>3, <2>1, <2>3 DEF ResultsInv, DeliveriesInv
  <2> QED
    BY <2>2, <2>3
<1>4. DeliveriesInv'
  BY <1>2, <1>3 DEF DeliveriesInv
<1> QED
  BY <1>1, <1>4

LEMMA BuiltResult ==
    ASSUME ResultsInv, NEW c \in Calls, IsBuilt(c)
    PROVE  /\ Result(c).of \in Builders /\ IsTransaction(Result(c).tx)
           /\ c \in Builders => Result(c).tx = calls[c].tx
<1>1. CASE c \in Builders
  <2>1. calls[c].at = "built" /\ calls[c] # NoCall
    BY <1>1 DEF IsBuilt, NoCall
  <2>2. IsTransaction(calls[c].tx)
    BY <1>1, <2>1 DEF ResultsInv, BuildersInv, IsCall
  <2> QED
    BY <1>1, <2>2 DEF Result
<1>2. CASE c \notin Builders
  <2>1. c \in Sponsors /\ sponsored[c].at = "built" /\ sponsored[c] # NoCall
    BY <1>2 DEF IsBuilt, NoCall, Calls
  <2>2. IsTransaction(sponsored[c].tx) /\ sponsored[c].of \in Builders
    BY <2>1 DEF ResultsInv, SponsorsInv, IsSponsor
  <2> QED
    BY <1>2, <2>2 DEF Result
<1> QED
  BY <1>1, <1>2

LEMMA SendingDelivery ==
    ASSUME ResultsInv, NEW c \in Calls, delivery[c].at = "sending",
           NEW at \in {"taken", "refused", "unknown"}, SetDelivery(c, at),
           UNCHANGED <<calls, sponsored>>
    PROVE  /\ (BuildersInv /\ SponsorsInv /\ DeliveriesInv)'
           /\ delivery[c].sent.of \in Builders /\ IsTransaction(delivery[c].sent.tx)
<1>1. delivery[c] # NotSent
  BY DEF NotSent
<1>2. /\ IsDelivery(delivery[c]) /\ IsBuilt(c)
      /\ c \in Builders /\ calls[c].tx.authType = "Standard" /\ Untouched(c) =>
           delivery[c].sent.tx = calls[c].tx
  BY <1>1 DEF ResultsInv, DeliveriesInv
<1>3. PICK sending : sending = [delivery[c] EXCEPT !.at = at]
  OBVIOUS
<1>4. sending.at = at /\ sending.sent = delivery[c].sent /\ DOMAIN sending = {"at", "sent"}
  BY <1>2, <1>3 DEF IsDelivery
<1>5. IsDelivery(sending)
  BY <1>2, <1>4 DEF IsDelivery
<1>6. delivery' = [delivery EXCEPT ![c] = sending]
  BY <1>3 DEF SetDelivery
<1>7. (BuildersInv /\ SponsorsInv /\ DeliveriesInv)'
  BY <1>2, <1>4, <1>5, <1>6, DeliveryChangePreserves
<1> QED
  BY <1>2, <1>7 DEF IsDelivery

LEMMA DeliveryStepsPreserve ==
    ASSUME ResultsInv, NEW c \in Calls, DeliverySteps(c)
    PROVE  ResultsInv'
<1>1. CASE Broadcast(c)
  <2>1. PICK sending, result : result = Result(c) /\ sending = [at |-> "sending", sent |-> result]
    OBVIOUS
  <2>2. /\ IsBuilt(c) /\ delivery' = [delivery EXCEPT ![c] = sending]
        /\ UNCHANGED <<calls, sponsored, accounts, pool>>
    BY <1>1, <2>1 DEF Broadcast
  <2>3. sending.sent = result /\ sending.at = "sending" /\ DOMAIN sending = {"at", "sent"}
    BY <2>1
  <2>4. /\ result.of \in Builders /\ IsTransaction(result.tx)
        /\ c \in Builders => result.tx = calls[c].tx
    BY <2>1, <2>2, BuiltResult
  <2>5. IsDelivery(sending)
    BY <2>3, <2>4 DEF IsDelivery
  <2>6. (BuildersInv /\ SponsorsInv /\ DeliveriesInv)'
    BY <2>2, <2>3, <2>4, <2>5, DeliveryChangePreserves
  <2>7. NodeInv'
    BY <2>2, NodeKept DEF ResultsInv
  <2> QED
    BY <2>6, <2>7 DEF ResultsInv
<1>2. CASE Take(c)
  <2>1. PICK at \in {"taken", "refused", "unknown"} : SetDelivery(c, at)
    BY <1>2 DEF Take
  <2>2. /\ delivery[c].at = "sending" /\ UNCHANGED <<calls, sponsored, accounts>>
        /\ pool' = pool \cup {delivery[c].sent}
    BY <1>2 DEF Take
  <2>3. /\ (BuildersInv /\ SponsorsInv /\ DeliveriesInv)'
        /\ delivery[c].sent.of \in Builders /\ IsTransaction(delivery[c].sent.tx)
    BY <2>1, <2>2, SendingDelivery
  <2>4. NodeInv'
    BY <2>2, <2>3 DEF ResultsInv, NodeInv
  <2> QED
    BY <2>3, <2>4 DEF ResultsInv
<1>3. CASE Refuse(c) \/ Lose(c)
  <2>1. PICK at \in {"taken", "refused", "unknown"} : SetDelivery(c, at)
    BY <1>3 DEF Refuse, Lose
  <2>2. delivery[c].at = "sending" /\ UNCHANGED <<calls, sponsored, accounts, pool>>
    BY <1>3 DEF Refuse, Lose
  <2>3. (BuildersInv /\ SponsorsInv /\ DeliveriesInv)'
    BY <2>1, <2>2, SendingDelivery
  <2>4. NodeInv'
    BY <2>2, NodeKept DEF ResultsInv
  <2> QED
    BY <2>3, <2>4 DEF ResultsInv
<1> QED
  BY <1>1, <1>2, <1>3 DEF DeliverySteps

LEMMA MinePreserves ==
    ASSUME ResultsInv, NEW sent \in pool, Mine(sent)
    PROVE  ResultsInv'
<1>1. UNCHANGED <<calls, sponsored, delivery>>
  BY DEF Mine
<1>2. (BuildersInv /\ SponsorsInv /\ DeliveriesInv)'
  BY <1>1 DEF ResultsInv, BuildersInv, SponsorsInv, DeliveriesInv, Untouched, IsBuilt
<1>3. accounts' \in [Accounts -> Nat]
  BY DEF Mine, ResultsInv, NodeInv
<1>4. pool' \subseteq pool
  BY DEF Mine
<1>5. NodeInv'
  BY <1>3, <1>4 DEF ResultsInv, NodeInv
<1> QED
  BY <1>2, <1>5 DEF ResultsInv

-----------------------------------------------------------------------------
(* The theorems.                                                            *)

LEMMA InitEstablishesResults == Init => ResultsInv
<1> SUFFICES ASSUME Init PROVE ResultsInv
  OBVIOUS
<1>1. accounts \in [Accounts -> Nat] /\ pool = {}
  BY BuilderAssumption DEF Init
<1> QED
  BY <1>1 DEF Init, ResultsInv, BuildersInv, SponsorsInv, DeliveriesInv, NodeInv

LEMMA StutterPreserves ==
    ASSUME ResultsInv, UNCHANGED vars
    PROVE  ResultsInv'
BY DEF vars, ResultsInv, BuildersInv, SponsorsInv, DeliveriesInv, NodeInv, Untouched, IsBuilt

LEMMA StepPreserves == ResultsInv /\ [Next]_vars => ResultsInv'
<1> SUFFICES ASSUME ResultsInv, [Next]_vars PROVE ResultsInv'
  OBVIOUS
<1>1. CASE \E b \in Builders : BuilderSteps(b)
  BY <1>1, BuilderStepsMove, BuilderMovesPreserves
<1>2. CASE \E s \in Sponsors : SponsorSteps(s)
  BY <1>2, SponsorStepsMove, SponsorMovesPreserves
<1>3. CASE \E c \in Calls : DeliverySteps(c)
  BY <1>3, DeliveryStepsPreserve
<1>4. CASE \E sent \in pool : Mine(sent)
  BY <1>4, MinePreserves
<1>5. CASE UNCHANGED vars
  BY <1>5, StutterPreserves
<1> QED
  BY <1>1, <1>2, <1>3, <1>4, <1>5 DEF Next

LEMMA ResultsInvariant == Spec => []ResultsInv
BY InitEstablishesResults, StepPreserves, PTL DEF Spec

\* The calls' transactions, what is sent and what the node keeps are well formed,
\* and a sponsor's call works on a transaction that its builder returned
\* (makeSTXTokenTransfer and the others, sponsorTransaction, broadcastTransaction).
THEOREM BuilderTypes == Spec => []TypeOK
<1>1. ResultsInv => TypeOK
  <2> SUFFICES ASSUME ResultsInv PROVE TypeOK
    OBVIOUS
  <2>1. ASSUME NEW b \in Builders PROVE IsBuilderCall(calls[b])
    BY DEF ResultsInv, BuildersInv, IsCall, IsBuilderCall
  <2>2. ASSUME NEW s \in Sponsors PROVE IsSponsorCall(sponsored[s])
    BY DEF ResultsInv, SponsorsInv, IsSponsor, IsSponsorCall, Awaited
  <2> QED
    BY <2>1, <2>2 DEF TypeOK, ResultsInv, BuildersInv, SponsorsInv, DeliveriesInv, NodeInv
<1> QED
  BY <1>1, ResultsInvariant, PTL

\* What a builder signed verifies exactly when the signers are the first keys of
\* the account, in its order, and their keys do not come again: through all
\* fetches, and whatever sponsors do with the transaction afterwards.
THEOREM BuiltTransactionsVerifyInOrder == Spec => []BuiltVerifiesIffInOrder
<1>1. ResultsInv => BuiltVerifiesIffInOrder
  <2> SUFFICES ASSUME ResultsInv, NEW b \in Builders, calls[b].at = "built",
                      calls[b].request.how = "signed", Untouched(b)
               PROVE  VerifiesOrigin(calls[b].tx) <=> SignsInOrder(calls[b].request)
    BY DEF BuiltVerifiesIffInOrder
  <2>1. calls[b] # NoCall
    BY DEF NoCall
  <2> QED
    BY <2>1 DEF ResultsInv, BuildersInv, IsResult, IsSignedInOrder
<1> QED
  BY <1>1, ResultsInvariant, PTL

\* An estimated fee pays the node's rate for every byte that is sent, though it
\* was estimated before the signatures, the nonce and the sponsor were there.
THEOREM EstimatesCoverSize == Spec => []EstimateCoversSize
<1>1. ResultsInv => EstimateCoversSize
  <2> SUFFICES ASSUME ResultsInv PROVE EstimateCoversSize
    OBVIOUS
  <2>1. ASSUME NEW b \in Builders, calls[b].at = "built", calls[b].request.fee = Absent,
               calls[b].request.how # "sync", calls[b].request.kind = "single",
               calls[b].tx.authType = "Standard", Untouched(b)
        PROVE  calls[b].tx.origin.fee =
                   calls[b].rate * Size(calls[b].request.payload, calls[b].tx)
    <3>1. calls[b] # NoCall
      BY <2>1 DEF NoCall
    <3>2. IsCall(b, calls[b]) /\ IsPriced(calls[b])
      BY <2>1, <3>1 DEF ResultsInv, BuildersInv, IsResult
    <3>3. calls[b].request.authType = "Standard"
      BY <2>1, <3>2 DEF IsCall, IsOfRequest
    <3> QED
      BY <2>1, <3>2, <3>3 DEF IsPriced
  <2>2. ASSUME NEW s \in Sponsors, sponsored[s].at = "built", sponsored[s].request.fee = Absent
        PROVE  sponsored[s].tx.sponsor.fee =
                   sponsored[s].rate * Size(calls[sponsored[s].of].request.payload, sponsored[s].tx)
    <3>1. PICK sponsor, call : sponsor = sponsored[s] /\ call = calls[sponsor.of]
      OBVIOUS
    <3>2. sponsored[s] # NoCall
      BY <2>2 DEF NoCall
    <3>3. IsSponsor(s, sponsor, call) /\ IsSponsored(sponsor, call)
      BY <2>2, <3>1, <3>2 DEF ResultsInv, SponsorsInv, IsSponsor
    <3>4. sponsor.fee = sponsor.rate * Size(call.request.payload, call.tx)
      BY <2>2, <3>1, <3>3 DEF IsSponsor, IsSponsored
    <3>5. call.tx.sponsor.kind = "single"
      <4>1. sponsor.of \in Builders /\ call.at = "built" /\ call # NoCall
        BY <3>3 DEF IsSponsor, NoCall
      <4> QED
        BY <3>1, <4>1 DEF ResultsInv, BuildersInv, IsCall
    <3>6. Size(call.request.payload, sponsor.tx) = Size(call.request.payload, call.tx)
      BY <3>3, <3>5 DEF IsSponsored, Size, ConditionSize
    <3>7. sponsor.tx.sponsor.fee = sponsor.fee
      BY <3>3 DEF IsSponsored
    <3> QED
      BY <3>1, <3>4, <3>6, <3>7
  <2> QED
    BY <2>1, <2>2 DEF EstimateCoversSize
<1> QED
  BY <1>1, ResultsInvariant, PTL

\* Sponsors that work on one transaction at the same time do not mix: each
\* returns the origin as it was, verifying, with its own key, fee and nonce.
THEOREM SponsorsDoNotMix == Spec => []SponsorsStayApart
<1>1. ResultsInv => SponsorsStayApart
  <2> SUFFICES ASSUME ResultsInv, NEW s \in Sponsors, sponsored[s].at = "built"
               PROVE  /\ VerifiesWhole(sponsored[s].tx)
                      /\ sponsored[s].tx.origin = calls[sponsored[s].of].tx.origin
                      /\ sponsored[s].tx.sponsor.keys = <<sponsored[s].request.key>>
                      /\ sponsored[s].request.fee # Absent =>
                           sponsored[s].tx.sponsor.fee = sponsored[s].request.fee
                      /\ sponsored[s].tx.sponsor.nonce =
                           IF sponsored[s].request.nonce = Absent
                           THEN sponsored[s].mined ELSE sponsored[s].request.nonce
    BY DEF SponsorsStayApart
  <2>1. PICK sponsor, call : sponsor = sponsored[s] /\ call = calls[sponsor.of]
    OBVIOUS
  <2>2. sponsored[s] # NoCall
    BY DEF NoCall
  <2>3. IsSponsor(s, sponsor, call) /\ IsSponsored(sponsor, call)
    BY <2>1, <2>2 DEF ResultsInv, SponsorsInv, IsSponsor
  <2> QED
    BY <2>1, <2>3 DEF IsSponsor, IsSponsored
<1> QED
  BY <1>1, ResultsInvariant, PTL

\* The node's refusal of a transaction whose nonce was looked up.
LEMMA RefusedIsOvertaken ==
    ASSUME ResultsInv, NEW b \in Builders, Refuse(b), LooksUpNonce(b),
           NEW sent, sent = delivery[b].sent,
           NEW slot, slot = <<Payer(sent.tx.origin), sent.tx.origin.nonce>>
    PROVE  slot[2] >= calls[b].mined /\ (IsSpent(slot) \/ IsClaimed(slot, sent))
<1>1. PICK call, request : call = calls[b] /\ request = call.request
  OBVIOUS
<1>2. delivery[b].at = "sending" /\ ~NodeTakes(sent)
  BY DEF Refuse
<1>3. /\ call.at = "built" /\ call # NoCall /\ Untouched(b)
      /\ request.nonce = Absent /\ request.how = "signed"
      /\ request.kind = "single" /\ call.tx.authType = "Standard"
  BY <1>1 DEF LooksUpNonce, NoCall
<1>4. IsCall(b, call) /\ IsResult(call)
  BY <1>1, <1>3 DEF ResultsInv, BuildersInv
<1>5. sent.tx = call.tx
  <2>1. delivery[b] # NotSent /\ b \in Calls
    BY <1>2 DEF NotSent, Calls
  <2> QED
    BY <1>1, <1>3, <2>1 DEF ResultsInv, DeliveriesInv
<1>6. VerifiesOrigin(call.tx)
  <2>1. request \in Requests[b]
    BY <1>1, <1>4 DEF IsCall
  <2>2. /\ request.required = 1 /\ Len(request.keys) = 1
        /\ request.signerKeys = request.keys
    BY <1>3, <2>1, RequestTypes
  <2>3. SignsInOrder(request)
    BY <2>2 DEF SignsInOrder
  <2> QED
    BY <1>1, <1>3, <1>4, <2>3 DEF IsResult, IsSignedInOrder
<1>7. slot[2] = call.mined /\ call.mined \in Nat
  <2>1. request.authType = "Standard"
    BY <1>1, <1>3, <1>4 DEF IsCall, IsOfRequest
  <2> QED
    BY <1>1, <1>3, <1>4, <1>5, <2>1 DEF IsResult, HasNonce, IsCall
<1>8. VerifiesWhole(sent.tx) /\ Slots(sent.tx) = {slot}
  BY <1>3, <1>5, <1>6 DEF VerifiesWhole, Slots
<1>9. IsSpent(slot) \/ IsClaimed(slot, sent)
  BY <1>2, <1>8 DEF NodeTakes
<1> QED
  BY <1>1, <1>7, <1>9

\* The node refuses a transaction whose nonce was looked up only when the nonce was
\* used up after the lookup, or another transaction that waits to be mined has it,
\* since before the lookup or since then (fetchAccountNonce, broadcastTransaction).
THEOREM OnlyOvertakenAreRefused == Spec => OnlyOvertakenIsRefused
<1> DEFINE Overtaken(b) ==
             LET sent == delivery[b].sent
                 slot == <<Payer(sent.tx.origin), sent.tx.origin.nonce>>
             IN  /\ slot[2] >= calls[b].mined
                 /\ IsSpent(slot) \/ IsClaimed(slot, sent)
           Lawful == \A b \in Builders :
             delivery[b].at = "sending" /\ delivery'[b].at = "refused" /\ LooksUpNonce(b) =>
                 Overtaken(b)
<1>1. ResultsInv /\ [Next]_vars => [Lawful]_vars
  <2> SUFFICES ASSUME ResultsInv, Next, NEW b \in Builders, delivery[b].at = "sending",
                      delivery'[b].at = "refused", LooksUpNonce(b)
               PROVE  Overtaken(b)
    OBVIOUS
  <2>1. Refuse(b)
    <3>1. ASSUME delivery' = delivery PROVE FALSE
      BY <3>1
    <3>2. DOMAIN delivery = Calls
      BY DEF ResultsInv, DeliveriesInv
    <3>3. ASSUME NEW c \in Calls, NEW at, SetDelivery(c, at) PROVE c = b /\ at = "refused"
      <4>1. CASE c = b
        <5>1. [delivery[b] EXCEPT !.at = at].at = "refused"
          BY <3>2, <3>3, <4>1 DEF SetDelivery
        <5>2. "at" \in DOMAIN delivery[b]
          <6>1. delivery[b] # NotSent /\ b \in Calls
            BY DEF NotSent, Calls
          <6> QED
            BY <6>1 DEF ResultsInv, DeliveriesInv, IsDelivery
        <5> QED
          BY <4>1, <5>1, <5>2
      <4>2. CASE c # b
        BY <3>2, <3>3, <4>2 DEF SetDelivery, Calls
      <4> QED
        BY <4>1, <4>2
    <3>4. CASE \E a \in Builders : BuilderSteps(a)
      BY <3>1, <3>4, BuilderStepsMove DEF BuilderMoves
    <3>5. CASE \E s \in Sponsors : SponsorSteps(s)
      BY <3>1, <3>5, SponsorStepsMove DEF SponsorMoves
    <3>6. CASE \E c \in Calls : DeliverySteps(c)
      <4>1. PICK c \in Calls : DeliverySteps(c)
        BY <3>6
      <4>2. CASE Broadcast(c)
        BY <3>2, <4>2 DEF Broadcast
      <4>3. CASE Take(c)
        BY <3>3, <4>3 DEF Take
      <4>4. CASE Refuse(c)
        <5>1. c = b
          BY <3>3, <4>4 DEF Refuse
        <5> QED
          BY <4>4, <5>1
      <4>5. CASE Lose(c)
        BY <3>3, <4>5 DEF Lose
      <4> QED
        BY <4>1, <4>2, <4>3, <4>4, <4>5 DEF DeliverySteps
    <3>7. CASE \E sent \in pool : Mine(sent)
      BY <3>1, <3>7 DEF Mine
    <3> QED
      BY <3>4, <3>5, <3>6, <3>7 DEF Next
  <2> QED
    BY <2>1, RefusedIsOvertaken
<1> QED
  BY <1>1, ResultsInvariant, PTL DEF Spec, OnlyOvertakenIsRefused
=============================================================================
