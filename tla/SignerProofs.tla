---------------------------- MODULE SignerProofs ----------------------------
(***************************************************************************)
(* Proofs about TransactionSigner, for any parties, keys, accounts, fees and *)
(* bounds: its type invariant whatever the parties do; that no transaction is *)
(* ever oversigned as long as no two signOrigin calls of one signer overlap;  *)
(* and, if besides nothing that is signed is changed, that signers go on from *)
(* the right hash, that what is complete verifies and that what a sponsor     *)
(* signed verifies in whole.                                                *)
(***************************************************************************)
EXTENDS TransactionSigner, AuthProofs

-----------------------------------------------------------------------------
(* The accounts' transactions.                                              *)

\* The unsigned transaction of an account has no signatures.
LEMMA UnsignedTransaction ==
    ASSUME NEW account \in Accounts
    PROVE  /\ IsTransaction(Unsigned(account))
           /\ NumSigs(Unsigned(account).origin) = 0
           /\ Unsigned(account).origin.required \in Nat
<1> DEFINE tx == Unsigned(account)
<1>1. /\ account.kind \in Kinds /\ account.keys \in Seq(Keys)
      /\ account.required \in 1..Len(account.keys) /\ account.authType \in AuthTypes
  BY SignerAssumption
<1>2. account.keys \in Seq(Keys \cup {NoKey}) /\ account.required \in Nat
  <2>1. Seq(Keys) \subseteq Seq(Keys \cup {NoKey})
    BY SeqMonotonic
  <2>2. Len(account.keys) \in Nat
    BY <1>1, LenProperties
  <2> QED
    BY <1>1, <2>1, <2>2
<1>3. /\ DOMAIN tx = {"authType", "origin", "sponsor"}
      /\ tx.authType = account.authType
      /\ tx.origin = Condition(account.kind, account.keys, account.required, 0, 0)
      /\ tx.sponsor = NoSponsor
  BY DEF Unsigned
<1>4. IsCondition(tx.origin) /\ NumSigs(tx.origin) = 0
  <2> DEFINE cond == Condition(account.kind, account.keys, account.required, 0, 0)
  <2>1. 0 \in Nat
    OBVIOUS
  <2>2. IsCondition(cond) /\ NumSigs(cond) = 0
    BY <1>1, <1>2, <2>1, NewCondition
  <2> QED
    BY <1>3, <2>2
<1>5. IsCondition(tx.sponsor)
  <2>1. <<NoKey>> \in Seq(Keys \cup {NoKey})
    OBVIOUS
  <2>2. "single" \in Kinds /\ 1 \in Nat /\ 0 \in Nat
    BY DEF Kinds
  <2> DEFINE cond == Condition("single", <<NoKey>>, 1, 0, 0)
  <2>3. tx.sponsor = cond
    BY <1>3 DEF NoSponsor, SingleSig
  <2>4. IsCondition(cond)
    BY <2>1, <2>2, NewCondition
  <2> QED
    BY <2>3, <2>4
<1> QED
  BY <1>1, <1>3, <1>4, <1>5 DEF IsTransaction, IsCondition

-----------------------------------------------------------------------------
(* Signers.                                                                 *)

\* A signer whose transaction is replaced.
LEMMA TransactionReplaced ==
    ASSUME NEW signer, IsSigner(signer), NEW tx, IsTransaction(tx),
           NEW next, DOMAIN next = DOMAIN signer, next.tx = tx,
           next.signing \subseteq signer.signing
    PROVE  IsSigner(next)
BY DEF IsSigner

\* The signer of a new TransactionSigner.
LEMMA NewSigner ==
    ASSUME NEW tx, IsTransaction(tx), NEW hash
    PROVE  IsSigner(Signer(tx, hash)) /\ Signer(tx, hash).tx = tx /\ Signer(tx, hash).signing = {}
BY DEF Signer, IsSigner

\* A signer after signOrigin's await began.
LEMMA SignerSigning ==
    ASSUME NEW signer, IsSigner(signer), NEW result,
           IsField(result.field), result.field.kind = "signature",
           NEW next, next = [signer EXCEPT !.signing = @ \cup {result}]
    PROVE  /\ IsSigner(next)
           /\ next.tx = signer.tx
           /\ next.signing = signer.signing \cup {result}
<1>1. /\ DOMAIN next = DOMAIN signer
      /\ next.tx = signer.tx
      /\ next.signing = signer.signing \cup {result}
  BY DEF IsSigner
<1> QED
  BY <1>1 DEF IsSigner

\* A signer after signOrigin's await ended.
AfterSigning(signer, result) ==
    [signer EXCEPT !.tx.origin = AddSignature(@, result.field),
                   !.sigHash = result.hash,
                   !.signing = @ \ {result}]

LEMMA SignerSigned ==
    ASSUME NEW signer, IsSigner(signer), NEW result \in signer.signing
    PROVE  /\ IsSigner(AfterSigning(signer, result))
           /\ AfterSigning(signer, result).tx.origin = AddSignature(signer.tx.origin, result.field)
           /\ AfterSigning(signer, result).signing = signer.signing \ {result}
           /\ IsField(result.field) /\ result.field.kind = "signature"
<1> DEFINE cond == AddSignature(signer.tx.origin, result.field)
           next == AfterSigning(signer, result)
<1>1. IsField(result.field) /\ result.field.kind = "signature"
  BY DEF IsSigner
<1>2. IsTransaction(signer.tx) /\ IsCondition(signer.tx.origin)
  BY DEF IsSigner, IsTransaction
<1>3. IsCondition(cond)
  BY <1>1, <1>2, SignedCondition
<1>4. /\ DOMAIN next = DOMAIN signer
      /\ next.tx = [signer.tx EXCEPT !.origin = cond]
      /\ next.signing = signer.signing \ {result}
  BY DEF IsSigner, AfterSigning
<1> HIDE DEF next
<1>5. IsTransaction(next.tx) /\ next.tx.origin = cond
  BY ONLY <1>2, <1>3, <1>4, OriginReplaced
<1>6. IsSigner(next)
  BY <1>4, <1>5, TransactionReplaced
<1> QED
  BY <1>1, <1>4, <1>5, <1>6 DEF next

\* A signer after appendOrigin.
AfterAppending(signer, key) ==
    [signer EXCEPT !.tx.origin.fields = Append(@, PubkeyField(key))]

LEMMA SignerAppended ==
    ASSUME NEW signer, IsSigner(signer), signer.tx.origin.kind = "multi", NEW key \in Keys
    PROVE  /\ IsSigner(AfterAppending(signer, key))
           /\ AfterAppending(signer, key).tx.origin.required = signer.tx.origin.required
           /\ NumSigs(AfterAppending(signer, key).tx.origin) = NumSigs(signer.tx.origin)
           /\ AfterAppending(signer, key).signing = signer.signing
<1> DEFINE field == PubkeyField(key)
           cond == [signer.tx.origin EXCEPT !.fields = Append(@, field)]
           next == AfterAppending(signer, key)
<1>1. IsField(field) /\ field.kind = "pubkey"
  BY DEF PubkeyField, IsField
<1>2. IsTransaction(signer.tx) /\ IsCondition(signer.tx.origin)
  BY DEF IsSigner, IsTransaction
<1>3. IsCondition(cond) /\ cond.required = signer.tx.origin.required
  BY <1>1, <1>2, AppendedCondition
<1>4. NumSigs(cond) = NumSigs(signer.tx.origin)
  BY <1>1, <1>2, AppendedCount
<1>5. /\ DOMAIN next = DOMAIN signer
      /\ next.tx = [signer.tx EXCEPT !.origin = cond]
      /\ next.signing = signer.signing
  BY DEF IsSigner, AfterAppending
<1> HIDE DEF next
<1>6. IsTransaction(next.tx) /\ next.tx.origin = cond
  <2> HIDE DEF cond
  <2> QED
    BY <1>2, <1>3, <1>5, OriginReplaced
<1>7. IsSigner(next)
  BY <1>5, <1>6, TransactionReplaced
<1> QED
  BY <1>3, <1>4, <1>5, <1>6, <1>7 DEF next

\* A signer whose transaction's fee or nonce is changed, or that resumes another.
LEMMA SignerGiven ==
    ASSUME NEW signer, IsSigner(signer), NEW tx, IsTransaction(tx),
           NEW hash, NEW next,
           \/ next = [signer EXCEPT !.tx = tx]
           \/ next = [signer EXCEPT !.tx = tx, !.sigHash = hash]
    PROVE  IsSigner(next) /\ next.tx = tx /\ next.signing = signer.signing
<1>1. /\ DOMAIN next = DOMAIN signer
      /\ next.tx = tx
      /\ next.signing = signer.signing
  BY DEF IsSigner
<1> QED
  BY <1>1, TransactionReplaced

-----------------------------------------------------------------------------
(* The type invariant.                                                      *)

LEMMA HandedOut ==
    ASSUME TypeOK, NEW tx, IsTransaction(tx), HandOut(tx), UNCHANGED signers
    PROVE  TypeOK'
BY DEF TypeOK, HandOut

LEMMA SignerSet ==
    ASSUME TypeOK, NEW p \in Parties, NEW signer, IsSigner(signer),
           SetSigner(p, signer), UNCHANGED circulating
    PROVE  TypeOK'
<1>1. /\ DOMAIN signers' = Parties
      /\ signers'[p] = signer
      /\ \A q \in Parties : q # p => signers'[q] = signers[q]
  BY DEF TypeOK, SetSigner
<1>2. \A q \in Parties : signers'[q] # NoSigner => IsSigner(signers'[q])
  BY <1>1 DEF TypeOK
<1> QED
  BY <1>1, <1>2 DEF TypeOK

LEMMA InitType == Init => TypeOK
<1> SUFFICES ASSUME Init PROVE TypeOK
  OBVIOUS
<1>1. \A tx \in circulating : IsTransaction(tx)
  BY UnsignedTransaction DEF Init
<1>2. DOMAIN signers = Parties /\ \A p \in Parties : signers[p] = NoSigner
  BY DEF Init
<1> QED
  BY <1>1, <1>2 DEF TypeOK

LEMMA StepType == TypeOK /\ [Next]_vars => TypeOK'
<1> SUFFICES ASSUME TypeOK, [Next]_vars PROVE TypeOK'
  OBVIOUS
<1>1. ASSUME NEW p \in Parties, PartySteps(p) PROVE TypeOK'
  <2> DEFINE signer == signers[p]
  <2>1. signer # NoSigner => IsSigner(signer) /\ IsTransaction(signer.tx)
    BY DEF TypeOK, IsSigner
  <2>2. ASSUME NEW tx \in circulating, Construct(p, tx) PROVE TypeOK'
    <3>1. IsSigner(Signer(tx, ReconstructSigHash(tx)))
      BY NewSigner DEF TypeOK
    <3> QED
      BY <2>2, <3>1, SignerSet DEF Construct
  <2>3. ASSUME NEW tx \in circulating, Resume(p, tx) PROVE TypeOK'
    <3> DEFINE next == [signer EXCEPT !.tx = tx, !.sigHash = SignBegin(tx)]
    <3>1. IsSigner(next)
      BY <2>1, <2>3, SignerGiven DEF TypeOK, Resume
    <3> QED
      BY <2>3, <3>1, SignerSet DEF Resume
  <2>4. ASSUME NEW key \in KeysOf[p], SignOrigin(p, key) PROVE TypeOK'
    <3> DEFINE result == NextSignature(signer.sigHash, "Standard", signer.tx.origin, key)
               next == [signer EXCEPT !.signing = @ \cup {result}]
    <3>1. key \in Keys
      BY SignerAssumption
    <3>2. IsField(result.field) /\ result.field.kind = "signature"
      BY <3>1, NewResult
    <3>3. IsSigner(next)
      <4> HIDE DEF result
      <4> QED
        BY <2>1, <2>4, <3>2, SignerSigning DEF SignOrigin
    <3>4. SetSigner(p, next) /\ UNCHANGED circulating
      BY <2>4 DEF SignOrigin
    <3> QED
      BY <3>3, <3>4, SignerSet
  <2>5. ASSUME signer # NoSigner, NEW result \in signer.signing, SignOriginEnds(p, result)
        PROVE  TypeOK'
    <3>1. IsSigner(AfterSigning(signer, result))
      BY <2>1, <2>5, SignerSigned
    <3>2. SetSigner(p, AfterSigning(signer, result)) /\ UNCHANGED circulating
      BY <2>5 DEF SignOriginEnds, AfterSigning
    <3> QED
      BY <3>1, <3>2, SignerSet
  <2>6. ASSUME NEW key \in Keys, AppendOrigin(p, key) PROVE TypeOK'
    <3>1. IsSigner(AfterAppending(signer, key))
      BY <2>1, <2>6, SignerAppended DEF AppendOrigin
    <3>2. SetSigner(p, AfterAppending(signer, key)) /\ UNCHANGED circulating
      BY <2>6 DEF AppendOrigin, AfterAppending
    <3> QED
      BY <3>1, <3>2, SignerSet
  <2>7. ASSUME NEW fee \in Fees, ChangeFee(p, fee) PROVE TypeOK'
    <3> DEFINE tx == SetFee(signer.tx, fee)
               next == [signer EXCEPT !.tx = tx]
    <3>1. fee \in Nat
      BY SignerAssumption
    <3>2. IsTransaction(tx)
      BY <2>1, <2>7, <3>1, FeeSet DEF ChangeFee
    <3>3. IsSigner(next)
      <4> HIDE DEF tx
      <4> QED
        BY <2>1, <2>7, <3>2, SignerGiven DEF ChangeFee
    <3> QED
      BY <2>7, <3>3, SignerSet DEF ChangeFee
  <2>8. ASSUME NEW nonce \in Nonces, ChangeNonce(p, nonce) PROVE TypeOK'
    <3> DEFINE tx == SetNonce(signer.tx, nonce)
               next == [signer EXCEPT !.tx = tx]
    <3>1. nonce \in Nat
      BY SignerAssumption
    <3>2. IsTransaction(tx)
      BY <2>1, <2>8, <3>1, NonceSet DEF ChangeNonce
    <3>3. IsSigner(next)
      <4> HIDE DEF tx
      <4> QED
        BY <2>1, <2>8, <3>2, SignerGiven DEF ChangeNonce
    <3> QED
      BY <2>8, <3>3, SignerSet DEF ChangeNonce
  <2>9. CASE HandOn(p)
    <3>1. PICK copy : IsTransaction(copy) /\ HandOut(copy) /\ UNCHANGED signers
      BY <2>1, <2>9, DeserializedTransaction DEF HandOn
    <3> QED
      BY <3>1, HandedOut
  <2> QED
    BY <1>1, <2>2, <2>3, <2>4, <2>5, <2>6, <2>7, <2>8, <2>9 DEF PartySteps
<1>2. ASSUME NEW tx \in circulating, NEW key \in SponsorKeys, NEW fee \in Fees,
             NEW nonce \in Nonces, SponsorTransaction(tx, key, fee, nonce)
      PROVE  TypeOK'
  <2>1. key \in Keys /\ fee \in Nat /\ nonce \in Nat /\ IsTransaction(tx)
    BY SignerAssumption DEF TypeOK
  <2>2. IsTransaction(Sponsored(tx, key, fee, nonce))
    BY <2>1, SponsoredTransaction
  <2> QED
    BY <1>2, <2>2, HandedOut DEF SponsorTransaction
<1>3. CASE UNCHANGED vars
  BY <1>3 DEF vars, TypeOK
<1> QED
  BY <1>1, <1>2, <1>3 DEF Next

\* Whatever the parties do, with misuses or without, every transaction and every
\* signer stays well formed; in particular a single-sig origin never has more
\* than one signature (signAndAppend replaces it).
THEOREM SignerTypeCorrect == Spec => []TypeOK
<1>1. Init => TypeOK
  BY InitType
<1>2. TypeOK /\ [Next]_vars => TypeOK'
  BY StepType
<1> QED
  BY <1>1, <1>2, PTL DEF Spec

-----------------------------------------------------------------------------
(* No oversigning.  The check is made before signOrigin's await and the      *)
(* signature is added after it, so the bound alone is not inductive: a       *)
(* signature that is still being made must have its place reserved, and at   *)
(* most one may be under way.                                               *)

WithinRequired(tx) == tx.origin.kind = "multi" => NumSigs(tx.origin) <= tx.origin.required

Reserved(signer) ==
    /\ \A r1, r2 \in signer.signing : r1 = r2
    /\ WithinRequired(signer.tx)
    /\ signer.tx.origin.kind = "multi" /\ signer.signing # {} =>
           NumSigs(signer.tx.origin) + 1 <= signer.tx.origin.required

SigningInv ==
    /\ \A tx \in circulating : WithinRequired(tx)
    /\ \A p \in Parties : signers[p] # NoSigner => Reserved(signers[p])

LEMMA HandedOutWithin ==
    ASSUME SigningInv, NEW tx, WithinRequired(tx), HandOut(tx), UNCHANGED signers
    PROVE  SigningInv'
BY DEF SigningInv, HandOut

LEMMA SignerSetReserved ==
    ASSUME TypeOK, SigningInv, NEW p \in Parties, NEW signer, Reserved(signer),
           SetSigner(p, signer), UNCHANGED circulating
    PROVE  SigningInv'
<1>1. /\ signers'[p] = signer
      /\ \A q \in Parties : q # p => signers'[q] = signers[q]
  BY DEF TypeOK, SetSigner
<1> QED
  BY <1>1 DEF SigningInv

\* A signer that keeps its transaction's signatures and what it is signing.
LEMMA StillReserved ==
    ASSUME NEW signer, Reserved(signer), NEW next,
           next.signing = signer.signing,
           next.tx.origin.kind = signer.tx.origin.kind,
           next.tx.origin.required = signer.tx.origin.required,
           NumSigs(next.tx.origin) = NumSigs(signer.tx.origin)
    PROVE  Reserved(next)
BY DEF Reserved, WithinRequired

LEMMA InitSigning == Init => SigningInv
<1> SUFFICES ASSUME Init PROVE SigningInv
  OBVIOUS
<1>1. \A tx \in circulating : WithinRequired(tx)
  BY UnsignedTransaction DEF Init, WithinRequired
<1> QED
  BY <1>1 DEF Init, SigningInv

LEMMA StepSigning ==
    ASSUME "concurrent" \notin Misuses, TypeOK, SigningInv, [Next]_vars
    PROVE  SigningInv'
<1>1. ASSUME NEW p \in Parties, PartySteps(p) PROVE SigningInv'
  <2> DEFINE signer == signers[p]
  <2>1. signer # NoSigner =>
            IsSigner(signer) /\ IsTransaction(signer.tx) /\ IsCondition(signer.tx.origin)
    BY DEF TypeOK, IsSigner, IsTransaction
  <2>2. signer # NoSigner => Reserved(signer)
    BY DEF SigningInv
  <2>3. signer # NoSigner =>
            NumSigs(signer.tx.origin) \in Nat /\ signer.tx.origin.required \in Nat
    BY <2>1, FieldCount DEF IsCondition
  <2>4. ASSUME NEW tx \in circulating, Construct(p, tx) PROVE SigningInv'
    <3> DEFINE next == Signer(tx, ReconstructSigHash(tx))
    <3>1. next.tx = tx /\ next.signing = {} /\ WithinRequired(tx)
      BY NewSigner DEF TypeOK, SigningInv
    <3>2. Reserved(next)
      BY <3>1 DEF Reserved
    <3> QED
      BY <2>4, <3>2, SignerSetReserved DEF Construct
  <2>5. ASSUME NEW tx \in circulating, Resume(p, tx) PROVE SigningInv'
    <3> DEFINE next == [signer EXCEPT !.tx = tx, !.sigHash = SignBegin(tx)]
    <3>1. next.tx = tx /\ next.signing = signer.signing
      BY <2>1, <2>5 DEF Resume, IsSigner
    <3>2. signer.signing = {} /\ WithinRequired(tx)
      BY <2>5 DEF Resume, SigningInv
    <3>3. Reserved(next)
      BY <3>1, <3>2 DEF Reserved
    <3> QED
      BY <2>5, <3>3, SignerSetReserved DEF Resume
  <2>6. ASSUME NEW key \in KeysOf[p], SignOrigin(p, key) PROVE SigningInv'
    <3> DEFINE result == NextSignature(signer.sigHash, "Standard", signer.tx.origin, key)
               next == [signer EXCEPT !.signing = @ \cup {result}]
    <3>1. key \in Keys
      BY SignerAssumption
    <3>2. IsField(result.field) /\ result.field.kind = "signature"
      BY <3>1, NewResult
    <3>3. /\ signer # NoSigner /\ signer.signing = {} /\ ~Oversigned(signer.tx.origin)
          /\ SetSigner(p, next) /\ UNCHANGED circulating
      BY <2>6 DEF SignOrigin
    <3>4. next.tx = signer.tx /\ next.signing = {result}
      <4> HIDE DEF result
      <4> QED
        BY <2>1, <3>2, <3>3, SignerSigning
    <3>5. signer.tx.origin.kind = "multi" =>
              NumSigs(signer.tx.origin) + 1 <= signer.tx.origin.required
      BY <2>3, <3>3 DEF Oversigned
    <3>6. Reserved(next)
      <4> HIDE DEF result, next
      <4> QED
        BY <2>2, <3>3, <3>4, <3>5 DEF Reserved
    <3> QED
      BY <3>3, <3>6, SignerSetReserved
  <2>7. ASSUME signer # NoSigner, NEW result \in signer.signing, SignOriginEnds(p, result)
        PROVE  SigningInv'
    <3> DEFINE next == AfterSigning(signer, result)
               cond == AddSignature(signer.tx.origin, result.field)
    <3>1. /\ next.tx.origin = cond
          /\ next.signing = signer.signing \ {result}
          /\ IsField(result.field) /\ result.field.kind = "signature"
      <4>1. IsSigner(signer)
        BY <2>1, <2>7
      <4>2. result \in signer.signing
        BY <2>7
      <4> QED
        BY ONLY <4>1, <4>2, SignerSigned
    <3>2. next.signing = {}
      BY <2>2, <2>7, <3>1 DEF Reserved
    <3>3. /\ cond.kind = signer.tx.origin.kind
          /\ cond.required = signer.tx.origin.required
          /\ cond.kind = "multi" => NumSigs(cond) = NumSigs(signer.tx.origin) + 1
      BY <2>1, <2>7, <3>1, SignedCondition
    <3>4. cond.kind = "multi" => NumSigs(cond) <= cond.required
      <4> HIDE DEF cond
      <4> QED
        BY <2>2, <2>7, <3>3 DEF Reserved
    <3>5. Reserved(next)
      <4> HIDE DEF cond, next
      <4> QED
        BY <3>1, <3>2, <3>4 DEF Reserved, WithinRequired
    <3>6. SetSigner(p, next) /\ UNCHANGED circulating
      BY <2>7 DEF SignOriginEnds, AfterSigning
    <3> QED
      BY <3>5, <3>6, SignerSetReserved
  <2>8. ASSUME NEW key \in Keys, AppendOrigin(p, key) PROVE SigningInv'
    <3> DEFINE next == AfterAppending(signer, key)
    <3>1. signer # NoSigner /\ signer.tx.origin.kind = "multi"
      BY <2>8 DEF AppendOrigin
    <3>2. /\ next.tx.origin.required = signer.tx.origin.required
          /\ NumSigs(next.tx.origin) = NumSigs(signer.tx.origin)
          /\ next.signing = signer.signing
      <4>1. IsSigner(signer) /\ key \in Keys
        BY <2>1, <2>8, <3>1
      <4> QED
        BY ONLY <3>1, <4>1, SignerAppended
    <3>3. Reserved(next)
      <4> HIDE DEF next
      <4> QED
        BY <2>2, <3>1, <3>2 DEF Reserved, WithinRequired
    <3>4. SetSigner(p, next) /\ UNCHANGED circulating
      BY <2>8 DEF AppendOrigin, AfterAppending
    <3> QED
      BY <3>3, <3>4, SignerSetReserved
  <2>9. ASSUME NEW fee \in Fees, ChangeFee(p, fee) PROVE SigningInv'
    <3> DEFINE tx == SetFee(signer.tx, fee)
               next == [signer EXCEPT !.tx = tx]
    <3>1. signer # NoSigner /\ fee \in Nat
      BY <2>9, SignerAssumption DEF ChangeFee
    <3>2. /\ IsTransaction(tx)
          /\ tx.origin.kind = signer.tx.origin.kind
          /\ tx.origin.required = signer.tx.origin.required
          /\ NumSigs(tx.origin) = NumSigs(signer.tx.origin)
      BY <2>1, <3>1, FeeSet
    <3>3. next.tx = tx /\ next.signing = signer.signing
      <4> HIDE DEF tx
      <4> QED
        BY <2>1, <3>1 DEF IsSigner
    <3>4. Reserved(next)
      <4> HIDE DEF tx, next
      <4> QED
        BY <2>2, <3>1, <3>2, <3>3, StillReserved
    <3> QED
      BY <2>9, <3>4, SignerSetReserved DEF ChangeFee
  <2>10. ASSUME NEW nonce \in Nonces, ChangeNonce(p, nonce) PROVE SigningInv'
    <3> DEFINE tx == SetNonce(signer.tx, nonce)
               next == [signer EXCEPT !.tx = tx]
    <3>1. signer # NoSigner /\ nonce \in Nat
      BY <2>10, SignerAssumption DEF ChangeNonce
    <3>2. /\ IsTransaction(tx)
          /\ tx.origin.kind = signer.tx.origin.kind
          /\ tx.origin.required = signer.tx.origin.required
          /\ NumSigs(tx.origin) = NumSigs(signer.tx.origin)
      BY <2>1, <3>1, NonceSet
    <3>3. next.tx = tx /\ next.signing = signer.signing
      <4> HIDE DEF tx
      <4> QED
        BY <2>1, <3>1 DEF IsSigner
    <3>4. Reserved(next)
      <4> HIDE DEF tx, next
      <4> QED
        BY <2>2, <3>1, <3>2, <3>3, StillReserved
    <3> QED
      BY <2>10, <3>4, SignerSetReserved DEF ChangeNonce
  <2>11. CASE HandOn(p)
    <3>1. WithinRequired(Deserialized(signer.tx))
      <4>1. IsTransaction(signer.tx) /\ WithinRequired(signer.tx)
        BY <2>1, <2>2, <2>11 DEF Reserved, HandOn
      <4> QED
        BY <4>1, DeserializedTransaction DEF WithinRequired
    <3>2. PICK copy : WithinRequired(copy) /\ HandOut(copy) /\ UNCHANGED signers
      BY <2>2, <2>11, <3>1 DEF HandOn, Reserved
    <3> QED
      BY <3>2, HandedOutWithin
  <2> QED
    BY <1>1, <2>4, <2>5, <2>6, <2>7, <2>8, <2>9, <2>10, <2>11 DEF PartySteps
<1>2. ASSUME NEW tx \in circulating, NEW key \in SponsorKeys, NEW fee \in Fees,
             NEW nonce \in Nonces, SponsorTransaction(tx, key, fee, nonce)
      PROVE  SigningInv'
  <2>1. key \in Keys /\ fee \in Nat /\ nonce \in Nat /\ IsTransaction(tx) /\ WithinRequired(tx)
    BY SignerAssumption DEF TypeOK, SigningInv
  <2>2. Sponsored(tx, key, fee, nonce).origin = tx.origin
    BY <2>1, SponsoredTransaction
  <2>3. WithinRequired(Sponsored(tx, key, fee, nonce))
    BY <2>1, <2>2 DEF WithinRequired
  <2> QED
    BY <1>2, <2>3, HandedOutWithin DEF SponsorTransaction
<1>3. CASE UNCHANGED vars
  BY <1>3 DEF vars, SigningInv
<1> QED
  BY <1>1, <1>2, <1>3 DEF Next

LEMMA SigningInvBounds == SigningInv => NeverOversigned
BY DEF SigningInv, Reserved, WithinRequired, NeverOversigned

\* However many parties sign however many copies, resumed, appended to, with
\* fees and nonces changed, no transaction and no signer ever has more signatures
\* than its multi-sig account requires, provided each signOrigin call settles
\* before the same signer's next one.
THEOREM NoOversigning ==
    ASSUME "concurrent" \notin Misuses
    PROVE  Spec => []NeverOversigned
<1>1. Init => TypeOK /\ SigningInv
  BY InitType, InitSigning
<1>2. TypeOK /\ SigningInv /\ [Next]_vars => TypeOK' /\ SigningInv'
  BY StepType, StepSigning
<1>3. SigningInv => NeverOversigned
  BY SigningInvBounds
<1> QED
  BY <1>1, <1>2, <1>3, PTL DEF Spec

-----------------------------------------------------------------------------
(* Verification.  What is handed on verifies because of what each signer      *)
(* holds: the hash that verification reaches over the fields so far, and      *)
(* signatures under way that were made over that very hash.  No two calls of  *)
(* one signer overlap, and no signature is followed by a change of what it     *)
(* covers; fields may come in any order and from any party.                   *)

\* The constructor takes each key for compressed.  (The keys that are appended and
\* do not sign may be of either encoding.)
CosignersCompressed ==
    \A account \in Accounts :
        account.kind = "multi" => \A p \in Parties : KeysOf[p] \cap Uncompressed = {}

IsOf(tx, account) ==
    /\ tx.authType = account.authType
    /\ tx.origin.kind = account.kind
    /\ tx.origin.keys = account.keys
    /\ tx.origin.required = account.required

Cosigned(tx) ==
    CosignersCompressed /\ tx.authType = "Standard" /\ tx.origin.kind = "multi"

\* Verification finds the key of each field.
FieldsVerify(tx) ==
    VerifyFields(tx.origin, SignBegin(tx), "Standard").keys = FieldKeys(tx.origin)

Faithful(tx) ==
    /\ \E account \in Accounts : IsOf(tx, account)
    /\ Cosigned(tx) \/ tx.origin.kind = "single" => FieldsVerify(tx)
    /\ Cosigned(tx) =>
         \A i \in SignatureFields(tx.origin) : tx.origin.fields[i].key \notin Uncompressed
    /\ Misuses = {} /\ NumSigs(tx.sponsor) > 0 =>
         /\ tx.origin.kind = "single"
         /\ VerifiesOrigin(tx)
         /\ Verifies(tx.sponsor, OriginHash(tx), "Sponsored")

\* A signature under way: some party's key made it over the signer's hash.
UnderWay(signer, result) ==
    \E p \in Parties : \E key \in KeysOf[p] :
        /\ result = NextSignature(signer.sigHash, "Standard", signer.tx.origin, key)
        /\ Misuses = {} /\ signer.tx.origin.kind = "single" => signer.tx.origin.keys = <<key>>

InStep(signer) ==
    /\ Faithful(signer.tx)
    /\ Cosigned(signer.tx) => signer.sigHash = OriginHash(signer.tx)
    /\ signer.tx.origin.kind = "single" /\ signer.signing # {} =>
         signer.sigHash = SignBegin(signer.tx)
    /\ \A result \in signer.signing : UnderWay(signer, result)

CosigningInv ==
    /\ \A tx \in circulating : Faithful(tx)
    /\ \A p \in Parties : signers[p] # NoSigner => InStep(signers[p])

-----------------------------------------------------------------------------
(* What each operation does to a faithful transaction.                        *)

\* The hash of the bare transaction covers none of what the operations change.
LEMMA SameBegin ==
    ASSUME NEW tx, NEW next, next.authType = tx.authType,
           next.origin.keys = tx.origin.keys, next.origin.required = tx.origin.required
    PROVE  SignBegin(next) = SignBegin(tx)
BY DEF SignBegin

LEMMA SameAccount ==
    ASSUME NEW tx, NEW next, next.authType = tx.authType, next.origin.kind = tx.origin.kind,
           next.origin.keys = tx.origin.keys, next.origin.required = tx.origin.required,
           \E account \in Accounts : IsOf(tx, account)
    PROVE  \E account \in Accounts : IsOf(next, account)
BY DEF IsOf

\* The required number of signatures is one at least, and one key signs alone.
LEMMA AccountOf ==
    ASSUME NEW tx, \E account \in Accounts : IsOf(tx, account)
    PROVE  /\ tx.origin.required \in Nat /\ tx.origin.required >= 1
           /\ tx.origin.kind \in Kinds
           /\ tx.authType \in AuthTypes
           /\ tx.origin.keys \in Seq(Keys)
           /\ tx.origin.kind = "single" => Len(tx.origin.keys) = 1 /\ tx.origin.required = 1
<1>1. PICK account \in Accounts : IsOf(tx, account)
  OBVIOUS
<1>2. PICK n : n = Len(account.keys)
  OBVIOUS
<1>3. /\ account.required \in 1..n /\ n \in Nat
      /\ account.kind = "single" => n = 1
      /\ account.kind \in Kinds /\ account.authType \in AuthTypes
      /\ account.keys \in Seq(Keys)
  BY <1>2, SignerAssumption, LenProperties
<1>4. account.required \in Nat /\ account.required >= 1 /\ (n = 1 => account.required = 1)
  BY <1>3
<1> QED
  BY <1>1, <1>2, <1>3, <1>4 DEF IsOf

\* A transaction without signatures, of an account: what its fields are does not matter.
LEMMA UnsignedFaithful ==
    ASSUME NEW tx, IsTransaction(tx), \E account \in Accounts : IsOf(tx, account),
           NumSigs(tx.origin) = 0, Misuses = {} => NumSigs(tx.sponsor) = 0
    PROVE  Faithful(tx) /\ OriginHash(tx) = SignBegin(tx)
<1>1. IsCondition(tx.origin)
  BY DEF IsTransaction
<1>2. /\ VerifyFields(tx.origin, SignBegin(tx), "Standard").hash = SignBegin(tx)
      /\ VerifyFields(tx.origin, SignBegin(tx), "Standard").keys = FieldKeys(tx.origin)
  BY <1>1, UnsignedVerified
<1>3. SignatureFields(tx.origin) = {}
  BY <1>1, FieldCount, FS_EmptySet DEF NumSigs
<1>4. Misuses = {} => ~(NumSigs(tx.sponsor) > 0)
  OBVIOUS
<1> QED
  BY <1>2, <1>3, <1>4 DEF Faithful, FieldsVerify, OriginHash

\* A faithful transaction that a sponsor signed is signed by its origin.
LEMMA SponsoredIsSigned ==
    ASSUME NEW tx, Faithful(tx), Misuses = {}, NumSigs(tx.origin) = 0,
           NumSigs(tx.sponsor) \in Nat
    PROVE  NumSigs(tx.sponsor) = 0
<1> SUFFICES ASSUME NumSigs(tx.sponsor) > 0 PROVE FALSE
  OBVIOUS
<1>1. VerifiesOrigin(tx) /\ \E account \in Accounts : IsOf(tx, account)
  BY DEF Faithful
<1>2. NumSigs(tx.origin) = tx.origin.required
  BY <1>1 DEF VerifiesOrigin, Verifies
<1> QED
  BY <1>1, <1>2, AccountOf

\* The unsigned transaction of an account.
LEMMA AccountFaithful ==
    ASSUME NEW account \in Accounts
    PROVE  Faithful(Unsigned(account))
<1> DEFINE tx == Unsigned(account)
<1>1. IsTransaction(tx) /\ NumSigs(tx.origin) = 0
  BY UnsignedTransaction
<1>2. IsOf(tx, account)
  BY DEF Unsigned, Condition, IsOf
<1>3. NumSigs(tx.sponsor) = 0
  <2>1. tx.sponsor.fields = <<>>
    BY DEF Unsigned, NoSponsor, SingleSig, Condition
  <2>2. SignatureFields(tx.sponsor) = {}
    BY <2>1 DEF SignatureFields
  <2> QED
    BY <2>2, FS_EmptySet DEF NumSigs
<1> HIDE DEF tx
<1> QED
  BY <1>1, <1>2, <1>3, UnsignedFaithful DEF tx

\* A condition with another fee or nonce.
LEMMA RepricedKeeps ==
    ASSUME NEW cond, IsCondition(cond), NEW v,
           NEW next, next = [cond EXCEPT !.fee = v] \/ next = [cond EXCEPT !.nonce = v]
    PROVE  /\ next.kind = cond.kind /\ next.keys = cond.keys /\ next.required = cond.required
           /\ next.fields = cond.fields
BY DEF IsCondition

\* setFee and setNonce, while nothing that covers what is set is signed.
LEMMA FeeFaithful ==
    ASSUME NEW tx, IsTransaction(tx), Faithful(tx), NEW fee \in Nat,
           \/ tx.authType = "Standard" /\ NumSigs(tx.origin) = 0
           \/ tx.authType = "Sponsored" /\ NumSigs(tx.sponsor) = 0,
           NEW next, next = SetFee(tx, fee)
    PROVE  /\ Faithful(next)
           /\ OriginHash(next) = OriginHash(tx)
           /\ next.authType = tx.authType
           /\ next.origin.kind = tx.origin.kind
<1>1. IsTransaction(next) /\ IsCondition(tx.origin) /\ IsCondition(tx.sponsor)
  BY FeeSet DEF IsTransaction
<1>2. NumSigs(tx.sponsor) \in Nat
  BY <1>1, FieldCount
<1>3. CASE tx.authType = "Standard" /\ NumSigs(tx.origin) = 0
  <2>1. /\ next.authType = tx.authType /\ next.sponsor = tx.sponsor
        /\ next.origin = [tx.origin EXCEPT !.fee = fee]
    BY <1>3 DEF SetFee, IsTransaction
  <2>2. /\ next.origin.kind = tx.origin.kind /\ next.origin.keys = tx.origin.keys
        /\ next.origin.required = tx.origin.required /\ next.origin.fields = tx.origin.fields
    BY <1>1, <2>1, RepricedKeeps
  <2>3. NumSigs(next.origin) = 0
    BY <1>3, <2>2 DEF NumSigs, SignatureFields
  <2>4. \E account \in Accounts : IsOf(tx, account)
    BY DEF Faithful
  <2>5. \E account \in Accounts : IsOf(next, account)
    BY <2>1, <2>2, <2>4, SameAccount
  <2>6. Misuses = {} => NumSigs(tx.sponsor) = 0
    BY <1>2, <1>3, SponsoredIsSigned
  <2>7. Faithful(next) /\ OriginHash(next) = SignBegin(next)
    BY <1>1, <2>1, <2>3, <2>5, <2>6, UnsignedFaithful
  <2>8. OriginHash(tx) = SignBegin(tx)
    BY <1>3, <2>4, <2>6, UnsignedFaithful
  <2>9. SignBegin(next) = SignBegin(tx)
    BY <2>1, <2>2, SameBegin
  <2> QED
    BY <2>1, <2>2, <2>7, <2>8, <2>9
<1>4. CASE tx.authType = "Sponsored" /\ NumSigs(tx.sponsor) = 0
  <2>1. /\ next.authType = tx.authType /\ next.origin = tx.origin
        /\ next.sponsor = [tx.sponsor EXCEPT !.fee = fee]
    BY <1>4 DEF SetFee, IsTransaction
  <2>2. next.sponsor.fields = tx.sponsor.fields
    BY <1>1, <2>1, RepricedKeeps
  <2>3. NumSigs(next.sponsor) = 0
    BY <1>4, <2>2 DEF NumSigs, SignatureFields
  <2>4. SignBegin(next) = SignBegin(tx)
    BY <2>1, SameBegin
  <2>5. ~(NumSigs(next.sponsor) > 0)
    BY <2>3
  <2> QED
    BY <2>1, <2>4, <2>5 DEF Faithful, IsOf, Cosigned, FieldsVerify, OriginHash
<1> QED
  BY <1>3, <1>4

LEMMA NonceFaithful ==
    ASSUME NEW tx, IsTransaction(tx), Faithful(tx), NEW nonce \in Nat, NumSigs(tx.origin) = 0,
           NEW next, next = SetNonce(tx, nonce)
    PROVE  /\ Faithful(next)
           /\ OriginHash(next) = OriginHash(tx)
           /\ next.authType = tx.authType
           /\ next.origin.kind = tx.origin.kind
<1>1. IsTransaction(next) /\ IsCondition(tx.origin) /\ IsCondition(tx.sponsor)
  BY NonceSet DEF IsTransaction
<1>2. NumSigs(tx.sponsor) \in Nat
  BY <1>1, FieldCount
<1>3. /\ next.authType = tx.authType /\ next.sponsor = tx.sponsor
      /\ next.origin = [tx.origin EXCEPT !.nonce = nonce]
  BY DEF SetNonce, IsTransaction
<1>4. /\ next.origin.kind = tx.origin.kind /\ next.origin.keys = tx.origin.keys
      /\ next.origin.required = tx.origin.required /\ next.origin.fields = tx.origin.fields
  BY <1>1, <1>3, RepricedKeeps
<1>5. NumSigs(next.origin) = 0
  BY <1>4 DEF NumSigs, SignatureFields
<1>6. \E account \in Accounts : IsOf(tx, account)
  BY DEF Faithful
<1>7. \E account \in Accounts : IsOf(next, account)
  BY <1>3, <1>4, <1>6, SameAccount
<1>8. Misuses = {} => NumSigs(tx.sponsor) = 0
  BY <1>2, SponsoredIsSigned
<1>9. Faithful(next) /\ OriginHash(next) = SignBegin(next)
  BY <1>1, <1>3, <1>5, <1>7, <1>8, UnsignedFaithful
<1>10. OriginHash(tx) = SignBegin(tx)
  BY <1>6, <1>8, UnsignedFaithful
<1>11. SignBegin(next) = SignBegin(tx)
  BY <1>3, <1>4, SameBegin
<1> QED
  BY <1>3, <1>4, <1>9, <1>10, <1>11
\* appendOrigin.
LEMMA PubkeyFaithful ==
    ASSUME NEW tx, IsTransaction(tx), Faithful(tx), tx.origin.kind = "multi", NEW key \in Keys,
           NEW next, next.authType = tx.authType, next.sponsor = tx.sponsor,
           next.origin = [tx.origin EXCEPT !.fields = Append(@, PubkeyField(key))]
    PROVE  /\ Faithful(next)
           /\ OriginHash(next) = OriginHash(tx)
<1>1. PICK field, cond, after : /\ field = PubkeyField(key)
                                /\ cond = tx.origin /\ after = next.origin
  OBVIOUS
<1>2. IsField(field) /\ field.kind = "pubkey" /\ IsCondition(cond)
  BY <1>1 DEF PubkeyField, IsField, IsTransaction
<1>3. /\ after.fields = Append(cond.fields, field)
      /\ after.fee = cond.fee /\ after.nonce = cond.nonce
      /\ after.kind = cond.kind /\ after.keys = cond.keys /\ after.required = cond.required
  BY <1>1, <1>2 DEF IsCondition
<1>4. SignBegin(next) = SignBegin(tx)
  BY <1>1, <1>3, SameBegin
<1>5. /\ VerifyFields(after, SignBegin(tx), "Standard").hash =
             VerifyFields(cond, SignBegin(tx), "Standard").hash
      /\ VerifyFields(cond, SignBegin(tx), "Standard").keys = FieldKeys(cond) =>
             VerifyFields(after, SignBegin(tx), "Standard").keys = FieldKeys(after)
  BY <1>2, <1>3, PubkeyVerified
<1>6. \E account \in Accounts : IsOf(next, account)
  BY <1>1, <1>3, SameAccount DEF Faithful
<1>7. ASSUME NEW i \in SignatureFields(after)
      PROVE  i \in SignatureFields(cond) /\ after.fields[i] = cond.fields[i]
  <2>1. PICK n, fs : n = Len(cond.fields) /\ fs = after.fields
    OBVIOUS
  <2>2. /\ DOMAIN fs = 1..(n + 1) /\ n \in Nat /\ DOMAIN cond.fields = 1..n
        /\ \A j \in 1..n : fs[j] = cond.fields[j]
        /\ fs[n + 1] = field
    BY <1>2, <1>3, <2>1, AppendedFields
  <2>3. i \in 1..(n + 1) /\ fs[i].kind = "signature"
    BY <1>7, <2>1, <2>2 DEF SignatureFields
  <2>4. i \in 1..n
    BY <1>2, <2>2, <2>3
  <2> QED
    BY <2>1, <2>2, <2>3, <2>4 DEF SignatureFields
<1>8. Cosigned(next) <=> Cosigned(tx)
  BY <1>1, <1>3 DEF Cosigned
<1>9. next.origin.kind # "single"
  BY <1>1, <1>3
<1>10. Cosigned(tx) => FieldsVerify(next)
  BY <1>1, <1>4, <1>5 DEF Faithful, FieldsVerify
<1>11. Cosigned(tx) =>
         \A i \in SignatureFields(next.origin) : next.origin.fields[i].key \notin Uncompressed
  BY <1>1, <1>7 DEF Faithful
<1>12. ~(Misuses = {} /\ NumSigs(next.sponsor) > 0)
  BY DEF Faithful
<1> QED
  BY <1>1, <1>4, <1>5, <1>6, <1>8, <1>9, <1>10, <1>11, <1>12 DEF Faithful, OriginHash

\* signOrigin of a multi-sig transaction, over the hash that verification reached.
LEMMA CosignedFaithful ==
    ASSUME NEW tx, IsTransaction(tx), Faithful(tx), tx.origin.kind = "multi",
           NEW key \in Keys, NEW hash,
           Cosigned(tx) => hash = OriginHash(tx) /\ key \notin Uncompressed,
           NEW result, result = NextSignature(hash, "Standard", tx.origin, key),
           NEW next, next.authType = tx.authType, next.sponsor = tx.sponsor,
           next.origin = AddSignature(tx.origin, result.field)
    PROVE  /\ Faithful(next)
           /\ Cosigned(next) => result.hash = OriginHash(next)
<1>1. PICK field, cond, after : /\ field = result.field
                                /\ cond = tx.origin /\ after = next.origin
  OBVIOUS
<1>2. /\ IsField(field) /\ field.kind = "signature" /\ field.key = key
      /\ IsCondition(cond) /\ cond.kind = "multi"
  BY <1>1, NewResult DEF NextSignature, SignatureField, IsTransaction
<1>3. /\ after.fields = Append(cond.fields, field)
      /\ after.fee = cond.fee /\ after.nonce = cond.nonce
      /\ after.kind = cond.kind /\ after.keys = cond.keys /\ after.required = cond.required
  <2>1. after = [cond EXCEPT !.fields = Append(@, field)]
    BY <1>1, <1>2 DEF AddSignature
  <2> QED
    BY <1>2, <2>1 DEF IsCondition
<1>4. SignBegin(next) = SignBegin(tx)
  BY <1>1, <1>3, SameBegin
<1>5. Cosigned(next) <=> Cosigned(tx)
  BY <1>1, <1>3 DEF Cosigned
<1>6. ASSUME Cosigned(tx)
      PROVE  /\ VerifyFields(after, SignBegin(tx), "Standard").hash = result.hash
             /\ VerifyFields(cond, SignBegin(tx), "Standard").keys = FieldKeys(cond) =>
                  VerifyFields(after, SignBegin(tx), "Standard").keys = FieldKeys(after)
  <2>1. PICK begin : begin = SignBegin(tx)
    OBVIOUS
  <2>2. result = NextSignature(VerifyFields(cond, begin, "Standard").hash, "Standard", cond, key)
    BY <1>1, <1>6, <2>1 DEF OriginHash
  <2>3. after.fields = Append(cond.fields, result.field)
    BY <1>1, <1>3
  <2>4. /\ VerifyFields(after, begin, "Standard").hash = result.hash
        /\ VerifyFields(cond, begin, "Standard").keys = FieldKeys(cond) =>
             VerifyFields(after, begin, "Standard").keys = FieldKeys(after)
    BY <1>2, <1>3, <2>2, <2>3, SignatureVerified
  <2> QED
    BY <2>1, <2>4
<1>7. \E account \in Accounts : IsOf(next, account)
  BY <1>1, <1>3, SameAccount DEF Faithful
<1>8. ASSUME Cosigned(tx), NEW i \in SignatureFields(after)
      PROVE  after.fields[i].key \notin Uncompressed
  <2>1. PICK n, fs : n = Len(cond.fields) /\ fs = after.fields
    OBVIOUS
  <2>2. /\ DOMAIN fs = 1..(n + 1) /\ n \in Nat /\ DOMAIN cond.fields = 1..n
        /\ \A j \in 1..n : fs[j] = cond.fields[j]
        /\ fs[n + 1] = field
    BY <1>2, <1>3, <2>1, AppendedFields
  <2>3. i \in 1..(n + 1) /\ fs[i].kind = "signature"
    BY <1>8, <2>1, <2>2 DEF SignatureFields
  <2>4. CASE i \in 1..n
    <3>1. i \in SignatureFields(cond)
      BY <2>2, <2>3, <2>4 DEF SignatureFields
    <3> QED
      BY <1>1, <1>8, <2>1, <2>2, <2>4, <3>1 DEF Faithful
  <2>5. CASE i = n + 1
    <3>1. key \notin Uncompressed
      BY <1>8
    <3> QED
      BY <1>2, <2>1, <2>2, <2>5, <3>1
  <2> QED
    BY <2>2, <2>3, <2>4, <2>5
<1>9. next.origin.kind # "single"
  BY <1>1, <1>2, <1>3
<1>10. Cosigned(tx) => FieldsVerify(next)
  BY <1>1, <1>4, <1>6 DEF Faithful, FieldsVerify
<1>11. Cosigned(tx) =>
         \A i \in SignatureFields(next.origin) : next.origin.fields[i].key \notin Uncompressed
  BY <1>1, <1>8
<1>12. ~(Misuses = {} /\ NumSigs(next.sponsor) > 0)
  BY DEF Faithful
<1>13. Cosigned(next) => result.hash = OriginHash(next)
  BY <1>1, <1>4, <1>5, <1>6 DEF OriginHash
<1> QED
  BY <1>5, <1>7, <1>9, <1>10, <1>11, <1>12, <1>13 DEF Faithful

\* signOrigin of a single-sig transaction, over the hash of the bare transaction:
\* a second signature by the account's key is the first one, to a sponsor too.
LEMMA SingleFaithful ==
    ASSUME NEW tx, IsTransaction(tx), Faithful(tx), tx.origin.kind = "single",
           NEW key \in Keys, Misuses = {} => tx.origin.keys = <<key>>,
           NEW result, result = NextSignature(SignBegin(tx), "Standard", tx.origin, key),
           NEW next, next.authType = tx.authType, next.sponsor = tx.sponsor,
           next.origin = AddSignature(tx.origin, result.field)
    PROVE  Faithful(next)
<1>1. PICK cond, after, begin : cond = tx.origin /\ after = next.origin /\ begin = SignBegin(tx)
  OBVIOUS
<1>2. IsCondition(cond) /\ cond.kind = "single" /\ cond.required = 1
  BY <1>1, AccountOf DEF IsTransaction, Faithful
<1>10. PICK pre : pre = SigHashPreSign(begin, Terms("Standard", cond))
  OBVIOUS
<1>11. /\ IsField(result.field) /\ result.field.kind = "signature"
       /\ result.field = SignatureField(key, pre) /\ result.field.over = pre
  BY <1>1, <1>10, NewResult DEF NextSignature, SignatureField
<1>14. PICK only : only = OnlyField(cond, result.field)
  OBVIOUS
<1>12. /\ after = [cond EXCEPT !.fields = <<only>>]
       /\ IsField(only) /\ only.kind = "signature" /\ only.over = pre
       /\ cond.keys = <<key>> => only = result.field
  BY <1>1, <1>2, <1>11, <1>14, SingleField, SingleFieldOwn
<1>3. /\ after.fields = <<only>>
      /\ after.fee = cond.fee /\ after.nonce = cond.nonce
      /\ after.kind = cond.kind /\ after.keys = cond.keys /\ after.required = cond.required
  BY <1>2, <1>12 DEF IsCondition
<1>4. SignBegin(next) = begin
  BY <1>1, <1>3, SameBegin
<1>5. \E account \in Accounts : IsOf(next, account)
  BY <1>1, <1>3, SameAccount DEF Faithful
<1>13. VerifyFields(after, begin, "Standard").keys = FieldKeys(after)
  <2>1. Terms("Standard", after) = Terms("Standard", cond)
    BY <1>3 DEF Terms
  <2>2. after.fields = <<only>> /\ IsField(only) /\ only.kind = "signature"
    BY <1>3, <1>12
  <2>4. VerifyFields(after, begin, "Standard").keys =
          <<IF only.over = SigHashPreSign(begin, Terms("Standard", after))
            THEN only.key ELSE NoKey>>
    BY ONLY <2>2, OnlyFieldVerified
  <2>3. VerifyFields(after, begin, "Standard").keys = <<only.key>>
    BY <1>10, <1>12, <2>1, <2>4
  <2> QED
    BY <1>3, <2>3 DEF FieldKeys, KeysIn
<1>6. cond.keys = <<key>> =>
        /\ VerifyFields(after, begin, "Standard").keys = <<key>>
        /\ VerifyFields(after, begin, "Standard").hash = result.hash
        /\ NumSigs(after) = 1
  BY <1>1, <1>3, <1>12, SingleSigned
<1>7. FieldsVerify(next)
  BY <1>1, <1>4, <1>13 DEF FieldsVerify
<1>8. ~Cosigned(next)
  BY <1>1, <1>2, <1>3 DEF Cosigned
<1>9. ASSUME Misuses = {}, NumSigs(next.sponsor) > 0
      PROVE  /\ VerifiesOrigin(next)
             /\ Verifies(next.sponsor, OriginHash(next), "Sponsored")
  <2>1. VerifiesOrigin(tx) /\ Verifies(tx.sponsor, OriginHash(tx), "Sponsored")
    BY <1>9 DEF Faithful
  <2>2. cond.keys = <<key>> /\ Verifies(cond, begin, "Standard")
    BY <1>1, <1>9, <2>1 DEF VerifiesOrigin
  <2>3. VerifyFields(cond, begin, "Standard").hash =
          NextSignature(begin, "Standard", cond, key).hash
    BY <1>2, <2>2, SingleVerified
  <2>4. OriginHash(next) = OriginHash(tx)
    BY <1>1, <1>4, <1>6, <2>2, <2>3 DEF OriginHash
  <2>5. VerifiesOrigin(next)
    BY <1>1, <1>2, <1>3, <1>4, <1>6, <2>2 DEF VerifiesOrigin, Verifies
  <2> QED
    BY <2>1, <2>4, <2>5
<1> QED
  BY <1>1, <1>2, <1>3, <1>5, <1>7, <1>8, <1>9 DEF Faithful

\* serialize and deserialize: no hash covers a key that did not sign.
LEMMA DeserializedFaithful ==
    ASSUME NEW tx, IsTransaction(tx), Faithful(tx)
    PROVE  Faithful(Deserialized(tx))
<1>1. PICK next : next = Deserialized(tx)
  OBVIOUS
<1>2. /\ next.authType = tx.authType /\ next.sponsor = tx.sponsor
      /\ next.origin.kind = tx.origin.kind /\ next.origin.keys = tx.origin.keys
      /\ next.origin.required = tx.origin.required
      /\ NumSigs(next.origin) = NumSigs(tx.origin)
      /\ SignatureFields(next.origin) = SignatureFields(tx.origin)
      /\ \A i \in SignatureFields(tx.origin) : next.origin.fields[i] = tx.origin.fields[i]
      /\ \A hash :
           /\ VerifyFields(next.origin, hash, "Standard").hash =
                  VerifyFields(tx.origin, hash, "Standard").hash
           /\ VerifyFields(tx.origin, hash, "Standard").keys = FieldKeys(tx.origin) =>
                  VerifyFields(next.origin, hash, "Standard").keys = FieldKeys(next.origin)
  <2>1. ASSUME NEW hash
        PROVE  /\ VerifyFields(next.origin, hash, "Standard").hash =
                      VerifyFields(tx.origin, hash, "Standard").hash
               /\ VerifyFields(tx.origin, hash, "Standard").keys = FieldKeys(tx.origin) =>
                      VerifyFields(next.origin, hash, "Standard").keys = FieldKeys(next.origin)
    BY <1>1, DeserializedVerified
  <2> QED
    BY <1>1, <2>1, DeserializedTransaction
<1>3. SignBegin(next) = SignBegin(tx)
  BY <1>2, SameBegin
<1>4. \E account \in Accounts : IsOf(next, account)
  BY <1>2, SameAccount DEF Faithful
<1>5. Cosigned(next) <=> Cosigned(tx)
  BY <1>2 DEF Cosigned
<1>6. FieldsVerify(tx) => FieldsVerify(next)
  BY <1>2, <1>3 DEF FieldsVerify
<1>7. ASSUME tx.origin.kind = "single", VerifiesOrigin(tx)
      PROVE  OriginHash(next) = OriginHash(tx) /\ VerifiesOrigin(next)
  <2>1. NumSigs(tx.origin) = 1 /\ IsCondition(tx.origin)
    BY <1>7, AccountOf DEF VerifiesOrigin, Verifies, IsTransaction, Faithful
  <2>2. \A hash : VerifyFields(next.origin, hash, "Standard") =
                     VerifyFields(tx.origin, hash, "Standard")
    BY <1>1, <1>7, <2>1, DeserializedSingle
  <2> QED
    BY <1>2, <1>3, <1>7, <2>2 DEF OriginHash, VerifiesOrigin, Verifies
<1> QED
  BY <1>1, <1>2, <1>4, <1>5, <1>6, <1>7 DEF Faithful

\* sponsorTransaction.
LEMMA SponsoredFaithful ==
    ASSUME NEW tx, IsTransaction(tx), Faithful(tx), CanSponsor(tx),
           NEW key \in Keys, NEW fee \in Nat, NEW nonce \in Nat
    PROVE  Faithful(Sponsored(tx, key, fee, nonce))
<1>1. PICK next : next = Sponsored(tx, key, fee, nonce)
  OBVIOUS
<1>2. /\ next.authType = tx.authType /\ next.origin = tx.origin
      /\ OriginHash(next) = OriginHash(tx)
      /\ VerifiesOrigin(next)
      /\ Verifies(next.sponsor, OriginHash(next), "Sponsored")
  BY <1>1, SponsoredTransaction, SponsorVerifies DEF CanSponsor
<1>3. tx.origin.kind = "single"
  <2>1. NumSigs(tx.origin) = tx.origin.required /\ ~Oversigned(tx.origin)
    BY DEF CanSponsor, CanConstruct, VerifiesOrigin, Verifies
  <2>2. tx.origin.required \in Nat /\ tx.origin.kind \in Kinds
    BY AccountOf DEF Faithful
  <2> QED
    BY <2>1, <2>2 DEF Oversigned, Kinds
<1>4. SignBegin(next) = SignBegin(tx)
  BY <1>2, SameBegin
<1>5. \E account \in Accounts : IsOf(next, account)
  BY <1>2, SameAccount DEF Faithful
<1>6. FieldsVerify(next) /\ ~Cosigned(next)
  BY <1>2, <1>3, <1>4 DEF Faithful, FieldsVerify, Cosigned
<1>7. Faithful(next)
  BY <1>2, <1>3, <1>5, <1>6 DEF Faithful
<1> QED
  BY <1>1, <1>7

-----------------------------------------------------------------------------
(* The invariant, and what follows from it.                                   *)

LEMMA HandedOutFaithful ==
    ASSUME CosigningInv, NEW tx, Faithful(tx), HandOut(tx), UNCHANGED signers
    PROVE  CosigningInv'
BY DEF CosigningInv, HandOut

LEMMA SignerSetInStep ==
    ASSUME TypeOK, CosigningInv, NEW p \in Parties, NEW signer, InStep(signer),
           SetSigner(p, signer), UNCHANGED circulating
    PROVE  CosigningInv'
<1>1. /\ signers'[p] = signer
      /\ \A q \in Parties : q # p => signers'[q] = signers[q]
  BY DEF TypeOK, SetSigner
<1> QED
  BY <1>1 DEF CosigningInv

\* The hash a new signer reconstructs.
LEMMA Reconstructed ==
    ASSUME NEW tx, IsTransaction(tx), Faithful(tx), Cosigned(tx)
    PROVE  ReconstructSigHash(tx) = OriginHash(tx)
<1>1. PICK cond, hash : cond = tx.origin /\ hash = SignBegin(tx)
  OBVIOUS
<1>2. /\ IsCondition(cond)
      /\ \A i \in SignatureFields(cond) : cond.fields[i].key \notin Uncompressed
      /\ cond.kind = "multi" /\ tx.authType = "Standard"
  BY <1>1 DEF IsTransaction, Faithful, Cosigned
<1>3. Replay!Fold(Terms("Standard", cond), hash, cond.fields) =
          VerifyFields(cond, hash, "Standard").hash
  BY <1>2, ReplayAgrees
<1> QED
  BY <1>1, <1>2, <1>3 DEF ReconstructSigHash, OriginHash

\* A signer with nothing under way.
LEMMA IdleInStep ==
    ASSUME NEW signer, Faithful(signer.tx), signer.signing = {},
           Cosigned(signer.tx) => signer.sigHash = OriginHash(signer.tx)
    PROVE  InStep(signer)
BY DEF InStep

LEMMA InitCosigning == Init => CosigningInv
BY AccountFaithful DEF Init, CosigningInv

LEMMA StepCosigning ==
    ASSUME Misuses \subseteq {"anyKey"}, TypeOK, SigningInv, CosigningInv, [Next]_vars
    PROVE  CosigningInv'
<1>1. ASSUME NEW p \in Parties, PartySteps(p) PROVE CosigningInv'
  <2> DEFINE signer == signers[p]
  <2>1. signer # NoSigner =>
            IsSigner(signer) /\ IsTransaction(signer.tx) /\ IsCondition(signer.tx.origin)
    BY DEF TypeOK, IsSigner, IsTransaction
  <2>2. signer # NoSigner => Reserved(signer) /\ InStep(signer) /\ Faithful(signer.tx)
    BY DEF SigningInv, CosigningInv, InStep
  <2>3. signer # NoSigner =>
            NumSigs(signer.tx.origin) \in Nat /\ NumSigs(signer.tx.sponsor) \in Nat
    BY <2>1, FieldCount DEF IsTransaction
  <2>4. ASSUME NEW tx \in circulating, Construct(p, tx) PROVE CosigningInv'
    <3> DEFINE next == Signer(tx, ReconstructSigHash(tx))
    <3>1. IsTransaction(tx) /\ Faithful(tx)
      BY DEF TypeOK, CosigningInv
    <3>2. next.tx = tx /\ next.signing = {} /\ next.sigHash = ReconstructSigHash(tx)
      BY DEF Signer
    <3>3. Cosigned(tx) => next.sigHash = OriginHash(tx)
      BY <3>1, <3>2, Reconstructed
    <3> HIDE DEF next
    <3>4. InStep(next)
      BY <3>1, <3>2, <3>3, IdleInStep
    <3> QED
      BY <2>4, <3>4, SignerSetInStep DEF Construct, next
  <2>5. ASSUME NEW tx \in circulating, Resume(p, tx) PROVE CosigningInv'
    <3> DEFINE next == [signer EXCEPT !.tx = tx, !.sigHash = SignBegin(tx)]
    <3>1. IsTransaction(tx) /\ Faithful(tx)
      BY DEF TypeOK, CosigningInv
    <3>2. /\ next.tx = tx /\ next.signing = {} /\ next.sigHash = SignBegin(tx)
      BY <2>1, <2>5 DEF Resume, IsSigner
    <3>3. NumSigs(tx.origin) = 0
      BY <2>5, <3>1, FieldCount DEF Resume, IsTransaction
    <3>4. VerifyFields(tx.origin, SignBegin(tx), "Standard").hash = SignBegin(tx)
      BY <3>1, <3>3, UnsignedVerified DEF IsTransaction
    <3> HIDE DEF next
    <3>5. InStep(next)
      BY <3>1, <3>2, <3>4, IdleInStep DEF OriginHash
    <3> QED
      BY <2>5, <3>5, SignerSetInStep DEF Resume, next
  <2>6. ASSUME NEW key \in KeysOf[p], SignOrigin(p, key) PROVE CosigningInv'
    <3> DEFINE result == NextSignature(signer.sigHash, "Standard", signer.tx.origin, key)
               next == [signer EXCEPT !.signing = @ \cup {result}]
    <3>1. /\ signer # NoSigner /\ signer.signing = {}
          /\ signer.tx.origin.kind = "single" => signer.sigHash = SignBegin(signer.tx)
          /\ IsNext(signer, key) \/ Misuses # {}
          /\ SetSigner(p, next) /\ UNCHANGED circulating
      BY <2>6 DEF SignOrigin
    <3>2. /\ next.tx = signer.tx /\ next.sigHash = signer.sigHash
          /\ next.signing = {result}
      <4> HIDE DEF result
      <4> QED
        BY <2>1, <3>1 DEF IsSigner
    <3>3. Misuses = {} /\ signer.tx.origin.kind = "single" => signer.tx.origin.keys = <<key>>
      <4> SUFFICES ASSUME Misuses = {}, signer.tx.origin.kind = "single"
                   PROVE  signer.tx.origin.keys = <<key>>
        OBVIOUS
      <4>1. key = signer.tx.origin.keys[1]
        BY <3>1 DEF IsNext
      <4>2. signer.tx.origin.keys \in Seq(Keys) /\ Len(signer.tx.origin.keys) = 1
        BY <2>2, <3>1, AccountOf DEF Faithful
      <4> QED
        BY <4>1, <4>2
    <3>4. UnderWay(next, result)
      <4> HIDE DEF next
      <4> QED
        BY <3>2, <3>3 DEF UnderWay
    <3>5. InStep(next)
      <4> HIDE DEF next, result
      <4> QED
        BY <2>2, <3>1, <3>2, <3>4 DEF InStep
    <3> QED
      BY <3>1, <3>5, SignerSetInStep
  <2>7. ASSUME signer # NoSigner, NEW result \in signer.signing, SignOriginEnds(p, result)
        PROVE  CosigningInv'
    <3>1. PICK next, tx : next = AfterSigning(signer, result) /\ tx = signer.tx
      OBVIOUS
    <3>2. /\ next.tx = [tx EXCEPT !.origin = AddSignature(@, result.field)]
          /\ next.sigHash = result.hash
          /\ next.signing = signer.signing \ {result}
      BY <2>1, <2>7, <3>1 DEF IsSigner, AfterSigning
    <3>3. IsTransaction(tx) /\ Faithful(tx) /\ next.signing = {}
      BY <2>1, <2>2, <2>7, <3>1, <3>2 DEF Reserved
    <3>4. /\ next.tx.authType = tx.authType /\ next.tx.sponsor = tx.sponsor
          /\ next.tx.origin = AddSignature(tx.origin, result.field)
      BY <3>2, <3>3 DEF IsTransaction
    <3>5. PICK q \in Parties : \E key \in KeysOf[q] :
            /\ result = NextSignature(signer.sigHash, "Standard", tx.origin, key)
            /\ Misuses = {} /\ tx.origin.kind = "single" => tx.origin.keys = <<key>>
      BY <2>2, <2>7, <3>1 DEF InStep, UnderWay
    <3>6. PICK key \in KeysOf[q] :
            /\ result = NextSignature(signer.sigHash, "Standard", tx.origin, key)
            /\ Misuses = {} /\ tx.origin.kind = "single" => tx.origin.keys = <<key>>
      BY <3>5
    <3>7. key \in Keys
      BY SignerAssumption
    <3>8. Faithful(next.tx) /\ (Cosigned(next.tx) => next.sigHash = OriginHash(next.tx))
      <4>1. CASE tx.origin.kind = "multi"
        <5>1. /\ Cosigned(tx) => signer.sigHash = OriginHash(tx)
              /\ Cosigned(tx) => key \notin Uncompressed
          BY <2>2, <2>7, <3>1 DEF InStep, Cosigned, CosignersCompressed, Faithful, IsOf
        <5>2. PICK hash, after : hash = signer.sigHash /\ after = next.tx
          OBVIOUS
        <5>3. /\ Cosigned(tx) => hash = OriginHash(tx) /\ key \notin Uncompressed
              /\ result = NextSignature(hash, "Standard", tx.origin, key)
              /\ after.authType = tx.authType /\ after.sponsor = tx.sponsor
              /\ after.origin = AddSignature(tx.origin, result.field)
          BY <3>4, <3>6, <5>1, <5>2
        <5>4. Faithful(after) /\ (Cosigned(after) => result.hash = OriginHash(after))
          BY ONLY <3>3, <3>7, <4>1, <5>3, CosignedFaithful
        <5> QED
          BY <3>2, <5>2, <5>4
      <4>2. CASE tx.origin.kind = "single"
        <5>1. signer.sigHash = SignBegin(tx)
          BY <2>2, <2>7, <3>1, <4>2 DEF InStep
        <5>2. Faithful(next.tx)
          BY <3>3, <3>4, <3>6, <3>7, <4>2, <5>1, SingleFaithful
        <5>3. next.tx.origin.kind = tx.origin.kind
          BY <3>3, <3>4, <4>2 DEF AddSignature, IsTransaction, IsCondition
        <5> QED
          BY <4>2, <5>2, <5>3 DEF Cosigned
      <4> QED
        BY <3>3, <4>1, <4>2 DEF IsTransaction, IsCondition, Kinds
    <3>9. InStep(next)
      BY <3>3, <3>8, IdleInStep
    <3>10. SetSigner(p, next) /\ UNCHANGED circulating
      BY <2>7, <3>1 DEF SignOriginEnds, AfterSigning
    <3> QED
      BY <3>9, <3>10, SignerSetInStep
  <2>8. ASSUME NEW key \in Keys, AppendOrigin(p, key) PROVE CosigningInv'
    <3>1. PICK next, tx : next = AfterAppending(signer, key) /\ tx = signer.tx
      OBVIOUS
    <3>2. signer # NoSigner /\ tx.origin.kind = "multi"
      BY <2>8, <3>1 DEF AppendOrigin
    <3>3. PICK cond : cond = [tx.origin EXCEPT !.fields = Append(@, PubkeyField(key))]
      OBVIOUS
    <3>4. /\ next.tx = [tx EXCEPT !.origin = cond]
          /\ next.sigHash = signer.sigHash
          /\ next.signing = signer.signing
      BY <2>1, <3>1, <3>2, <3>3 DEF IsSigner, AfterAppending
    <3>5. IsTransaction(tx) /\ Faithful(tx)
      BY <2>1, <2>2, <3>1, <3>2
    <3>6. /\ next.tx.authType = tx.authType /\ next.tx.sponsor = tx.sponsor
          /\ next.tx.origin = [tx.origin EXCEPT !.fields = Append(@, PubkeyField(key))]
      BY <3>3, <3>4, <3>5 DEF IsTransaction
    <3>7. Faithful(next.tx) /\ OriginHash(next.tx) = OriginHash(tx)
      BY <3>2, <3>5, <3>6, PubkeyFaithful
    <3>8. /\ next.tx.origin.kind = "multi"
          /\ next.tx.origin.fee = tx.origin.fee /\ next.tx.origin.nonce = tx.origin.nonce
      BY <3>2, <3>5, <3>6 DEF IsTransaction, IsCondition
    <3>9. Cosigned(next.tx) <=> Cosigned(tx)
      BY <3>2, <3>6, <3>8 DEF Cosigned
    <3>10. ASSUME NEW result \in next.signing PROVE UnderWay(next, result)
      <4>1. UnderWay(signer, result)
        BY <2>2, <3>1, <3>2, <3>4 DEF InStep
      <4>2. \A k : NextSignature(next.sigHash, "Standard", next.tx.origin, k) =
                       NextSignature(signer.sigHash, "Standard", tx.origin, k)
        BY <3>4, <3>8 DEF NextSignature, Terms
      <4> QED
        BY <3>1, <3>8, <4>1, <4>2 DEF UnderWay
    <3>11. InStep(next)
      BY <2>2, <3>1, <3>2, <3>4, <3>7, <3>8, <3>9, <3>10 DEF InStep
    <3>12. SetSigner(p, next) /\ UNCHANGED circulating
      BY <2>8, <3>1 DEF AppendOrigin, AfterAppending
    <3> QED
      BY <3>11, <3>12, SignerSetInStep
  <2>9. ASSUME NEW fee \in Fees, ChangeFee(p, fee) PROVE CosigningInv'
    <3> DEFINE tx == SetFee(signer.tx, fee)
               next == [signer EXCEPT !.tx = tx]
    <3>1. /\ signer # NoSigner /\ fee \in Nat /\ signer.signing = {}
          /\ \/ signer.tx.authType = "Standard" /\ NumSigs(signer.tx.origin) = 0
             \/ signer.tx.authType = "Sponsored" /\ NumSigs(signer.tx.sponsor) = 0
      BY <2>9, SignerAssumption DEF ChangeFee
    <3>2. /\ Faithful(tx) /\ OriginHash(tx) = OriginHash(signer.tx)
          /\ tx.authType = signer.tx.authType /\ tx.origin.kind = signer.tx.origin.kind
      <4> HIDE DEF tx, signer
      <4> QED
        BY <2>1, <2>2, <3>1, FeeFaithful DEF tx
    <3>3. next.tx = tx /\ next.signing = {} /\ next.sigHash = signer.sigHash
      <4> HIDE DEF tx
      <4> QED
        BY <2>1, <3>1 DEF IsSigner
    <3>4. InStep(next)
      <4> HIDE DEF tx, next
      <4> QED
        BY <2>2, <3>1, <3>2, <3>3, IdleInStep DEF Cosigned, InStep
    <3> QED
      BY <2>9, <3>4, SignerSetInStep DEF ChangeFee
  <2>10. ASSUME NEW nonce \in Nonces, ChangeNonce(p, nonce) PROVE CosigningInv'
    <3> DEFINE tx == SetNonce(signer.tx, nonce)
               next == [signer EXCEPT !.tx = tx]
    <3>1. signer # NoSigner /\ nonce \in Nat /\ signer.signing = {}
      BY <2>10, SignerAssumption DEF ChangeNonce
    <3>2. NumSigs(signer.tx.origin) = 0
      BY <2>3, <2>10, <3>1 DEF ChangeNonce
    <3>3. /\ Faithful(tx) /\ OriginHash(tx) = OriginHash(signer.tx)
          /\ tx.authType = signer.tx.authType /\ tx.origin.kind = signer.tx.origin.kind
      <4> HIDE DEF tx, signer
      <4> QED
        BY <2>1, <2>2, <3>1, <3>2, NonceFaithful DEF tx
    <3>4. next.tx = tx /\ next.signing = {} /\ next.sigHash = signer.sigHash
      <4> HIDE DEF tx
      <4> QED
        BY <2>1, <3>1 DEF IsSigner
    <3>5. InStep(next)
      <4> HIDE DEF tx, next
      <4> QED
        BY <2>2, <3>1, <3>3, <3>4, IdleInStep DEF Cosigned, InStep
    <3> QED
      BY <2>10, <3>5, SignerSetInStep DEF ChangeNonce
  <2>11. CASE HandOn(p)
    <3>1. Faithful(signer.tx) /\ Faithful(Deserialized(signer.tx))
      <4>1. IsTransaction(signer.tx) /\ Faithful(signer.tx)
        BY <2>1, <2>2, <2>11 DEF HandOn
      <4> QED
        BY <4>1, DeserializedFaithful
    <3>2. PICK copy : Faithful(copy) /\ HandOut(copy) /\ UNCHANGED signers
      BY <2>11, <3>1 DEF HandOn
    <3> QED
      BY <3>2, HandedOutFaithful
  <2> QED
    BY <1>1, <2>4, <2>5, <2>6, <2>7, <2>8, <2>9, <2>10, <2>11 DEF PartySteps
<1>2. ASSUME NEW tx \in circulating, NEW key \in SponsorKeys, NEW fee \in Fees,
             NEW nonce \in Nonces, SponsorTransaction(tx, key, fee, nonce)
      PROVE  CosigningInv'
  <2>1. /\ key \in Keys /\ fee \in Nat /\ nonce \in Nat
        /\ IsTransaction(tx) /\ Faithful(tx) /\ CanSponsor(tx)
    BY <1>2, SignerAssumption DEF TypeOK, CosigningInv, SponsorTransaction
  <2>2. Faithful(Sponsored(tx, key, fee, nonce))
    BY <2>1, SponsoredFaithful
  <2> QED
    BY <1>2, <2>2, HandedOutFaithful DEF SponsorTransaction
<1>3. CASE UNCHANGED vars
  BY <1>3 DEF vars, CosigningInv
<1> QED
  BY <1>1, <1>2, <1>3 DEF Next

LEMMA CosigningInvariant ==
    ASSUME Misuses \subseteq {"anyKey"}
    PROVE  Spec => [](TypeOK /\ CosigningInv)
<1>1. Init => TypeOK /\ SigningInv /\ CosigningInv
  BY InitType, InitSigning, InitCosigning
<1>2. TypeOK /\ SigningInv /\ CosigningInv /\ [Next]_vars
        => TypeOK' /\ SigningInv' /\ CosigningInv'
  <2>1. "concurrent" \notin Misuses
    OBVIOUS
  <2> QED
    BY <2>1, StepType, StepSigning, StepCosigning
<1> QED
  BY <1>1, <1>2, PTL DEF Spec

\* A signer of a standard multi-sig transaction always signs over the hash that
\* verification will reach: a new one because it replays the signatures, an old
\* one because its signOrigin moves the hash on, whatever was appended meanwhile.
\* The keys that sign are compressed ones, as the constructor takes them to be.
THEOREM SignersAreInStep ==
    ASSUME Misuses \subseteq {"anyKey"}, CosignersCompressed
    PROVE  Spec => []SigHashIsReconstructed
<1>1. TypeOK /\ CosigningInv => SigHashIsReconstructed
  BY DEF CosigningInv, InStep, Cosigned, SigHashIsReconstructed
<1> QED
  BY <1>1, CosigningInvariant, PTL

\* Whichever parties signed, on whatever copies and in whatever order, and even if
\* they added keys that are not theirs to add, uncompressed ones too, which a
\* copy that was serialized has compressed: a standard or single-sig transaction
\* whose fields come to be those of its account verifies.
THEOREM CompleteTransactionsVerify ==
    ASSUME Misuses \subseteq {"anyKey"}, CosignersCompressed
    PROVE  Spec => []CompleteVerifies
<1>1. TypeOK /\ CosigningInv => CompleteVerifies
  <2> SUFFICES ASSUME TypeOK, CosigningInv, NEW tx \in circulating,
                      tx.authType = "Standard" \/ tx.origin.kind = "single",
                      Complete(tx.origin)
               PROVE  VerifiesOrigin(tx)
    BY DEF CompleteVerifies
  <2>1. Faithful(tx) /\ tx.origin.kind \in Kinds
    BY DEF TypeOK, CosigningInv, IsTransaction, IsCondition
  <2>2. FieldsVerify(tx)
    BY <2>1 DEF Faithful, Cosigned, Kinds
  <2>3. FieldKeys(tx.origin) = tx.origin.keys /\ NumSigs(tx.origin) = tx.origin.required
    BY DEF Complete, FieldKeys, KeysIn
  <2> QED
    BY <2>2, <2>3 DEF FieldsVerify, VerifiesOrigin, Verifies
<1> QED
  BY <1>1, CosigningInvariant, PTL

\* A transaction that a sponsor signed verifies in whole from then on, whatever
\* the origin's party still does to it and however often it is sponsored again.
THEOREM SponsoredTransactionsVerify ==
    ASSUME Misuses = {}
    PROVE  Spec => []SponsoredVerifies
<1>1. TypeOK /\ CosigningInv => SponsoredVerifies
  BY DEF CosigningInv, Faithful, SponsoredVerifies
<1>2. Misuses \subseteq {"anyKey"}
  OBVIOUS
<1> QED
  BY <1>1, <1>2, CosigningInvariant, PTL
=============================================================================
