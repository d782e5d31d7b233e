-------------------------- MODULE TransactionSigner --------------------------
(***************************************************************************)
(* Co-signing: the parties that hold the keys of an account hand copies of   *)
(* a transaction round (serialize and deserialize), each signs with a        *)
(* TransactionSigner of its own (packages/core/src/transactions/signer.ts),  *)
(* and a sponsor takes a signed one (builders/sponsor-transaction.ts).       *)
(* Copies may be lost, duplicated and taken in any order: a party works on   *)
(* any transaction handed on so far, and may start anew at any time.         *)
(***************************************************************************)
EXTENDS TransactionAuth

CONSTANTS
    Parties,
    KeysOf,         \* the keys each party signs with
    Accounts,       \* the accounts that may pay, and in which type of transaction
    SponsorKeys,
    Fees,
    Nonces,
    Misuses,        \* what the parties do although no check prevents it
    NoSigner,
    MaxFields,      \* bound: fields of a condition
    MaxCirculating  \* bound: transactions handed on, for each kind of account

ASSUME SignerAssumption ==
    /\ KeysOf \in [Parties -> SUBSET Keys]
    /\ \A account \in Accounts :
         /\ account.kind \in Kinds
         /\ account.keys \in Seq(Keys)
         /\ account.required \in 1..Len(account.keys)
         /\ account.kind = "single" => Len(account.keys) = 1
         /\ account.authType \in AuthTypes
    /\ SponsorKeys \subseteq Keys
    /\ Fees \subseteq Nat /\ Nonces \subseteq Nat /\ 0 \in Fees /\ 0 \in Nonces
    \* concurrent: signOrigin is called before the last call settled;
    \* resumeSigned: resume is given a transaction with signatures;
    \* signAgain: a single-sig origin is signed twice by one signer;
    \* changeSigned: a fee or nonce a signature covers is changed;
    \* anyKey: a field is added that is not the account's next one.
    /\ Misuses \subseteq {"concurrent", "resumeSigned", "signAgain", "changeSigned", "anyKey"}
    /\ MaxFields \in Nat
    /\ MaxCirculating \in [Kinds -> Nat]

VARIABLES
    circulating,    \* the transactions handed on so far
    signers         \* each party's TransactionSigner

vars == <<circulating, signers>>

\* signing holds the results of the signOrigin calls that await signWithKey.
Signer(tx, sigHash) == [tx |-> tx, sigHash |-> sigHash, signing |-> {}]

Unsigned(account) ==
    [authType |-> account.authType,
     origin |-> Condition(account.kind, account.keys, account.required, 0, 0),
     sponsor |-> NoSponsor]

Init ==
    /\ \E account \in Accounts : circulating = {Unsigned(account)}
    /\ signers = [p \in Parties |-> NoSigner]

-----------------------------------------------------------------------------
HandOut(tx) ==
    /\ tx \in circulating \/ Cardinality(circulating) < MaxCirculating[tx.origin.kind]
    /\ circulating' = circulating \cup {tx}

SetSigner(p, signer) == signers' = [signers EXCEPT ![p] = signer]

\* new TransactionSigner(deserializeTransaction(...))
Construct(p, tx) ==
    /\ CanConstruct(tx)
    /\ SetSigner(p, Signer(tx, ReconstructSigHash(tx)))
    /\ UNCHANGED circulating

\* resume: the sigHash of the bare transaction.  (No call is in flight then, or
\* when a fee or nonce changes.)
Resume(p, tx) ==
    /\ signers[p] # NoSigner
    /\ signers[p].signing = {}
    /\ NumSigs(tx.origin) > 0 => "resumeSigned" \in Misuses
    /\ SetSigner(p, [signers[p] EXCEPT !.tx = tx, !.sigHash = SignBegin(tx)])
    /\ UNCHANGED circulating

FieldsToBe(signer) == Len(signer.tx.origin.fields) + Cardinality(signer.signing)

HasRoom(signer) == FieldsToBe(signer) < MaxFields

\* key is the account's key for the next field.
IsNext(signer, key) ==
    LET cond == signer.tx.origin
        next == IF cond.kind = "single" THEN 1 ELSE FieldsToBe(signer) + 1
    IN  next <= Len(cond.keys) /\ key = cond.keys[next]

\* signOrigin up to its await.
SignOrigin(p, key) ==
    /\ signers[p] # NoSigner
    /\ LET signer == signers[p]
           next == NextSignature(signer.sigHash, "Standard", signer.tx.origin, key)
       IN  /\ signer.signing # {} => "concurrent" \in Misuses
           /\ signer.tx.origin.kind = "single" /\ signer.sigHash # SignBegin(signer.tx)
              => "signAgain" \in Misuses
           /\ IsNext(signer, key) \/ "anyKey" \in Misuses
           /\ ~Oversigned(signer.tx.origin)
           /\ HasRoom(signer)
           /\ SetSigner(p, [signer EXCEPT !.signing = @ \cup {next}])
    /\ UNCHANGED circulating

\* A signOrigin that forgets to move the sigHash on.
SignOriginEndsStale(p, result) ==
    /\ SetSigner(p, [signers[p] EXCEPT
                       !.tx.origin = AddSignature(@, result.field),
                       !.signing = @ \ {result}])
    /\ UNCHANGED circulating

\* signWithKey resolves: the signature is added, and the sigHash moves on.
SignOriginEnds(p, result) ==
    /\ SetSigner(p, [signers[p] EXCEPT
                       !.tx.origin = AddSignature(@, result.field),
                       !.sigHash = result.hash,
                       !.signing = @ \ {result}])
    /\ UNCHANGED circulating

AppendOrigin(p, key) ==
    /\ signers[p] # NoSigner
    /\ signers[p].tx.origin.kind = "multi"
    /\ HasRoom(signers[p])
    /\ IsNext(signers[p], key) \/ "anyKey" \in Misuses
    /\ SetSigner(p, [signers[p] EXCEPT !.tx.origin.fields = Append(@, PubkeyField(key))])
    /\ UNCHANGED circulating

\* setFee and setNonce on the transaction of a party's signer.
ChangeFee(p, fee) ==
    /\ signers[p] # NoSigner
    /\ LET tx == signers[p].tx
       IN  /\ signers[p].signing = {}
           /\ \/ tx.authType = "Standard" /\ NumSigs(tx.origin) = 0
              \/ tx.authType = "Sponsored" /\ NumSigs(tx.sponsor) = 0
              \/ "changeSigned" \in Misuses
    /\ SetSigner(p, [signers[p] EXCEPT !.tx = SetFee(@, fee)])
    /\ UNCHANGED circulating

ChangeNonce(p, nonce) ==
    /\ signers[p] # NoSigner
    /\ signers[p].signing = {}
    /\ NumSigs(signers[p].tx.origin) > 0 => "changeSigned" \in Misuses
    /\ SetSigner(p, [signers[p] EXCEPT !.tx = SetNonce(@, nonce)])
    /\ UNCHANGED circulating

\* getTxInComplete, or serialize and deserialize.
HandOn(p) ==
    /\ signers[p] # NoSigner
    /\ \E copy \in {signers[p].tx, Deserialized(signers[p].tx)} : HandOut(copy)
    /\ UNCHANGED signers

-----------------------------------------------------------------------------
(* sponsorTransaction: setSponsor, createSponsorSigner (which sets the       *)
(* sponsor again, verifies the origin and constructs a signer) and           *)
(* signSponsor.                                                             *)

SponsorTransaction(tx, key, fee, nonce) ==
    /\ CanSponsor(tx)
    /\ HandOut(Sponsored(tx, key, fee, nonce))
    /\ UNCHANGED signers

-----------------------------------------------------------------------------
PartySteps(p) ==
    \/ \E tx \in circulating : Construct(p, tx) \/ Resume(p, tx)
    \/ \E key \in KeysOf[p] : SignOrigin(p, key)
    \/ /\ signers[p] # NoSigner
       /\ \E result \in signers[p].signing : SignOriginEnds(p, result)
    \/ \E key \in Keys : AppendOrigin(p, key)
    \/ \E fee \in Fees : ChangeFee(p, fee)
    \/ \E nonce \in Nonces : ChangeNonce(p, nonce)
    \/ HandOn(p)

Next ==
    \/ \E p \in Parties : PartySteps(p)
    \/ \E tx \in circulating, key \in SponsorKeys, fee \in Fees, nonce \in Nonces :
         SponsorTransaction(tx, key, fee, nonce)

Spec == Init /\ [][Next]_vars

-----------------------------------------------------------------------------
(* Properties.                                                              *)

IsSigner(signer) ==
    /\ DOMAIN signer = {"tx", "sigHash", "signing"}
    /\ IsTransaction(signer.tx)
    /\ \A result \in signer.signing :
         IsField(result.field) /\ result.field.kind = "signature"

TypeOK ==
    /\ \A tx \in circulating : IsTransaction(tx)
    /\ DOMAIN signers = Parties
    /\ \A p \in Parties : signers[p] # NoSigner => IsSigner(signers[p])

\* checkOversign: however many parties sign however many copies, no transaction
\* comes to have more signatures than its account requires (as long as each
\* signOrigin call settles before the next).
NeverOversigned ==
    /\ \A tx \in circulating :
         tx.origin.kind = "multi" => NumSigs(tx.origin) <= tx.origin.required
    /\ \A p \in Parties :
         signers[p] # NoSigner /\ signers[p].tx.origin.kind = "multi" =>
             NumSigs(signers[p].tx.origin) <= signers[p].tx.origin.required

\* The fields are those of the account's keys in order, enough of them signatures.
Complete(cond) ==
    /\ [i \in DOMAIN cond.fields |-> cond.fields[i].key] = cond.keys
    /\ NumSigs(cond) = cond.required

\* A transaction that came to have, through whatever parties, copies and
\* signers, a field for each key of its account in order and the required
\* number of signatures verifies.  (Not for a sponsored multi-sig transaction:
\* the constructor replays its signatures with the wrong auth type.)
CompleteVerifies ==
    \A tx \in circulating :
        /\ tx.authType = "Standard" \/ tx.origin.kind = "single"
        /\ Complete(tx.origin)
        => VerifiesOrigin(tx)

\* The constructor's comment: "iterate over auth fields and reconstruct sigHash".
\* A signer of a standard multi-sig transaction, new or resumed, whatever was
\* appended since, signs over the hash that verification will reach.
SigHashIsReconstructed ==
    \A p \in Parties :
        /\ signers[p] # NoSigner
        /\ signers[p].tx.authType = "Standard" /\ signers[p].tx.origin.kind = "multi"
        => signers[p].sigHash = OriginHash(signers[p].tx)

\* A transaction with a sponsor's signature verifies in whole: the origin's
\* signature survives the sponsor, its fee and nonce, a change of sponsor and a
\* second signing by the origin, and the sponsor signed over the origin's signature.
SponsoredVerifies ==
    \A tx \in circulating :
        NumSigs(tx.sponsor) > 0 =>
            /\ VerifiesOrigin(tx)
            /\ Verifies(tx.sponsor, OriginHash(tx), "Sponsored")

\* sponsorTransaction: "Constructs and signs a sponsored transaction as the
\* sponsor", so a sponsored transaction whose origin verifies can be sponsored.
VerifiedCanBeSponsored ==
    \A tx \in circulating :
        tx.authType = "Sponsored" /\ VerifiesOrigin(tx) => CanSponsor(tx)
=============================================================================
