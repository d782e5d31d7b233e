-------------------------- MODULE TransactionBuilder --------------------------
(***************************************************************************)
(* Building a transaction, and having it mined: makeSTXTokenTransfer,        *)
(* makeContractCall, makeContractDeploy, their unsigned forms and            *)
(* sponsorTransaction (packages/core/src/transactions/builders), and the     *)
(* fetchers they and the application call (transactions/fetchers).           *)
(*                                                                          *)
(* Calls run concurrently.  One that is given no fee awaits the node's fee   *)
(* rate, one that is given no nonce awaits the account's nonce, and a fetch  *)
(* may fail.  Signing awaits too, but on the call's own transaction: it is   *)
(* one step with what precedes it.  Sponsors work on the transaction object  *)
(* a call returned, several at once if they like.  The payloads of two calls *)
(* differ.                                                                  *)
(***************************************************************************)
EXTENDS TransactionAuth

CONSTANTS
    Builders,           \* calls of a builder
    Sponsors,           \* calls of sponsorTransaction
    Requests,           \* what each call of a builder may be given
    SponsorRequests,    \* what each call of sponsorTransaction may be given
    Absent,             \* of a fee or nonce: the option is not given
    Undefined,          \* of a fee or nonce: it is given as undefined
    Rates,              \* the fee rates the node answers, microstacks per byte
    InitialNonces,      \* the nonces accounts have at the start
    PayloadSize,        \* bytes of a transaction but its spending conditions
    MaxNonce            \* bound: transactions of one account that are mined

Calls == Builders \cup Sponsors

Values == Nat \cup {Absent, Undefined}

\* validate: validateWithAbi, with the contract's interface still to be fetched.
\* how: by the signed builder, the unsigned one, or the unsigned one with sync.
ASSUME BuilderAssumption ==
    /\ Builders \cap Sponsors = {}
    /\ Absent \notin Nat /\ Undefined \notin Nat /\ Absent # Undefined
    /\ \A b \in Builders : \A request \in Requests[b] :
         /\ DOMAIN request = {"payload", "kind", "keys", "signerKeys", "required", "authType",
                              "fee", "nonce", "validate", "how"}
         /\ request.payload \in {"transfer", "call", "deploy"}
         /\ request.kind \in Kinds
         /\ request.keys \in Seq(Keys) /\ request.signerKeys \in Seq(Keys)
         /\ request.required \in 1..Len(request.keys)
         /\ request.kind = "single" =>
              Len(request.keys) = 1 /\ request.required = 1 /\ request.signerKeys = request.keys
         /\ request.authType \in AuthTypes
         /\ request.fee \in Values /\ request.nonce \in Values
         /\ request.validate \in BOOLEAN
         /\ request.how \in {"signed", "unsigned", "sync"}
         /\ request.payload # "transfer" => request.how # "sync"
         /\ request.payload = "deploy" => request.kind = "single" /\ request.how = "signed"
    /\ \A s \in Sponsors : \A request \in SponsorRequests[s] :
         /\ request.key \in Keys
         /\ request.fee \in Values \ {Undefined} /\ request.nonce \in Values \ {Undefined}
    /\ Rates \subseteq Nat /\ InitialNonces \subseteq Nat /\ MaxNonce \in Nat
    /\ PayloadSize \in [{"transfer", "call", "deploy"} -> Nat]

VARIABLES
    calls,      \* each builder call
    sponsored,  \* each sponsorTransaction call
    delivery,   \* how broadcasting the result of each call stands
    accounts,   \* external: the next nonce of each address
    pool        \* external: what the node took and has not mined

vars == <<calls, sponsored, delivery, accounts, pool>>

Address(version, cond) == [version |-> version, keys |-> cond.keys, required |-> cond.required]

\* The address that pays.
Payer(cond) == Address(IF cond.kind = "single" THEN "P2PKH" ELSE "P2SH", cond)

\* The address whose nonce is looked up: c32address of the account's hash, with
\* the version of a single-sig address whatever the account is.
LookedUp(tx) == Address("P2PKH", tx.origin)

\* The node knows nothing of an address nobody has the keys of.
NonceOf(address) == IF address \in DOMAIN accounts THEN accounts[address] ELSE 0

-----------------------------------------------------------------------------
(* The steps of a builder call.  at is the fetch it awaits, or its outcome;   *)
(* rate and mined are no state of the code: they remember the rate and the    *)
(* payer's nonce at the time of the answers.                                 *)

NoCall == [at |-> "idle"]

\* The transaction of a request, with the defaults for what is absent.
Constructed(request) ==
    LET value(option) == IF option = Absent THEN 0 ELSE option
    IN  [authType |-> request.authType,
         origin |-> Condition(request.kind, request.keys, request.required,
                              value(request.fee), value(request.nonce)),
         sponsor |-> NoSponsor]

\* One turn of the loop over the account's keys.
KeepUnlessSigner(signerKeys, kept, key) ==
    IF \E i \in DOMAIN signerKeys : signerKeys[i] = key THEN kept ELSE Append(kept, key)

Filter == INSTANCE SequenceFold WITH Step <- KeepUnlessSigner

\* A loop that keeps the keys that signed among those still to be appended.
RemainingKeepsAll(keys, signerKeys) == keys

\* pubKeys.filter(...) for each signer: every occurrence of its key goes.
Remaining(keys, signerKeys) == Filter!Fold(signerKeys, <<>>, keys)

\* One turn of the loop over the signers, for the origin as it was before.
SignWith(origin, acc, key) ==
    LET next == NextSignature(acc.hash, "Standard", origin, key)
    IN  [cond |-> AddSignature(acc.cond, next.field), hash |-> next.hash]

Signing == INSTANCE SequenceFold WITH Step <- SignWith

AppendKeys(cond, keys) ==
    [cond EXCEPT !.fields = @ \o [i \in DOMAIN keys |-> PubkeyField(keys[i])]]

\* Each signer's key signs in the order given; the account's other keys follow.
SignedOrigin(tx, signerKeys) ==
    LET begin == [cond |-> tx.origin, hash |-> SignBegin(tx)]
        signed == Signing!Fold(tx.origin, begin, signerKeys).cond
    IN  IF tx.origin.kind = "single" THEN signed
                                     ELSE AppendKeys(signed, Remaining(tx.origin.keys, signerKeys))

\* signOrigin throws at a signature too many.
CanSign(tx, signerKeys) ==
    tx.origin.kind = "multi" => Len(signerKeys) <= tx.origin.required

Failed(call) == [call EXCEPT !.at = "failed"]

\* Once fee and nonce are there.
Completed(call) ==
    LET signerKeys == call.request.signerKeys
    IN  IF call.request.how = "signed"
        THEN IF CanSign(call.tx, signerKeys)
             THEN [call EXCEPT !.at = "built", !.tx.origin = SignedOrigin(call.tx, signerKeys)]
             ELSE Failed(call)
        ELSE [call EXCEPT !.at = "built"]

WithFee(call) ==
    IF call.request.nonce = Absent THEN [call EXCEPT !.at = "nonce"] ELSE Completed(call)

\* The construction once the options are known to be integers.
ConstructionOf(call) ==
    LET made == [call EXCEPT !.tx = Constructed(call.request)]
    IN  CASE call.request.how = "sync" ->
               Completed([made EXCEPT !.tx = SetNonce(SetFee(@, 0), 0)])
          [] call.request.how # "sync" /\ call.request.fee = Absent ->
               [made EXCEPT !.at = "fee"]
          [] OTHER -> WithFee(made)

\* From the construction of the transaction to the next await.  undefined is no
\* integer: Object.assign copies it over the default, and creating the spending
\* condition throws.
Construction(call) ==
    IF Undefined \in {call.request.fee, call.request.nonce} THEN Failed(call)
                                                            ELSE ConstructionOf(call)

SetCall(b, call) ==
    /\ calls' = [calls EXCEPT ![b] = call]
    /\ UNCHANGED <<sponsored, delivery, accounts, pool>>

Build(b, request) ==
    /\ calls[b] = NoCall
    /\ LET call == [at |-> "abi", request |-> request, rate |-> 0, mined |-> 0,
                    tx |-> Constructed([request EXCEPT !.fee = Absent, !.nonce = Absent])]
       IN  SetCall(b, IF request.payload = "call" /\ request.validate
                      THEN call ELSE Construction(call))

\* getAbi resolves; validateContractCall throws when the arguments do not fit.
AbiAnswered(b, fits) ==
    /\ calls[b].at = "abi"
    /\ SetCall(b, IF fits THEN Construction(calls[b]) ELSE Failed(calls[b]))

-----------------------------------------------------------------------------
(* Sizes, in bytes.                                                         *)

\* A multi-sig condition has 34 bytes for each public key and 66 for each signature.
ConditionSize(cond) ==
    IF cond.kind = "single" THEN 103 ELSE 43 + 34 * Len(cond.fields) + 32 * NumSigs(cond)

\* A serialization without the sponsor's condition.
SizeOfOrigin(payload, tx) == PayloadSize[payload] + ConditionSize(tx.origin)

Size(payload, tx) ==
    PayloadSize[payload] + ConditionSize(tx.origin)
        + (IF tx.authType = "Standard" THEN 0 ELSE ConditionSize(tx.sponsor))

EstimateOfOrigin(payload, tx, rate) == rate * SizeOfOrigin(payload, tx)

\* estimateTransfer, estimateContractFunctionCall, estimateContractDeploy.
Estimate(payload, tx, rate) == rate * Size(payload, tx)

FeeAnswered(b, rate) ==
    /\ calls[b].at = "fee"
    /\ LET fee == Estimate(calls[b].request.payload, calls[b].tx, rate)
       IN  SetCall(b, WithFee([calls[b] EXCEPT !.tx = SetFee(@, fee), !.rate = rate]))

\* A builder that looks the nonce up and does not set it.
NonceIgnored(b) ==
    /\ calls[b].at = "nonce"
    /\ SetCall(b, Completed([calls[b] EXCEPT !.mined = NonceOf(Payer(calls[b].tx.origin))]))

NonceAnswered(b) ==
    /\ calls[b].at = "nonce"
    /\ SetCall(b, Completed([calls[b] EXCEPT
                               !.tx = SetNonce(@, NonceOf(LookedUp(calls[b].tx))),
                               !.mined = NonceOf(Payer(calls[b].tx.origin))]))

Awaited == {"abi", "fee", "nonce"}

\* The connection fails, or the node's answer is not ok: the builder rejects.
FetchFails(b) ==
    /\ calls[b].at \in Awaited
    /\ SetCall(b, Failed(calls[b]))

-----------------------------------------------------------------------------
(* sponsorTransaction on the transaction that call of returned.             *)

\* A last stretch that signs for whoever is the sponsor of the caller's transaction.
SponsorSignedAsIs(s, sponsor, tx) ==
    LET cond == IF tx.sponsor = NoSponsor
                THEN SingleSig(sponsor.request.key, sponsor.fee, sponsor.nonce)
                ELSE tx.sponsor
        next == IF tx.authType = "Sponsored" THEN SetSponsor(tx, cond) ELSE tx
    IN  /\ calls' = [calls EXCEPT ![sponsor.of].tx = next]
        /\ sponsored' = [sponsored EXCEPT ![s] =
             IF CanSponsor(next)
             THEN [sponsor EXCEPT !.at = "built",
                     !.tx = Sponsored(next, sponsor.request.key, cond.fee, cond.nonce)]
             ELSE Failed(sponsor)]

\* The last stretch: setSponsor on the caller's transaction (it throws if that
\* is not sponsored), then createSponsorSigner and signSponsor on a clone.
SponsorSigned(s, sponsor, tx) ==
    LET unsigned == SingleSig(sponsor.request.key, sponsor.fee, sponsor.nonce)
        next == IF tx.authType = "Sponsored" THEN SetSponsor(tx, unsigned) ELSE tx
    IN  /\ calls' = [calls EXCEPT ![sponsor.of].tx = next]
        /\ sponsored' = [sponsored EXCEPT ![s] =
             IF CanSponsor(next)
             THEN [sponsor EXCEPT !.at = "built",
                     !.tx = Sponsored(next, sponsor.request.key, sponsor.fee, sponsor.nonce)]
             ELSE Failed(sponsor)]

\* Once the fee is there.
SponsorWithFee(s, sponsor, tx) ==
    IF sponsor.request.nonce = Absent
    THEN /\ sponsored' = [sponsored EXCEPT ![s] = [sponsor EXCEPT !.at = "nonce"]]
         /\ calls' = [calls EXCEPT ![sponsor.of].tx = tx]
    ELSE SponsorSigned(s, sponsor, tx)

Sponsor(s, b, request) ==
    /\ sponsored[s] = NoCall
    /\ calls[b].at = "built"
    /\ LET value(option) == IF option = Absent THEN 0 ELSE option
           sponsor == [at |-> "fee", of |-> b, request |-> request, rate |-> 0, mined |-> 0,
                       fee |-> value(request.fee), nonce |-> value(request.nonce),
                       tx |-> calls[b].tx]
       IN  IF request.fee = Absent
           THEN sponsored' = [sponsored EXCEPT ![s] = sponsor] /\ UNCHANGED calls
           ELSE SponsorWithFee(s, sponsor, calls[b].tx)
    /\ UNCHANGED <<delivery, accounts, pool>>

\* The estimate is set on the caller's transaction too.
SponsorFeeAnswered(s, rate) ==
    /\ sponsored[s].at = "fee"
    /\ LET sponsor == sponsored[s]
           call == calls[sponsor.of]
           fee == Estimate(call.request.payload, call.tx, rate)
       IN  SponsorWithFee(s, [sponsor EXCEPT !.fee = fee, !.rate = rate], SetFee(call.tx, fee))
    /\ UNCHANGED <<delivery, accounts, pool>>

SponsorNonceAnswered(s) ==
    /\ sponsored[s].at = "nonce"
    /\ LET sponsor == sponsored[s]
           nonce == NonceOf(Payer(SingleSig(sponsor.request.key, 0, 0)))
       IN  SponsorSigned(s, [sponsor EXCEPT !.nonce = nonce, !.mined = nonce],
                         calls[sponsor.of].tx)
    /\ UNCHANGED <<delivery, accounts, pool>>

SponsorFetchFails(s) ==
    /\ sponsored[s].at \in Awaited
    /\ sponsored' = [sponsored EXCEPT ![s] = Failed(@)]
    /\ UNCHANGED <<calls, delivery, accounts, pool>>

-----------------------------------------------------------------------------
(* Broadcasting, and the node.                                              *)

IsBuilt(c) == IF c \in Builders THEN calls[c].at = "built" ELSE sponsored[c].at = "built"

\* What the node tells apart: the payload is that of the builder call.
Result(c) ==
    IF c \in Builders THEN [of |-> c, tx |-> calls[c].tx]
                      ELSE [of |-> sponsored[c].of, tx |-> sponsored[c].tx]

NotSent == [at |-> "idle"]

SetDelivery(c, at) == delivery' = [delivery EXCEPT ![c].at = at]

\* broadcastTransaction serializes; the application calls it, and calls it again
\* when it threw.
Broadcast(c) ==
    /\ IsBuilt(c)
    /\ delivery[c].at \in {"idle", "unknown"}
    /\ delivery' = [delivery EXCEPT ![c] = [at |-> "sending", sent |-> Result(c)]]
    /\ UNCHANGED <<calls, sponsored, accounts, pool>>

\* The nonces a transaction uses up.
Slots(tx) ==
    {<<Payer(tx.origin), tx.origin.nonce>>} \cup
        (IF tx.authType = "Standard" THEN {} ELSE {<<Payer(tx.sponsor), tx.sponsor.nonce>>})

VerifiesWhole(tx) ==
    /\ VerifiesOrigin(tx)
    /\ tx.authType = "Sponsored" => Verifies(tx.sponsor, OriginHash(tx), "Sponsored")

\* The reasons to refuse a transaction that verifies: BadNonce, or another one
\* that waits to be mined.
IsSpent(slot) == slot[2] < NonceOf(slot[1])

IsClaimed(slot, sent) == \E other \in pool \ {sent} : slot \in Slots(other.tx)

NodeTakes(sent) ==
    /\ VerifiesWhole(sent.tx)
    /\ \A slot \in Slots(sent.tx) : ~IsSpent(slot) /\ ~IsClaimed(slot, sent)

\* The promise resolves with the txid, or the answer is lost, or is no txid, and
\* it rejects.
Take(c) ==
    /\ delivery[c].at = "sending"
    /\ NodeTakes(delivery[c].sent)
    /\ pool' = pool \cup {delivery[c].sent}
    /\ SetDelivery(c, "taken") \/ SetDelivery(c, "unknown")
    /\ UNCHANGED <<calls, sponsored, accounts>>

\* The promise resolves with the reason, or the answer is lost, or is no JSON.
Refuse(c) ==
    /\ delivery[c].at = "sending"
    /\ ~NodeTakes(delivery[c].sent)
    /\ SetDelivery(c, "refused") \/ SetDelivery(c, "unknown")
    /\ UNCHANGED <<calls, sponsored, accounts, pool>>

\* The request does not reach the node.
Lose(c) ==
    /\ delivery[c].at = "sending"
    /\ SetDelivery(c, "unknown")
    /\ UNCHANGED <<calls, sponsored, accounts, pool>>

\* A transaction whose nonces are next is mined; what it overtakes is dropped.
Mine(sent) ==
    /\ \A slot \in Slots(sent.tx) : slot[2] = NonceOf(slot[1]) /\ slot[2] < MaxNonce
    /\ accounts' = [address \in DOMAIN accounts |->
                      IF \E slot \in Slots(sent.tx) : slot[1] = address
                      THEN accounts[address] + 1
                      ELSE accounts[address]]
    /\ pool' = {other \in pool : Slots(other.tx) \cap Slots(sent.tx) = {}}
    /\ UNCHANGED <<calls, sponsored, delivery>>

-----------------------------------------------------------------------------
Accounts ==
    {Payer([kind |-> request.kind, keys |-> request.keys, required |-> request.required]) :
        request \in UNION {Requests[b] : b \in Builders}}
    \cup {Payer(SingleSig(request.key, 0, 0)) :
        request \in UNION {SponsorRequests[s] : s \in Sponsors}}

Init ==
    /\ calls = [b \in Builders |-> NoCall]
    /\ sponsored = [s \in Sponsors |-> NoCall]
    /\ delivery = [c \in Calls |-> NotSent]
    /\ accounts \in [Accounts -> InitialNonces]
    /\ pool = {}

BuilderSteps(b) ==
    \/ \E request \in Requests[b] : Build(b, request)
    \/ \E fits \in BOOLEAN : AbiAnswered(b, fits)
    \/ \E rate \in Rates : FeeAnswered(b, rate)
    \/ NonceAnswered(b)
    \/ FetchFails(b)

SponsorSteps(s) ==
    \/ \E b \in Builders, request \in SponsorRequests[s] : Sponsor(s, b, request)
    \/ \E rate \in Rates : SponsorFeeAnswered(s, rate)
    \/ SponsorNonceAnswered(s)
    \/ SponsorFetchFails(s)

DeliverySteps(c) == Broadcast(c) \/ Take(c) \/ Refuse(c) \/ Lose(c)

Next ==
    \/ \E b \in Builders : BuilderSteps(b)
    \/ \E s \in Sponsors : SponsorSteps(s)
    \/ \E c \in Calls : DeliverySteps(c)
    \/ \E sent \in pool : Mine(sent)

Spec == Init /\ [][Next]_vars

-----------------------------------------------------------------------------
(* Properties.                                                              *)

IsBuilderCall(call) ==
    \/ call = NoCall
    \/ /\ call.at \in Awaited \cup {"built", "failed"}
       /\ IsTransaction(call.tx)
       /\ call.rate \in Nat /\ call.mined \in Nat

IsSponsorCall(call) ==
    \/ call = NoCall
    \/ /\ call.at \in Awaited \cup {"built", "failed"}
       /\ call.of \in Builders /\ calls[call.of].at = "built"
       /\ IsTransaction(call.tx)
       /\ call.fee \in Nat /\ call.nonce \in Nat

\* The types of the calls, of what is sent, and of what the node keeps; a
\* sponsor's call works on a transaction that its builder returned.
TypeOK ==
    /\ DOMAIN calls = Builders /\ \A b \in Builders : IsBuilderCall(calls[b])
    /\ DOMAIN sponsored = Sponsors /\ \A s \in Sponsors : IsSponsorCall(sponsored[s])
    /\ DOMAIN delivery = Calls
    /\ accounts \in [Accounts -> Nat]
    /\ \A sent \in pool : sent.of \in Builders /\ IsTransaction(sent.tx)

\* No sponsorTransaction call, that looks up a fee, was given the standard
\* transaction of b: it would have changed the origin's fee before it threw.
Untouched(b) ==
    \A s \in Sponsors :
        sponsored[s] # NoCall /\ sponsored[s].of = b /\ sponsored[s].request.fee = Absent
        => calls[b].tx.authType = "Sponsored"

\* The signers are the first keys of the account, in its order, as many as it
\* requires, and their keys do not come again after them.
SignsInOrder(request) ==
    LET n == request.required
    IN  /\ Len(request.signerKeys) = n
        /\ \A i \in 1..n : request.signerKeys[i] = request.keys[i]
        /\ \A i \in 1..n, j \in n + 1..Len(request.keys) : request.keys[i] # request.keys[j]

\* What a builder signed verifies, through all fetches and whatever sponsors do
\* with it, if the signers' keys come first in the account's; otherwise the
\* builder returns, with no error, a transaction that does not.
BuiltVerifiesIffInOrder ==
    \A b \in Builders :
        calls[b].at = "built" /\ calls[b].request.how = "signed" /\ Untouched(b) =>
            (VerifiesOrigin(calls[b].tx) <=> SignsInOrder(calls[b].request))

\* An estimated fee pays the rate the node answered for every byte of what the
\* node is sent, though it was estimated before the signatures were there.  (Not
\* for a multi-sig account, whose fields are no bytes until they are signed.)
EstimateCoversSize ==
    /\ \A b \in Builders :
         LET call == calls[b]
         IN  /\ call.at = "built" /\ call.request.fee = Absent /\ call.request.how # "sync"
             /\ call.request.kind = "single" /\ call.tx.authType = "Standard" /\ Untouched(b)
             => call.tx.origin.fee = call.rate * Size(call.request.payload, call.tx)
    /\ \A s \in Sponsors :
         LET call == sponsored[s]
         IN  /\ call.at = "built" /\ call.request.fee = Absent
             => call.tx.sponsor.fee = call.rate * Size(calls[call.of].request.payload, call.tx)

\* Sponsors that work on one transaction at the same time do not mix: each gets
\* the transaction of the origin, verifying, with its own key, fee and nonce.
SponsorsStayApart ==
    \A s \in Sponsors :
        LET call == sponsored[s]
        IN  call.at = "built" =>
                /\ VerifiesWhole(call.tx)
                /\ call.tx.origin = calls[call.of].tx.origin
                /\ call.tx.sponsor.keys = <<call.request.key>>
                /\ call.request.fee # Absent => call.tx.sponsor.fee = call.request.fee
                /\ call.tx.sponsor.nonce =
                     IF call.request.nonce = Absent THEN call.mined ELSE call.request.nonce

LooksUpNonce(b) ==
    /\ calls[b].at = "built"
    /\ calls[b].request.nonce = Absent /\ calls[b].request.how = "signed"
    /\ calls[b].request.kind = "single" /\ calls[b].tx.authType = "Standard"
    /\ Untouched(b)

\* The node refuses a transaction whose nonce was looked up only when the nonce
\* was used up after the lookup (by another transaction, or by this one when its
\* answer was lost), or when another transaction that waits to be mined has it,
\* whether that was taken before the lookup or after: the node answers the
\* confirmed nonce, so two builders in a row get the same one.  The account, the
\* signature and the nonce are never the reason.  (Not for a multi-sig account:
\* the nonce looked up is that of another address.)
OnlyOvertakenIsRefused ==
    [][\A b \in Builders :
         delivery[b].at = "sending" /\ delivery'[b].at = "refused" /\ LooksUpNonce(b) =>
             LET sent == delivery[b].sent
                 slot == <<Payer(sent.tx.origin), sent.tx.origin.nonce>>
             IN  /\ slot[2] >= calls[b].mined
                 /\ IsSpent(slot) \/ IsClaimed(slot, sent)]_vars
=============================================================================
