-------------------------------- MODULE SignIn --------------------------------
(***************************************************************************)
(* Signing in with a message: the application prepares a message with the    *)
(* relying party's nonce (getSignInMessage, micro-stacks-client.ts), the     *)
(* wallet signs it, and the application or the relying party, which is given *)
(* the text or made the same message itself, verifies it (verify,            *)
(* packages/client/src/siwms/index.ts).  Time passes meanwhile.             *)
(*                                                                          *)
(* A hash is what was hashed, a signature its key and what it is over, and   *)
(* recovery from anything else gives no key of anybody.                     *)
(***************************************************************************)
EXTENDS SignInMessage, Naturals

CONSTANTS
    Keys,
    NoKey,
    AddressOf,      \* of each key, one of StacksAddresses
    Prefixes,       \* the prefixes wallets sign messages with
    ChainPrefix,    \* that of hashMessage
    Holders,        \* the application, and the relying party
    App,            \* the holder that prepares and has the wallet sign
    Messages,       \* what the messages are made of
    Checks,         \* [domain, nonce]: what verify is asked to compare
    Nothing,
    TimeOf,         \* the time of what is Dated; each up to MaxTime has its datetime
    MaxTime         \* bound: the clock

VARIABLES
    now,
    objects,    \* the SignInWithStacksMessage of each holder
    text,       \* what the application had the wallet sign
    signature,
    verdicts    \* what the last verify of each holder settled with

vars == <<now, objects, text, signature, verdicts>>

Nobody == [holder \in Holders |-> Nothing]

Init ==
    /\ now = 0
    /\ objects = Nobody
    /\ text = <<>>
    /\ signature = Nothing
    /\ verdicts = Nobody

NowAsText == CHOOSE datetime \in Datetimes : TimeOf[datetime] = now

Hash(prefix, lines) == [prefix |-> prefix, lines |-> lines]

\* new SignInWithStacksMessage(params)
Compose(holder, m) ==
    /\ IsValid(m)
    /\ objects' = [objects EXCEPT ![holder] = m]
    /\ verdicts' = [verdicts EXCEPT ![holder] = Nothing]
    /\ UNCHANGED <<now, text, signature>>

\* new SignInWithStacksMessage(message)
Parse(holder) ==
    /\ text # <<>> /\ CanParse(text)
    /\ objects' = [objects EXCEPT ![holder] = AsParsed(text)]
    /\ verdicts' = [verdicts EXCEPT ![holder] = Nothing]
    /\ UNCHANGED <<now, text, signature>>

\* prepareMessage
Prepare ==
    /\ objects[App] # Nothing
    /\ LET m == Stamped(objects[App], NowAsText)
       IN  text' = Lines(m) /\ objects' = [objects EXCEPT ![App] = m]
    /\ UNCHANGED <<now, signature, verdicts>>

WalletSigns(key, prefix) ==
    /\ text # <<>>
    /\ signature' = [key |-> key, over |-> Hash(prefix, text)]
    /\ verdicts' = Nobody
    /\ UNCHANGED <<now, objects, text>>

-----------------------------------------------------------------------------
(* verify.                                                                  *)

\* getPublicKeyFromSignature
Recovered(hash) == IF signature.over = hash THEN signature.key ELSE NoKey

RecoveredAddress(hash) ==
    IF Recovered(hash) = NoKey THEN Nothing ELSE AddressOf[Recovered(hash)]

\* verifyMessageSignature: without a key and an address to verify against it
\* throws, before its try.
VerifyMessageSignature(hash, publicKey, stxAddress) ==
    CASE publicKey = Nothing /\ stxAddress = Nothing -> "throws"
      [] publicKey # Nothing /\ signature.over = hash /\ signature.key = publicKey -> "true"
      [] publicKey = Nothing /\ stxAddress # Nothing /\ RecoveredAddress(hash) = stxAddress ->
            "true"
      [] OTHER -> "false"

\* addr, after the catch: verify passes neither key nor address.
SignerAddress(hash) ==
    IF VerifyMessageSignature(hash, Nothing, Nothing) = "true" THEN RecoveredAddress(hash)
                                                              ELSE Nothing

\* The promise settles with the first of its rejections.  A message is expired at
\* its expirationTime, and valid from notBefore on.
Verdict(m, check) ==
    LET bound == check.domain \in {Missing, m.domain}
        fresh == check.nonce \in {Missing, m.nonce}
        alive == m.expirationTime = Missing \/ now < TimeOf[m.expirationTime]
        valid == m.notBefore = Missing \/ now >= TimeOf[m.notBefore]
    IN  CASE ~bound -> "DOMAIN_MISMATCH"
          [] bound /\ ~fresh -> "NONCE_MISMATCH"
          [] bound /\ fresh /\ ~alive -> "EXPIRED_MESSAGE"
          [] bound /\ fresh /\ alive /\ ~valid -> "NOT_YET_VALID_MESSAGE"
          [] bound /\ fresh /\ alive /\ valid ->
                IF SignerAddress(Hash(ChainPrefix, Lines(m))) = m.address
                THEN "success" ELSE "INVALID_SIGNATURE"

\* prepareMessage stamps the message that is verified, too.
Verify(holder, check) ==
    /\ objects[holder] # Nothing /\ signature # Nothing
    /\ LET m == Stamped(objects[holder], NowAsText)
       IN  /\ objects' = [objects EXCEPT ![holder] = m]
           /\ verdicts' = [verdicts EXCEPT ![holder] = Verdict(m, check)]
    /\ UNCHANGED <<now, text, signature>>

Tick ==
    /\ now < MaxTime
    /\ now' = now + 1
    /\ UNCHANGED <<objects, text, signature, verdicts>>

-----------------------------------------------------------------------------
Next ==
    \/ \E holder \in Holders :
         \/ \E m \in Messages : Compose(holder, m)
         \/ Parse(holder)
         \/ \E check \in Checks : Verify(holder, check)
    \/ Prepare
    \/ \E key \in Keys, prefix \in Prefixes : WalletSigns(key, prefix)
    \/ Tick

Spec == Init /\ [][Next]_vars

-----------------------------------------------------------------------------
(* Properties.                                                              *)

\* siwms.test.ts, "basic": a message that is bound to the domain and the nonce
\* that verify is given, within its times, and signed by the key of its address
\* under the chain's prefix, is verified.
SignedIsVerified ==
    \A holder \in Holders :
        verdicts[holder] = "INVALID_SIGNATURE" =>
            ~ /\ objects[holder].address = AddressOf[signature.key]
              /\ signature.over = Hash(ChainPrefix, Lines(objects[holder]))
=============================================================================
