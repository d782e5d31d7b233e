------------------------------- MODULE MCSignIn -------------------------------
(* An instance of SignIn for TLC: an application and its server, two keys.   *)
EXTENDS SignIn, TLC

CONSTANTS k1, k2

Addressed == k1 :> "SP1" @@ k2 :> "SP2"

Message(expirationTime, notBefore) ==
    [domain |-> "app.example", address |-> "SP1", statement |-> "Sign in",
     uri |-> "https://app.example", version |-> "1", chainId |-> "1", nonce |-> "abcdefgh",
     issuedAt |-> Missing, expirationTime |-> expirationTime, notBefore |-> notBefore,
     requestId |-> Missing, resources |-> Missing]

SomeMessages == {Message(Missing, Missing), Message("t2", "t1")}

SomeChecks ==
    {[domain |-> "app.example", nonce |-> "abcdefgh"], [domain |-> Missing, nonce |-> "12345678"]}

Times == "t0" :> 0 @@ "t1" :> 1 @@ "t2" :> 2
=============================================================================
