------------------------------ MODULE MCBuilder ------------------------------
(* Instances of TransactionBuilder for TLC: two builders and two sponsors.   *)
EXTENDS TransactionBuilder, TLC

CONSTANTS k1, k2, k3, s1, s2, u1, u2, u3, t1, t2, b1, b2, p1, p2

Request(payload, kind, keys, required, signerKeys, authType, fee, nonce, validate, how) ==
    [payload |-> payload, kind |-> kind, keys |-> keys, required |-> required,
     signerKeys |-> signerKeys, authType |-> authType, fee |-> fee, nonce |-> nonce,
     validate |-> validate, how |-> how]

Single(payload, authType, fee, nonce, validate, how) ==
    Request(payload, "single", <<k1>>, 1, <<k1>>, authType, fee, nonce, validate, how)

\* One account's transactions, all of whose options are looked up or given.
OneKey ==
    {Single("transfer", "Standard", Absent, Absent, FALSE, "signed"),
     Single("call", "Standard", 7, Absent, TRUE, "signed"),
     Single("transfer", "Sponsored", Absent, 0, FALSE, "signed"),
     Single("transfer", "Standard", Undefined, 0, FALSE, "signed"),
     Single("transfer", "Standard", 7, 1, FALSE, "sync")}

Multi(keys, required, signerKeys) ==
    Request("transfer", "multi", keys, required, signerKeys, "Standard", Absent, Absent,
            FALSE, "signed")

\* Signers in order, out of order, too few, too many; an account with a key twice.
SeveralKeys ==
    {Multi(<<k1, k2, k3>>, 2, <<k1, k2>>), Multi(<<k1, k2, k3>>, 2, <<k2, k3>>),
     Multi(<<k1, k2, k3>>, 2, <<k1>>), Multi(<<k1, k2, k3>>, 2, <<k1, k2, k3>>),
     Multi(<<k1, k2, k1>>, 2, <<k1, k2>>)}

Both ==
    b1 :> OneKey
    @@ b2 :> {Single("deploy", "Standard", Absent, Absent, FALSE, "signed")} \cup SeveralKeys

\* One sponsor looks everything up, the other is given a fee.
TwoSponsors ==
    p1 :> {[key |-> s1, fee |-> Absent, nonce |-> Absent]}
    @@ p2 :> {[key |-> s2, fee |-> 3, nonce |-> Absent], [key |-> s2, fee |-> 3, nonce |-> 0]}

Twins ==
    k1 :> u1 @@ k2 :> u2 @@ k3 :> u3 @@ s1 :> t1 @@ s2 :> t2
    @@ u1 :> k1 @@ u2 :> k2 @@ u3 :> k3 @@ t1 :> s1 @@ t2 :> s2

Sizes == [transfer |-> 77, call |-> 90, deploy |-> 120]
=============================================================================
