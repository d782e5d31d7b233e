------------------------------ MODULE MCSigner ------------------------------
(* Instances of TransactionSigner for TLC: two co-signers, one with two keys.*)
EXTENDS TransactionSigner, TLC

CONSTANTS k1, k2, k3, s1, u1, u2, u3, t1, ann, bob

Account(kind, keys, required, authType) ==
    [kind |-> kind, keys |-> keys, required |-> required, authType |-> authType]

\* Two of three keys, one of two keys of which one is uncompressed, and a single
\* key whose transaction is sponsored.
CosignedAndSponsored ==
    {Account("multi", <<k1, k2, k3>>, 2, "Standard"),
     Account("multi", <<u2, k1>>, 1, "Standard"),
     Account("single", <<k1>>, 1, "Sponsored")}

\* Two of three keys whose transaction is sponsored.
SponsoredTwoOfThree == {Account("multi", <<k1, k2, k3>>, 2, "Sponsored")}

Twins ==
    k1 :> u1 @@ k2 :> u2 @@ k3 :> u3 @@ s1 :> t1 @@ u1 :> k1 @@ u2 :> k2 @@ u3 :> k3 @@ t1 :> s1

AnnAndBob == ann :> {k1} @@ bob :> {k2, k3}

\* Unsigned, signed once and complete; a single signature leaves room for two sponsors.
FewCopies == [multi |-> 3, single |-> 4]
=============================================================================
