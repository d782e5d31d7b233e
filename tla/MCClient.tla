------------------------------ MODULE MCClient ------------------------------
(* Instances of MicroStacksClient for TLC.                                  *)
EXTENDS MicroStacksClient, TLC

CONSTANTS t1, t2, r1, r2, r3

\* Two sign-ins and the signature of a transaction.
AuthAuthTx == r1 :> "Authentication" @@ r2 :> "Authentication" @@ r3 :> "TransactionSigning"
NoRequests == <<>>
AuthTx == r1 :> "Authentication" @@ r2 :> "TransactionSigning"

NoCallbacks == [slot \in Slots |-> NoCallback]
PersistAndSignOut == [NoCallbacks EXCEPT !["onPersistState"] = "onPersistState",
                                         !["onSignOut"] = "onSignOut"]
=============================================================================
