--------------------------- MODULE StacksSession ---------------------------
(***************************************************************************)
(* What a MicroStacksClient promises of the session it keeps in storage:    *)
(* signing in appends the wallet's account and selects it, signing out       *)
(* forgets every account, a network switch changes the network, and nothing *)
(* else changes the session: not the statuses of requests, not a page load,  *)
(* not a setter of a callback.                                              *)
(***************************************************************************)
EXTENDS Naturals, Sequences

CONSTANTS Addresses, Networks, InitNetwork

VARIABLE session

Init == session = [accounts |-> <<>>, currentAccountIndex |-> 0, network |-> InitNetwork]

SignIn(address) ==
    session' = [session EXCEPT !.accounts = Append(@, address),
                               !.currentAccountIndex = Len(session.accounts)]

SignOut == session' = [session EXCEPT !.accounts = <<>>, !.currentAccountIndex = 0]

SwitchNetwork(network) == session' = [session EXCEPT !.network = network]

Next == \/ \E address \in Addresses : SignIn(address)
        \/ SignOut
        \/ \E network \in Networks : SwitchNetwork(network)

Spec == Init /\ [][Next]_session
=============================================================================
