---------------------------- MODULE ClientState ----------------------------
(***************************************************************************)
(* The state of one MicroStacksClient and its string form: the pure part of *)
(* packages/client/src/utils.ts and the selectors of                        *)
(* packages/client/src/micro-stacks-client.ts.                              *)
(*                                                                          *)
(* A network is its chain id and API url, an address is a [version, hash]   *)
(* pair; both are opaque here.  An account carries, next to its address,    *)
(* whether the decentralizedID the wallet returned is still on record.  The *)
(* string made by serialize is the tuple of what it keeps.                  *)
(***************************************************************************)
EXTENDS Naturals, Sequences

CONSTANTS
    Addresses,      \* the accounts the wallet may return
    Networks,       \* the networks an application may select
    ConfigNetwork,  \* config.network
    NoItem,         \* null: the key is not in the storage
    NoCallback      \* undefined: the application gave no such callback

ASSUME NetworkAssumption == ConfigNetwork \in Networks

StatusKeys == {"Authentication", "TransactionSigning", "MessageSigning",
               "StructuredMessageSigning", "PsbtSigning"}
Statuses == {"IsLoading", "IsIdle", "unset"}

\* The four callbacks an application may set on a client.
Slots == {"onPersistState", "onAuthentication", "onNoWalletFound", "onSignOut"}

\* A callback is known by the setter the application gave it to.
Callbacks == [Slots -> Slots \cup {NoCallback}]

Accounts == [address : Addresses, hasDid : BOOLEAN]

States == [accounts : Seq(Accounts), currentAccountIndex : Nat,
           network : Networks, statuses : [StatusKeys -> Statuses],
           callbacks : Callbacks]

\* What serialize keeps of a state.
Strings == [accounts : Seq(Addresses), currentAccountIndex : Nat, network : Networks]

ASSUME NoItemAssumption == NoItem \notin Strings

-----------------------------------------------------------------------------
\* PsbtSigning has no entry in a default state until its first request.
DefaultState(callbacks) ==
    [accounts |-> <<>>, currentAccountIndex |-> 0, network |-> ConfigNetwork,
     statuses |-> [k \in StatusKeys |-> IF k = "PsbtSigning" THEN "unset" ELSE "IsIdle"],
     callbacks |-> callbacks]

\* A serialize that forgets the network.
SerializeWithoutNetwork(s) ==
    [accounts |-> [i \in DOMAIN s.accounts |-> s.accounts[i].address],
     currentAccountIndex |-> s.currentAccountIndex,
     network |-> ConfigNetwork]

Serialize(s) ==
    [accounts |-> [i \in DOMAIN s.accounts |-> s.accounts[i].address],
     currentAccountIndex |-> s.currentAccountIndex,
     network |-> s.network]

\* A hydrate that is not laid over the default state.
HydrateBare(str, callbacks) == IF str = NoItem THEN DefaultState(callbacks) ELSE str

\* hydrate: a default state under what the string holds; no string (JSON null)
\* takes the catch branch, the default state alone.
Hydrate(str, callbacks) ==
    IF str = NoItem
    THEN DefaultState(callbacks)
    ELSE [DefaultState(callbacks) EXCEPT
            !.accounts = [i \in DOMAIN str.accounts |->
                            [address |-> str.accounts[i], hasDid |-> FALSE]],
            !.currentAccountIndex = str.currentAccountIndex,
            !.network = str.network]

-----------------------------------------------------------------------------
SelectHasSession(s) == Len(s.accounts) > 0

\* accounts[currentAccountIndex] is not undefined (the array starts at 0).
SelectAccountDefined(s) == s.currentAccountIndex < Len(s.accounts)

\* account.address === address, where address was built by the caller: two
\* distinct arrays, which === never takes for equal whatever they hold.
SameAddress(saved, fresh) == FALSE

HasAccount(accounts, address) ==
    \E i \in DOMAIN accounts : SameAddress(accounts[i].address, address)

\* accounts.findIndex(...), -1 is not reached: HasAccount guards its use.
FindIndex(accounts, address) ==
    (CHOOSE i \in DOMAIN accounts :
        /\ SameAddress(accounts[i].address, address)
        /\ \A j \in DOMAIN accounts : SameAddress(accounts[j].address, address) => i <= j) - 1

\* A new account's index taken from the list read before the wallet was asked.
AddAccountAtStaleIndex(s, captured, address) ==
    [s EXCEPT !.accounts = Append(@, [address |-> address, hasDid |-> TRUE]),
              !.currentAccountIndex = Len(captured)]

\* The two setState calls of authenticate's onFinish.  captured is the list
\* of accounts read before the wallet was asked.
AddAccount(s, captured, address) ==
    IF HasAccount(captured, address)
    THEN [s EXCEPT !.currentAccountIndex = FindIndex(captured, address)]
    ELSE [s EXCEPT !.accounts = Append(@, [address |-> address, hasDid |-> TRUE]),
                   !.currentAccountIndex = Len(s.accounts)]

\* A reset to the whole default state.
ResetStateToDefault(s) == DefaultState(s.callbacks)

ResetState(s) == [s EXCEPT !.accounts = <<>>, !.currentAccountIndex = 0]

SetStatus(s, key, status) == [s EXCEPT !.statuses[key] = status]
=============================================================================
