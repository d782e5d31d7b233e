------------------------- MODULE MicroStacksClient -------------------------
(***************************************************************************)
(* The clients of one web application, one per browser tab                  *)
(* (packages/client/src/micro-stacks-client.ts), over the localStorage the   *)
(* tabs share and the storage events the browser sends between them.        *)
(*                                                                          *)
(* Each action is one run of the JavaScript event loop of one tab: the code *)
(* between two awaits.  Every setState goes through zustand's persist       *)
(* middleware, which writes the serialized state to the storage in the same *)
(* run; a write that changes the item queues a storage event in every other *)
(* tab that listens.                                                        *)
(***************************************************************************)
EXTENDS ClientState

CONSTANTS
    Tabs,
    SyncTabs,           \* the tabs that called tabSyncSubscription(true)
    Requests,           \* the wallet requests the users will make
    KeyOf,              \* the status key of each request
    InitCallbacks,      \* the callbacks of the initial config
    EnableNetworkSwitching,
    CallbacksThrow,     \* may the application's callbacks throw?
    TokensFail,         \* may the making of a request token throw?
    UsersWait,          \* do users act only when all tabs are at rest?
    MaxCalls            \* bound: calls of the synchronous methods and page loads

ASSUME ClientAssumption ==
    /\ SyncTabs \subseteq Tabs
    /\ KeyOf \in [Requests -> StatusKeys]
    /\ InitCallbacks \in Callbacks
    /\ {EnableNetworkSwitching, CallbacksThrow, TokensFail, UsersWait} \subseteq BOOLEAN
    /\ MaxCalls \in Nat

VARIABLES
    open,       \* the tabs that run a client
    state,      \* store.getState() of each tab
    config,     \* the callbacks of this.config of each tab
    storage,    \* the item micro-stacks.store
    events,     \* storage events not yet handled, per tab
    requests,   \* the wallet requests
    persisted,  \* the string onPersistState got last: the application's cookie
    calls       \* how many bounded calls were made

vars == <<open, state, config, storage, events, requests, persisted, calls>>

Phases == {"new", "wallet", "persisting", "token", "popup", "ended"}

RequestType ==
    [phase : Phases, tab : Tabs, captured : Seq(Accounts)]

TypeOK ==
    /\ open \subseteq Tabs
    /\ state \in [Tabs -> States]
    /\ config \in [Tabs -> Callbacks]
    /\ storage \in Strings \cup {NoItem}
    /\ events \in [Tabs -> Seq(Strings \cup {NoItem})]
    /\ requests \in [Requests -> RequestType]
    /\ persisted \in Strings \cup {NoItem}
    /\ calls \in 0..MaxCalls

Init ==
    /\ open = {}
    /\ state = [t \in Tabs |-> DefaultState(InitCallbacks)]
    /\ config = [t \in Tabs |-> InitCallbacks]
    /\ storage = NoItem
    /\ events = [t \in Tabs |-> <<>>]
    /\ requests \in [Requests -> [phase : {"new"}, tab : Tabs, captured : {<<>>}]]
    /\ persisted = NoItem
    /\ calls = 0

-----------------------------------------------------------------------------
(* Storage and the events of its changes.                                   *)

Listening(t) == t \in open /\ t \in SyncTabs

\* The item goes from old to new, written by tab t.
Notify(evs, t, old, new) ==
    IF old = new
    THEN evs
    ELSE [u \in Tabs |-> IF u # t /\ Listening(u) THEN Append(evs[u], new) ELSE evs[u]]

\* A setState that bypasses the persist middleware.
SetStateUnpersisted(t, s) ==
    /\ state' = [state EXCEPT ![t] = s]
    /\ UNCHANGED <<storage, events>>

\* setState: the store, then the middleware's setItem.
SetState(t, s) ==
    /\ state' = [state EXCEPT ![t] = s]
    /\ storage' = Serialize(s)
    /\ events' = Notify(events, t, storage, Serialize(s))

\* No storage event is under way and no onPersistState promise is open.
AtRest ==
    /\ \A t \in Tabs : events[t] = <<>>
    /\ \A r \in Requests : requests[r].phase # "persisting"

\* A user does something in tab t, or answers the wallet there.
UserActs(t) ==
    /\ t \in open
    /\ UsersWait => AtRest

CountCall ==
    /\ calls < MaxCalls
    /\ calls' = calls + 1

\* persist(): the onPersistState slot, whatever function is in it, is called
\* with the dehydrated state.  Only a real persist callback keeps the string.
Persist(s) ==
    persisted' = IF s.callbacks["onPersistState"] = "onPersistState"
                 THEN Serialize(s)
                 ELSE persisted

-----------------------------------------------------------------------------
(* Page loads.                                                              *)

\* new MicroStacksClient(config): the state is hydrated from the storage or,
\* when it holds nothing, from config.dehydratedState, and written back.
Construct(t, dehydrated) ==
    LET str == IF storage # NoItem THEN storage ELSE dehydrated
        s == Hydrate(str, InitCallbacks)
    IN  /\ state' = [state EXCEPT ![t] = s]
        /\ storage' = Serialize(s)
        /\ events' = [Notify(events, t, storage, Serialize(s)) EXCEPT ![t] = <<>>]

OpenTab(t) ==
    /\ t \notin open
    /\ CountCall
    /\ \E dehydrated \in {NoItem, persisted} : Construct(t, dehydrated)
    /\ open' = open \cup {t}
    /\ config' = [config EXCEPT ![t] = InitCallbacks]
    /\ UNCHANGED <<requests, persisted>>

\* The page goes away with its events and whatever its requests waited for.
CloseTab(t) ==
    /\ t \in open
    /\ open' = open \ {t}
    /\ events' = [events EXCEPT ![t] = <<>>]
    /\ requests' = [r \in Requests |->
                      IF requests[r].tab = t /\ requests[r].phase # "new"
                      THEN [requests[r] EXCEPT !.phase = "ended"]
                      ELSE requests[r]]
    /\ UNCHANGED <<state, config, storage, persisted, calls>>

\* An onStorageUpdate that drops what it read.
StorageEventDropped(t) ==
    /\ events[t] # <<>>
    /\ events' = [events EXCEPT ![t] = Tail(@)]
    /\ UNCHANGED <<open, state, config, storage, requests, persisted, calls>>

\* onStorageUpdate
StorageEvent(t) ==
    /\ events[t] # <<>>
    /\ LET s == Hydrate(Head(events[t]), config[t])
       IN  /\ state' = [state EXCEPT ![t] = s]
           /\ storage' = Serialize(s)
           /\ events' = [Notify(events, t, storage, Serialize(s)) EXCEPT ![t] = Tail(@)]
    /\ UNCHANGED <<open, config, requests, persisted, calls>>

-----------------------------------------------------------------------------
(* Settings.                                                                *)

\* The config field each setter writes next to the state's.
ConfigSlot(slot) == IF slot = "onNoWalletFound" THEN "onPersistState" ELSE slot

SetCallback(t, slot) ==
    /\ UserActs(t) /\ CountCall
    /\ SetState(t, [state[t] EXCEPT !.callbacks[slot] = slot])
    /\ config' = [config EXCEPT ![t][ConfigSlot(slot)] = slot]
    /\ UNCHANGED <<open, requests, persisted>>

SetNetwork(t, network) ==
    /\ UserActs(t) /\ CountCall
    /\ EnableNetworkSwitching
    /\ SetState(t, [state[t] EXCEPT !.network = network])
    /\ Persist([state[t] EXCEPT !.network = network])
    /\ UNCHANGED <<open, config, requests>>

-----------------------------------------------------------------------------
(* Sign out: the item is removed, the application told, the state reset     *)
(* (and so the item written again).  When onSignOut throws, the reset does  *)
(* not happen.                                                              *)

Throws(s, slot) == CallbacksThrow /\ s.callbacks[slot] # NoCallback

\* A sign out that removes the item last.
SignOutClearsLast(t) ==
    /\ UserActs(t) /\ CountCall
    /\ state' = [state EXCEPT ![t] = ResetState(@)]
    /\ storage' = NoItem
    /\ events' = Notify(events, t, storage, NoItem)
    /\ UNCHANGED <<open, config, requests, persisted>>

SignOut(t) ==
    /\ UserActs(t) /\ CountCall
    /\ LET s == ResetState(state[t])
       IN  /\ state' = [state EXCEPT ![t] = s]
           /\ storage' = Serialize(s)
           /\ events' = Notify(Notify(events, t, storage, NoItem), t, NoItem, Serialize(s))
    /\ UNCHANGED <<open, config, requests, persisted>>

SignOutThrows(t) ==
    /\ UserActs(t) /\ CountCall
    /\ Throws(state[t], "onSignOut")
    /\ storage' = NoItem
    /\ events' = Notify(events, t, storage, NoItem)
    /\ UNCHANGED <<open, state, config, requests, persisted>>

-----------------------------------------------------------------------------
(* Authentication.                                                          *)

Goto(r, phase) == requests' = [requests EXCEPT ![r].phase = phase]

MakesRequest(t, r) ==
    /\ UserActs(t)
    /\ requests[r].phase = "new"
    /\ requests[r].tab = t

\* authenticate(), up to the wallet's prompt.
Authenticate(t, r) ==
    /\ MakesRequest(t, r)
    /\ KeyOf[r] = "Authentication"
    /\ SetState(t, SetStatus(state[t], KeyOf[r], "IsLoading"))
    /\ requests' = [requests EXCEPT ![r].phase = "wallet", ![r].captured = state[t].accounts]
    /\ UNCHANGED <<open, config, persisted, calls>>

\* The wallet answers: onFinish, up to the await of persist().
AuthFinish(r, address) ==
    LET t == requests[r].tab
        s == AddAccount(state[t], requests[r].captured, address)
    IN  /\ requests[r].phase = "wallet"
        /\ UserActs(t)
        /\ SetState(t, s)
        /\ Persist(s)
        /\ Goto(r, "persisting")
        /\ UNCHANGED <<open, config, calls>>

\* params.onFinish or onAuthentication throws: nobody awaits onFinish, and
\* neither persist() nor setIsIdle is reached.
AuthFinishThrows(r, address) ==
    LET t == requests[r].tab
    IN  /\ CallbacksThrow
        /\ requests[r].phase = "wallet"
        /\ UserActs(t)
        /\ SetState(t, AddAccount(state[t], requests[r].captured, address))
        /\ Goto(r, "ended")
        /\ UNCHANGED <<open, config, persisted, calls>>

\* A cancelled request that leaves the status alone.
AuthCancelSilent(r) ==
    /\ requests[r].phase = "wallet"
    /\ UserActs(requests[r].tab)
    /\ Goto(r, "ended")
    /\ UNCHANGED <<open, state, config, storage, events, persisted, calls>>

AuthCancel(r) ==
    LET t == requests[r].tab
    IN  /\ requests[r].phase = "wallet"
        /\ UserActs(t)
        /\ SetState(t, SetStatus(state[t], KeyOf[r], "IsIdle"))
        /\ Goto(r, "ended")
        /\ UNCHANGED <<open, config, persisted, calls>>

\* The promise of the application's onPersistState settles.
PersistResolves(r) ==
    LET t == requests[r].tab
    IN  /\ requests[r].phase = "persisting"
        /\ SetState(t, SetStatus(state[t], KeyOf[r], "IsIdle"))
        /\ Goto(r, "ended")
        /\ UNCHANGED <<open, config, persisted, calls>>

PersistRejects(r) ==
    /\ requests[r].phase = "persisting"
    /\ Throws(state[requests[r].tab], "onPersistState")
    /\ Goto(r, "ended")
    /\ UNCHANGED <<open, state, config, storage, events, persisted, calls>>

-----------------------------------------------------------------------------
(* signTransaction, signPSBT, signMessage and signStructuredMessage.        *)

Sign(t, r) ==
    /\ MakesRequest(t, r)
    /\ KeyOf[r] # "Authentication"
    /\ SelectAccountDefined(state[t])
    /\ SetState(t, SetStatus(state[t], KeyOf[r], "IsLoading"))
    /\ Goto(r, "token")
    /\ UNCHANGED <<open, config, persisted, calls>>

TokenMade(r) ==
    /\ requests[r].phase = "token"
    /\ Goto(r, "popup")
    /\ UNCHANGED <<open, state, config, storage, events, persisted, calls>>

\* signTransaction rejects; the other three only log.  None calls a handler.
TokenFails(r) ==
    /\ TokensFail
    /\ requests[r].phase = "token"
    /\ Goto(r, "ended")
    /\ UNCHANGED <<open, state, config, storage, events, persisted, calls>>

\* The wallet signs, refuses or has no such method, or onFinish throws and
\* the popup calls onCancel: each way setIsIdle runs.
PopupSettles(r) ==
    LET t == requests[r].tab
    IN  /\ requests[r].phase = "popup"
        /\ UserActs(t)
        /\ SetState(t, SetStatus(state[t], KeyOf[r], "IsIdle"))
        /\ Goto(r, "ended")
        /\ UNCHANGED <<open, config, persisted, calls>>

\* params.onCancel throws before setIsIdle.
PopupCancelThrows(r) ==
    /\ CallbacksThrow
    /\ requests[r].phase = "popup"
    /\ UserActs(requests[r].tab)
    /\ Goto(r, "ended")
    /\ UNCHANGED <<open, state, config, storage, events, persisted, calls>>

-----------------------------------------------------------------------------
RequestSteps(r) ==
    \/ \E address \in Addresses : AuthFinish(r, address) \/ AuthFinishThrows(r, address)
    \/ AuthCancel(r) \/ PersistResolves(r) \/ PersistRejects(r)
    \/ TokenMade(r) \/ TokenFails(r) \/ PopupSettles(r) \/ PopupCancelThrows(r)

TabSteps(t) ==
    \/ OpenTab(t) \/ CloseTab(t) \/ StorageEvent(t)
    \/ SignOut(t) \/ SignOutThrows(t)
    \/ \E slot \in Slots : SetCallback(t, slot)
    \/ \E network \in Networks : SetNetwork(t, network)
    \/ \E r \in Requests : Authenticate(t, r) \/ Sign(t, r)

Next ==
    \/ \E t \in Tabs : TabSteps(t)
    \/ \E r \in Requests : RequestSteps(r)

Spec == Init /\ [][Next]_vars

\* The event loop of each tab handles its storage events, the crypto that makes a
\* token ends, and so does the promise of onPersistState.  Nothing obliges a
\* user to act or to answer the wallet's prompt.
Fairness ==
    /\ \A t \in Tabs : WF_vars(StorageEvent(t))
    /\ \A r \in Requests : WF_vars(PersistResolves(r)) /\ WF_vars(TokenMade(r))

FairSpec == Spec /\ Fairness
-----------------------------------------------------------------------------
(* Properties.                                                              *)

\* What the selectors show of a session, in whatever tab.
Shown(s) ==
    <<[i \in DOMAIN s.accounts |-> s.accounts[i].address], s.currentAccountIndex, s.network>>

\* Tab synchronisation (onStorageUpdate): two synchronised tabs that have no
\* storage event left to handle show the same session, however the writes and
\* the events of the tabs interleave and whatever callback throws.
TabsAgree ==
    \A t, u \in open \cap SyncTabs :
        events[t] = <<>> /\ events[u] = <<>> => Shown(state[t]) = Shown(state[u])

\* A synchronised tab with nothing left to handle shows what a reload would
\* find in the storage (unless a throwing onSignOut left nothing there).
QuietTabIsStored ==
    \A t \in open \cap SyncTabs :
        events[t] = <<>> => storage \in {NoItem, Serialize(state[t])}

\* selectAccount is defined whenever selectHasSession is true: after late
\* wallet answers, sign outs in between, reloads and other tabs' events.
CurrentAccountExists ==
    \A t \in open : SelectHasSession(state[t]) => SelectAccountDefined(state[t])

Pending(t, k) ==
    \E r \in Requests : /\ requests[r].tab = t /\ KeyOf[r] = k
                        /\ requests[r].phase \notin {"new", "ended"}

\* A status never stays IsLoading once its last request ended: setIsIdle is
\* reached on every way out of a request (given callbacks and token makers that
\* do not throw).
NothingPendingMeansIdle ==
    \A t \in open, k \in StatusKeys :
        state[t].statuses[k] = "IsLoading" => Pending(t, k)

\* A status is IsLoading while a request of its kind is open, unless another of
\* the same kind ended: no sign out, setter, network switch, request of another
\* kind or answer to one resets it.
PendingMeansLoading ==
    \A t \in open, r \in Requests :
        /\ requests[r].tab = t /\ requests[r].phase \notin {"new", "ended"}
        /\ \A other \in Requests : KeyOf[other] = KeyOf[r] => requests[other].phase # "ended"
        => state[t].statuses[KeyOf[r]] = "IsLoading"

SignedIn(item) == item # NoItem /\ item.accounts # <<>>

FromWallet ==
    ~SignedIn(storage) /\ SignedIn(storage') =>
        \E r \in Requests : requests[r].phase = "wallet" /\ requests'[r].phase = "persisting"

\* The stored session goes from signed out to signed in only in the step in
\* which a wallet answers an authentication request; a status change, a
\* reload or a setter never brings a signed-out session back.
SessionOnlyFromWallet == [][FromWallet]_vars

\* The session in the storage; an absent item reads as the initial session.
Stored == IF storage # NoItem THEN storage ELSE Serialize(DefaultState(InitCallbacks))

Session == INSTANCE StacksSession WITH session <- Stored, InitNetwork <- ConfigNetwork

\* The session that a single tab stores goes the ways StacksSession allows: whatever
\* requests are open, answered late or cut off by a sign out or a page load.
StoredSessionSpec == Session!Spec

\* client-provider.tsx, useTabSyncEffect: "This hook will sync data between tabs
\* on events that change the persisted state".  Once the users have done all they
\* do, synchronised tabs come to show the same session and stay so: tabs do not
\* answer each other's writes with writes for ever.
TabsConverge ==
    <>[](\A t, u \in open \cap SyncTabs : Shown(state[t]) = Shown(state[u]))
=============================================================================
