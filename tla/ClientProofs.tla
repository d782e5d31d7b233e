---------------------------- MODULE ClientProofs ----------------------------
(***************************************************************************)
(* Proofs about MicroStacksClient, for any set of tabs, requests, accounts   *)
(* and networks, and whatever callback throws: its type invariant, and that  *)
(* synchronised tabs with no event left to handle agree with the storage and *)
(* with each other.  Then, for a client that runs in one tab with callbacks  *)
(* that do not throw: the session it stores goes the ways StacksSession      *)
(* allows, nothing but the wallet's answer signs it in, and the statuses     *)
(* follow the requests that are open.                                        *)
(***************************************************************************)
EXTENDS MicroStacksClient, SequenceTheorems, TLAPS

-----------------------------------------------------------------------------
(* The pure part.                                                           *)

LEMMA ElementType ==
    ASSUME NEW S, NEW s \in Seq(S), NEW i \in DOMAIN s
    PROVE  s[i] \in S
OBVIOUS

\* serialize yields a string, and only the session matters to it.
LEMMA SerializeType ==
    ASSUME NEW s \in States
    PROVE  Serialize(s) \in Strings
<1> DEFINE list == [i \in DOMAIN s.accounts |-> s.accounts[i].address]
<1>1. s.accounts \in Seq(Accounts) /\ s.currentAccountIndex \in Nat /\ s.network \in Networks
  BY DEF States
<1>2. DOMAIN s.accounts = 1..Len(s.accounts) /\ Len(s.accounts) \in Nat
  BY <1>1
<1>3. \A i \in DOMAIN s.accounts : s.accounts[i].address \in Addresses
  <2> TAKE i \in DOMAIN s.accounts
  <2>1. s.accounts[i] \in Accounts
    BY <1>1, ElementType
  <2> QED
    BY <2>1 DEF Accounts
<1>4. list \in [1..Len(s.accounts) -> Addresses]
  BY <1>2, <1>3
<1>5. list \in Seq(Addresses)
  BY <1>2, <1>4
<1> QED
  BY <1>1, <1>5 DEF Serialize, Strings

LEMMA DefaultStateType ==
    ASSUME NEW callbacks \in Callbacks
    PROVE  DefaultState(callbacks) \in States
<1>1. <<>> \in Seq(Accounts)
  OBVIOUS
<1>2. [k \in StatusKeys |-> IF k = "PsbtSigning" THEN "unset" ELSE "IsIdle"]
        \in [StatusKeys -> Statuses]
  BY DEF Statuses
<1> QED
  BY <1>1, <1>2, NetworkAssumption DEF DefaultState, States

LEMMA HydrateType ==
    ASSUME NEW str \in Strings \cup {NoItem}, NEW callbacks \in Callbacks
    PROVE  Hydrate(str, callbacks) \in States
<1>1. CASE str = NoItem
  BY <1>1, DefaultStateType DEF Hydrate
<1>2. CASE str # NoItem
  <2> DEFINE list == [i \in DOMAIN str.accounts |->
                        [address |-> str.accounts[i], hasDid |-> FALSE]]
  <2>1. str.accounts \in Seq(Addresses) /\ str.currentAccountIndex \in Nat
        /\ str.network \in Networks
    BY <1>2 DEF Strings
  <2>2. DOMAIN str.accounts = 1..Len(str.accounts) /\ Len(str.accounts) \in Nat
    BY <2>1
  <2>3. \A i \in DOMAIN str.accounts : str.accounts[i] \in Addresses
    BY <2>1, ElementType
  <2>4. list \in [1..Len(str.accounts) -> Accounts]
    BY <2>2, <2>3 DEF Accounts
  <2>5. list \in Seq(Accounts)
    BY <2>2, <2>4
  <2> HIDE DEF list
  <2>6. Hydrate(str, callbacks) =
          [DefaultState(callbacks) EXCEPT !.accounts = list,
             !.currentAccountIndex = str.currentAccountIndex, !.network = str.network]
    BY <1>2 DEF Hydrate, list
  <2> QED
    BY <2>1, <2>5, <2>6, DefaultStateType DEF States
<1> QED
  BY <1>1, <1>2

LEMMA ResetStateType ==
    ASSUME NEW s \in States
    PROVE  ResetState(s) \in States
<1>1. <<>> \in Seq(Accounts)
  OBVIOUS
<1> QED
  BY <1>1 DEF ResetState, States

LEMMA SetStatusType ==
    ASSUME NEW s \in States, NEW key \in StatusKeys, NEW status \in Statuses
    PROVE  SetStatus(s, key, status) \in States
BY DEF SetStatus, States

LEMMA AddAccountType ==
    ASSUME NEW s \in States, NEW captured, NEW address \in Addresses
    PROVE  AddAccount(s, captured, address) \in States
<1>1. ~HasAccount(captured, address)
  BY DEF HasAccount, SameAddress
<1>2. [address |-> address, hasDid |-> TRUE] \in Accounts
  BY DEF Accounts
<1>3. Append(s.accounts, [address |-> address, hasDid |-> TRUE]) \in Seq(Accounts)
      /\ Len(s.accounts) \in Nat
  BY <1>2 DEF States
<1> QED
  BY <1>1, <1>3 DEF AddAccount, States

-----------------------------------------------------------------------------
(* Type correctness.                                                        *)

Items == Strings \cup {NoItem}

LEMMA NotifyType ==
    ASSUME NEW evs \in [Tabs -> Seq(Items)], NEW t, NEW old, NEW new \in Items
    PROVE  Notify(evs, t, old, new) \in [Tabs -> Seq(Items)]
<1>1. \A u \in Tabs : Append(evs[u], new) \in Seq(Items)
  OBVIOUS
<1> QED
  BY <1>1 DEF Notify

\* The variables that a setState changes keep their types.
LEMMA SetStateType ==
    ASSUME TypeOK, NEW t \in Tabs, NEW s \in States, SetState(t, s)
    PROVE  /\ state' \in [Tabs -> States]
           /\ storage' \in Strings
           /\ events' \in [Tabs -> Seq(Items)]
<1>1. Serialize(s) \in Strings
  BY SerializeType
<1>2. events \in [Tabs -> Seq(Items)]
  BY DEF TypeOK, Items
<1>3. Notify(events, t, storage, Serialize(s)) \in [Tabs -> Seq(Items)]
  BY <1>1, <1>2, NotifyType DEF Items
<1> QED
  BY <1>1, <1>3 DEF SetState, TypeOK

\* So do those that a page load changes.
LEMMA ConstructType ==
    ASSUME TypeOK, NEW t \in Tabs, NEW dehydrated \in Items, Construct(t, dehydrated)
    PROVE  /\ state' \in [Tabs -> States]
           /\ storage' = Serialize(state'[t])
           /\ storage' \in Strings
           /\ events' \in [Tabs -> Seq(Items)]
<1> DEFINE str == IF storage # NoItem THEN storage ELSE dehydrated
           s == Hydrate(str, InitCallbacks)
           evs == Notify(events, t, storage, Serialize(s))
<1>1. str \in Items
  BY DEF TypeOK, Items
<1>2. s \in States
  BY <1>1, HydrateType, ClientAssumption DEF Items
<1>3. Serialize(s) \in Strings
  BY <1>2, SerializeType
<1>4. evs \in [Tabs -> Seq(Items)]
  BY <1>3, NotifyType DEF TypeOK, Items
<1>5. <<>> \in Seq(Items)
  OBVIOUS
<1>6. state' = [state EXCEPT ![t] = s] /\ storage' = Serialize(s)
      /\ events' = [evs EXCEPT ![t] = <<>>]
  BY DEF Construct
<1> HIDE DEF s, evs
<1> QED
  BY <1>2, <1>3, <1>4, <1>5, <1>6 DEF TypeOK

LEMMA StorageEventType ==
    ASSUME TypeOK, NEW t \in Tabs, StorageEvent(t)
    PROVE  /\ state' \in [Tabs -> States]
           /\ storage' = Serialize(state'[t])
           /\ storage' \in Strings
           /\ events' \in [Tabs -> Seq(Items)]
<1> DEFINE s == Hydrate(Head(events[t]), config[t])
           evs == Notify(events, t, storage, Serialize(s))
<1>1. events \in [Tabs -> Seq(Items)] /\ events[t] # <<>>
  BY DEF TypeOK, Items, StorageEvent
<1>2. Head(events[t]) \in Items
  BY <1>1
<1>3. s \in States
  BY <1>2, HydrateType DEF TypeOK, Items
<1>4. Serialize(s) \in Strings
  BY <1>3, SerializeType
<1>5. evs \in [Tabs -> Seq(Items)]
  BY <1>1, <1>4, NotifyType DEF Items
<1>6. evs[t] = events[t]
  BY <1>1 DEF Notify
<1>7. Tail(evs[t]) \in Seq(Items)
  BY <1>1, <1>6
<1>8. state' = [state EXCEPT ![t] = s] /\ storage' = Serialize(s)
      /\ events' = [evs EXCEPT ![t] = Tail(@)]
  BY DEF StorageEvent
<1> HIDE DEF s, evs
<1> QED
  BY <1>3, <1>4, <1>5, <1>7, <1>8 DEF TypeOK

LEMMA SignOutType ==
    ASSUME TypeOK, NEW t \in Tabs, SignOut(t)
    PROVE  /\ state' \in [Tabs -> States]
           /\ storage' = Serialize(state'[t])
           /\ storage' \in Strings
           /\ events' \in [Tabs -> Seq(Items)]
<1> DEFINE s == ResetState(state[t])
<1>1. s \in States
  BY ResetStateType DEF TypeOK
<1>2. Serialize(s) \in Strings
  BY <1>1, SerializeType
<1>3. Notify(events, t, storage, NoItem) \in [Tabs -> Seq(Items)]
  BY NotifyType DEF TypeOK, Items
<1>4. Notify(Notify(events, t, storage, NoItem), t, NoItem, Serialize(s))
        \in [Tabs -> Seq(Items)]
  BY <1>2, <1>3, NotifyType DEF Items
<1>5. state' = [state EXCEPT ![t] = s] /\ storage' = Serialize(s)
      /\ events' = Notify(Notify(events, t, storage, NoItem), t, NoItem, Serialize(s))
  BY DEF SignOut
<1> HIDE DEF s
<1> QED
  BY <1>1, <1>2, <1>4, <1>5 DEF TypeOK

LEMMA PersistType ==
    ASSUME TypeOK, NEW s \in States, Persist(s)
    PROVE  persisted' \in Items
BY SerializeType DEF Persist, TypeOK, Items

LEMMA CountCallType ==
    ASSUME TypeOK, CountCall
    PROVE  calls' \in 0..MaxCalls
BY ClientAssumption DEF CountCall, TypeOK

LEMMA GotoType ==
    ASSUME TypeOK, NEW r \in Requests, NEW phase \in Phases, Goto(r, phase)
    PROVE  requests' \in [Requests -> RequestType]
BY DEF Goto, TypeOK, RequestType

LEMMA TypeInit == Init => TypeOK
<1> SUFFICES ASSUME Init PROVE TypeOK
  OBVIOUS
<1>1. DefaultState(InitCallbacks) \in States
  BY DefaultStateType, ClientAssumption
<1>2. requests \in [Requests -> RequestType]
  <2>1. [phase : {"new"}, tab : Tabs, captured : {<<>>}] \subseteq RequestType
    <3>1. <<>> \in Seq(Accounts)
      OBVIOUS
    <3> QED
      BY <3>1 DEF RequestType, Phases
  <2> QED
    BY <2>1 DEF Init
<1>3. <<>> \in Seq(Strings \cup {NoItem})
  OBVIOUS
<1> QED
  BY <1>1, <1>2, <1>3, ClientAssumption DEF Init, TypeOK

LEMMA TypeTabSteps ==
    ASSUME TypeOK, NEW t \in Tabs, TabSteps(t)
    PROVE  TypeOK'
<1>1. CASE OpenTab(t)
  <2>1. PICK dehydrated \in {NoItem, persisted} : Construct(t, dehydrated)
    BY <1>1 DEF OpenTab
  <2>2. dehydrated \in Items
    BY <2>1 DEF TypeOK, Items
  <2> QED
    BY <1>1, <2>1, <2>2, ConstructType, CountCallType, ClientAssumption
    DEF OpenTab, TypeOK, Items
<1>2. CASE CloseTab(t)
  <2>1. requests' \in [Requests -> RequestType]
    BY <1>2 DEF CloseTab, TypeOK, RequestType, Phases
  <2>2. <<>> \in Seq(Strings \cup {NoItem})
    OBVIOUS
  <2> QED
    BY <1>2, <2>1, <2>2 DEF CloseTab, TypeOK
<1>3. CASE StorageEvent(t)
  <2>1. UNCHANGED <<open, config, requests, persisted, calls>>
    BY <1>3 DEF StorageEvent
  <2> QED
    BY <1>3, <2>1, StorageEventType DEF TypeOK, Items
<1>4. CASE SignOut(t)
  <2>1. CountCall /\ UNCHANGED <<open, config, requests, persisted>>
    BY <1>4 DEF SignOut
  <2> QED
    BY <1>4, <2>1, SignOutType, CountCallType DEF TypeOK, Items
<1>5. CASE SignOutThrows(t)
  <2>1. events' \in [Tabs -> Seq(Items)]
    BY <1>5, NotifyType DEF SignOutThrows, TypeOK, Items
  <2> QED
    BY <1>5, <2>1, CountCallType DEF SignOutThrows, TypeOK, Items
<1>6. ASSUME NEW slot \in Slots, SetCallback(t, slot)
      PROVE  TypeOK'
  <2> DEFINE s == [state[t] EXCEPT !.callbacks[slot] = slot]
  <2>1. s \in States
    BY DEF TypeOK, States, Callbacks
  <2>2. SetState(t, s) /\ CountCall /\ UNCHANGED <<open, requests, persisted>>
        /\ config' = [config EXCEPT ![t][ConfigSlot(slot)] = slot]
    BY <1>6 DEF SetCallback
  <2>3. config' \in [Tabs -> Callbacks]
    BY <2>2 DEF TypeOK, Callbacks, ConfigSlot, Slots
  <2> HIDE DEF s
  <2> QED
    BY <2>1, <2>2, <2>3, SetStateType, CountCallType DEF TypeOK, Items
<1>7. ASSUME NEW network \in Networks, SetNetwork(t, network)
      PROVE  TypeOK'
  <2> DEFINE s == [state[t] EXCEPT !.network = network]
  <2>1. s \in States
    BY DEF TypeOK, States
  <2>2. SetState(t, s) /\ Persist(s) /\ CountCall /\ UNCHANGED <<open, config, requests>>
    BY <1>7 DEF SetNetwork
  <2> HIDE DEF s
  <2> QED
    BY <2>1, <2>2, SetStateType, PersistType, CountCallType DEF TypeOK, Items
<1>8. ASSUME NEW r \in Requests, Authenticate(t, r)
      PROVE  TypeOK'
  <2> DEFINE s == SetStatus(state[t], KeyOf[r], "IsLoading")
  <2>1. s \in States
    BY SetStatusType, ClientAssumption DEF TypeOK, Statuses
  <2>2. SetState(t, s) /\ UNCHANGED <<open, config, persisted, calls>>
        /\ requests' = [requests EXCEPT ![r].phase = "wallet",
                                        ![r].captured = state[t].accounts]
    BY <1>8 DEF Authenticate
  <2>3. state[t].accounts \in Seq(Accounts)
    BY DEF TypeOK, States
  <2>4. requests' \in [Requests -> RequestType]
    BY <2>2, <2>3 DEF TypeOK, RequestType, Phases
  <2> HIDE DEF s
  <2> QED
    BY <2>1, <2>2, <2>4, SetStateType DEF TypeOK, Items
<1>9. ASSUME NEW r \in Requests, Sign(t, r)
      PROVE  TypeOK'
  <2> DEFINE s == SetStatus(state[t], KeyOf[r], "IsLoading")
  <2>1. s \in States
    BY SetStatusType, ClientAssumption DEF TypeOK, Statuses
  <2>2. SetState(t, s) /\ Goto(r, "token") /\ UNCHANGED <<open, config, persisted, calls>>
    BY <1>9 DEF Sign
  <2>3. requests' \in [Requests -> RequestType]
    BY <2>2, GotoType DEF Phases
  <2> HIDE DEF s
  <2> QED
    BY <2>1, <2>2, <2>3, SetStateType DEF TypeOK, Items
<1> QED
  BY <1>1, <1>2, <1>3, <1>4, <1>5, <1>6, <1>7, <1>8, <1>9 DEF TabSteps

LEMMA TypeRequestSteps ==
    ASSUME TypeOK, NEW r \in Requests, RequestSteps(r)
    PROVE  TypeOK'
<1> DEFINE t == requests[r].tab
<1>1. t \in Tabs /\ state[t] \in States
  BY DEF TypeOK, RequestType
<1>2. ASSUME NEW address \in Addresses, AuthFinish(r, address) \/ AuthFinishThrows(r, address)
      PROVE  TypeOK'
  <2> DEFINE s == AddAccount(state[t], requests[r].captured, address)
  <2>1. s \in States
    BY <1>1, AddAccountType
  <2>2. SetState(t, s) /\ UNCHANGED <<open, config, calls>>
        /\ \E phase \in Phases : Goto(r, phase)
        /\ (Persist(s) \/ UNCHANGED persisted)
    BY <1>2 DEF AuthFinish, AuthFinishThrows, Phases
  <2> HIDE DEF s, t
  <2> QED
    BY <1>1, <2>1, <2>2, SetStateType, PersistType, GotoType DEF TypeOK, Items
<1>3. CASE AuthCancel(r) \/ PersistResolves(r) \/ PopupSettles(r)
  <2> DEFINE s == SetStatus(state[t], KeyOf[r], "IsIdle")
  <2>1. s \in States
    BY <1>1, SetStatusType, ClientAssumption DEF Statuses
  <2>2. SetState(t, s) /\ Goto(r, "ended") /\ UNCHANGED <<open, config, persisted, calls>>
    BY <1>3 DEF AuthCancel, PersistResolves, PopupSettles
  <2> HIDE DEF s, t
  <2> QED
    BY <1>1, <2>1, <2>2, SetStateType, GotoType DEF TypeOK, Items, Phases
<1>4. CASE PersistRejects(r) \/ TokenMade(r) \/ TokenFails(r) \/ PopupCancelThrows(r)
  <2>1. /\ \E phase \in Phases : Goto(r, phase)
        /\ UNCHANGED <<open, state, config, storage, events, persisted, calls>>
    BY <1>4 DEF PersistRejects, TokenMade, TokenFails, PopupCancelThrows, Phases
  <2> QED
    BY <2>1, GotoType DEF TypeOK
<1> QED
  BY <1>2, <1>3, <1>4 DEF RequestSteps

\* Every state has its type: in particular each status key keeps a status, the
\* current index is never negative and the storage holds nothing but what
\* serialize made.
THEOREM TypeCorrect == Spec => []TypeOK
<1>1. TypeOK /\ [Next]_vars => TypeOK'
  <2> SUFFICES ASSUME TypeOK, [Next]_vars PROVE TypeOK'
    OBVIOUS
  <2>1. CASE UNCHANGED vars
    BY <2>1 DEF vars, TypeOK
  <2> QED
    BY <2>1, TypeTabSteps, TypeRequestSteps DEF Next
<1> QED
  BY <1>1, TypeInit, PTL DEF Spec

-----------------------------------------------------------------------------
(* Agreement of synchronised tabs.                                          *)
(*                                                                          *)
(* TabsAgree alone is not inductive: nothing would tie a tab with no event  *)
(* left to the writes of the others.  QuietTabIsStored does: such a tab     *)
(* shows the item, so a write either leaves the item, and the tab, as they   *)
(* are or queues an event.                                                  *)

\* Tab t wrote the item and the others did nothing.
Writes(t) ==
    /\ state' = [state EXCEPT ![t] = state'[t]]
    /\ storage' = Serialize(state'[t])
    /\ storage' # NoItem
    /\ open' \subseteq open \cup {t}
    /\ \A u \in open \cap SyncTabs :
         u # t /\ events'[u] = <<>> => events[u] = <<>> /\ storage' = storage

\* A queued event is there: appending never gives an empty queue.
LEMMA NotifyQuiet ==
    ASSUME NEW evs \in [Tabs -> Seq(Items)], NEW t, NEW old, NEW new \in Items,
           NEW u \in open \cap SyncTabs, u # t, u \in Tabs,
           Notify(evs, t, old, new)[u] = <<>>
    PROVE  evs[u] = <<>> /\ old = new
<1>1. evs[u] \in Seq(Items)
  OBVIOUS
<1>2. Append(evs[u], new) # <<>>
  BY <1>1
<1> QED
  BY <1>2 DEF Notify, Listening

LEMMA SameSession ==
    ASSUME NEW s, NEW r
    PROVE  Serialize(s) = Serialize(r) => Shown(s) = Shown(r)
<1> SUFFICES ASSUME Serialize(s) = Serialize(r) PROVE Shown(s) = Shown(r)
  OBVIOUS
<1>1. Serialize(s).accounts = Serialize(r).accounts
      /\ Serialize(s).currentAccountIndex = Serialize(r).currentAccountIndex
      /\ Serialize(s).network = Serialize(r).network
  OBVIOUS
<1> QED
  BY <1>1 DEF Serialize, Shown

LEMMA WritesKeepAgreement ==
    ASSUME TypeOK, QuietTabIsStored, NEW t \in Tabs, Writes(t)
    PROVE  QuietTabIsStored' /\ TabsAgree'
<1>1. ASSUME NEW u \in open' \cap SyncTabs, events'[u] = <<>>
      PROVE  storage' = Serialize(state'[u])
  <2>1. CASE u = t
    BY <2>1 DEF Writes
  <2>2. CASE u # t
    <3>1. u \in open \cap SyncTabs /\ u \in Tabs
      BY <2>2 DEF Writes, TypeOK
    <3>2. events[u] = <<>> /\ storage' = storage
      BY <1>1, <2>2, <3>1 DEF Writes
    <3>3. state'[u] = state[u]
      BY <2>2, <3>1 DEF Writes, TypeOK
    <3> QED
      BY <3>1, <3>2, <3>3 DEF QuietTabIsStored, Writes
  <2> QED
    BY <2>1, <2>2
<1>2. QuietTabIsStored'
  BY <1>1 DEF QuietTabIsStored
<1>3. TabsAgree'
  <2> SUFFICES ASSUME NEW u \in open' \cap SyncTabs, NEW v \in open' \cap SyncTabs,
                      events'[u] = <<>>, events'[v] = <<>>
               PROVE  Shown(state'[u]) = Shown(state'[v])
    BY DEF TabsAgree
  <2> QED
    BY <1>1, SameSession
<1> QED
  BY <1>2, <1>3

\* Every setState is such a write.
LEMMA SetStateWrites ==
    ASSUME TypeOK, NEW t \in Tabs, NEW s \in States, SetState(t, s), open' = open
    PROVE  Writes(t)
<1>1. Serialize(s) \in Strings
  BY SerializeType
<1>2. state'[t] = s /\ storage' = Serialize(s)
      /\ state' = [state EXCEPT ![t] = s]
  BY DEF SetState, TypeOK
<1>3. ASSUME NEW u \in open \cap SyncTabs, u # t, events'[u] = <<>>
      PROVE  events[u] = <<>> /\ storage' = storage
  <2>1. u \in Tabs /\ events \in [Tabs -> Seq(Items)] /\ Serialize(s) \in Items
    BY <1>1 DEF TypeOK, Items
  <2>2. Notify(events, t, storage, Serialize(s))[u] = <<>>
    BY <1>3 DEF SetState
  <2> QED
    BY <1>2, <1>3, <2>1, <2>2, NotifyQuiet
<1> QED
  BY <1>1, <1>2, <1>3, NoItemAssumption DEF Writes

LEMMA OpenTabWrites ==
    ASSUME TypeOK, NEW t \in Tabs, OpenTab(t)
    PROVE  Writes(t)
<1>1. PICK dehydrated \in {NoItem, persisted} : Construct(t, dehydrated)
  BY DEF OpenTab
<1>2. dehydrated \in Items
  BY <1>1 DEF TypeOK, Items
<1>3. storage' = Serialize(state'[t]) /\ storage' \in Strings
  BY <1>1, <1>2, ConstructType
<1>4. state' = [state EXCEPT ![t] = state'[t]]
  BY <1>1 DEF Construct, TypeOK
<1>5. ASSUME NEW u \in open \cap SyncTabs, u # t, events'[u] = <<>>
      PROVE  events[u] = <<>> /\ storage' = storage
  <2>1. u \in Tabs
    BY DEF TypeOK
  <2>2. events'[u] = Notify(events, t, storage, storage')[u]
    BY <1>1, <1>5, <2>1 DEF Construct, Notify, TypeOK
  <2>3. events \in [Tabs -> Seq(Items)] /\ storage' \in Items
    BY <1>3 DEF TypeOK, Items
  <2> QED
    BY <1>5, <2>1, <2>2, <2>3, NotifyQuiet
<1> QED
  BY <1>3, <1>4, <1>5, NoItemAssumption DEF Writes, OpenTab

LEMMA StorageEventWrites ==
    ASSUME TypeOK, NEW t \in Tabs, StorageEvent(t)
    PROVE  Writes(t)
<1>1. storage' = Serialize(state'[t]) /\ storage' \in Strings
  BY StorageEventType
<1>2. state' = [state EXCEPT ![t] = state'[t]] /\ open' = open
  BY DEF StorageEvent, TypeOK
<1>3. ASSUME NEW u \in open \cap SyncTabs, u # t, events'[u] = <<>>
      PROVE  events[u] = <<>> /\ storage' = storage
  <2>1. u \in Tabs
    BY DEF TypeOK
  <2>2. events'[u] = Notify(events, t, storage, storage')[u]
    BY <1>3, <2>1 DEF StorageEvent, Notify, TypeOK
  <2>3. events \in [Tabs -> Seq(Items)] /\ storage' \in Items
    BY <1>1 DEF TypeOK, Items
  <2> QED
    BY <1>3, <2>1, <2>2, <2>3, NotifyQuiet
<1> QED
  BY <1>1, <1>2, <1>3, NoItemAssumption DEF Writes

\* A sign out writes twice: the item is gone in between, so every other
\* listening tab has at least the second write queued.
LEMMA SignOutWrites ==
    ASSUME TypeOK, NEW t \in Tabs, SignOut(t)
    PROVE  Writes(t)
<1> DEFINE first == Notify(events, t, storage, NoItem)
<1>1. storage' = Serialize(state'[t]) /\ storage' \in Strings
  BY SignOutType
<1>2. state' = [state EXCEPT ![t] = state'[t]] /\ open' = open
  BY DEF SignOut, TypeOK
<1>3. first \in [Tabs -> Seq(Items)]
  BY NotifyType DEF TypeOK, Items
<1>4. events' = Notify(first, t, NoItem, storage')
  BY DEF SignOut
<1> HIDE DEF first
<1>5. ASSUME NEW u \in open \cap SyncTabs, u # t, events'[u] = <<>>
      PROVE  FALSE
  <2>1. u \in Tabs
    BY DEF TypeOK
  <2> QED
    BY <1>1, <1>3, <1>4, <1>5, <2>1, NotifyQuiet, NoItemAssumption DEF Items
<1> QED
  BY <1>1, <1>2, <1>5, NoItemAssumption DEF Writes

\* A throwing onSignOut leaves no item: the others are told, unless there was none.
LEMMA SignOutThrowsKeepsAgreement ==
    ASSUME TypeOK, QuietTabIsStored, TabsAgree, NEW t \in Tabs, SignOutThrows(t)
    PROVE  QuietTabIsStored' /\ TabsAgree'
<1>1. storage' = NoItem /\ UNCHANGED <<open, state>>
      /\ events' = Notify(events, t, storage, NoItem)
  BY DEF SignOutThrows
<1>2. QuietTabIsStored'
  BY <1>1 DEF QuietTabIsStored
<1>3. ASSUME NEW u \in open \cap SyncTabs, u # t, events'[u] = <<>>
      PROVE  events[u] = <<>>
  <2>1. u \in Tabs /\ events \in [Tabs -> Seq(Items)] /\ NoItem \in Items
    BY DEF TypeOK, Items
  <2> QED
    BY <1>1, <1>3, <2>1, NotifyQuiet
<1>4. events'[t] = events[t]
  BY <1>1 DEF Notify, TypeOK
<1>5. TabsAgree'
  BY <1>1, <1>3, <1>4 DEF TabsAgree
<1> QED
  BY <1>2, <1>5

LEMMA CloseTabKeepsAgreement ==
    ASSUME TypeOK, QuietTabIsStored, TabsAgree, NEW t \in Tabs, CloseTab(t)
    PROVE  QuietTabIsStored' /\ TabsAgree'
<1>1. open' = open \ {t} /\ UNCHANGED <<state, storage>>
      /\ events' = [events EXCEPT ![t] = <<>>]
  BY DEF CloseTab
<1>2. \A u \in open' : u \in open /\ events'[u] = events[u]
  BY <1>1 DEF TypeOK
<1> QED
  BY <1>1, <1>2 DEF QuietTabIsStored, TabsAgree

LEMMA TabStepsKeepAgreement ==
    ASSUME TypeOK, QuietTabIsStored, TabsAgree, NEW t \in Tabs, TabSteps(t)
    PROVE  QuietTabIsStored' /\ TabsAgree'
<1> USE WritesKeepAgreement
<1>1. CASE OpenTab(t)
  BY <1>1, OpenTabWrites
<1>2. CASE CloseTab(t)
  BY <1>2, CloseTabKeepsAgreement
<1>3. CASE StorageEvent(t)
  BY <1>3, StorageEventWrites
<1>4. CASE SignOut(t)
  BY <1>4, SignOutWrites
<1>5. CASE SignOutThrows(t)
  BY <1>5, SignOutThrowsKeepsAgreement
<1>6. ASSUME NEW s \in States, SetState(t, s), open' = open
      PROVE  QuietTabIsStored' /\ TabsAgree'
  BY <1>6, SetStateWrites
<1>7. ASSUME NEW slot \in Slots, SetCallback(t, slot)
      PROVE  \E s \in States : SetState(t, s) /\ open' = open
  <2>1. [state[t] EXCEPT !.callbacks[slot] = slot] \in States
    BY DEF TypeOK, States, Callbacks
  <2> QED
    BY <1>7, <2>1 DEF SetCallback
<1>8. ASSUME NEW network \in Networks, SetNetwork(t, network)
      PROVE  \E s \in States : SetState(t, s) /\ open' = open
  <2>1. [state[t] EXCEPT !.network = network] \in States
    BY DEF TypeOK, States
  <2> QED
    BY <1>8, <2>1 DEF SetNetwork
<1>9. ASSUME NEW r \in Requests, Authenticate(t, r) \/ Sign(t, r)
      PROVE  \E s \in States : SetState(t, s) /\ open' = open
  <2>1. SetStatus(state[t], KeyOf[r], "IsLoading") \in States
    BY SetStatusType, ClientAssumption DEF TypeOK, Statuses
  <2> QED
    BY <1>9, <2>1 DEF Authenticate, Sign
<1> QED
  BY <1>1, <1>2, <1>3, <1>4, <1>5, <1>6, <1>7, <1>8, <1>9 DEF TabSteps

LEMMA RequestStepsKeepAgreement ==
    ASSUME TypeOK, QuietTabIsStored, TabsAgree, NEW r \in Requests, RequestSteps(r)
    PROVE  QuietTabIsStored' /\ TabsAgree'
<1> DEFINE t == requests[r].tab
<1>1. t \in Tabs /\ state[t] \in States
  BY DEF TypeOK, RequestType
<1>2. ASSUME NEW s \in States, SetState(t, s), open' = open
      PROVE  QuietTabIsStored' /\ TabsAgree'
  BY <1>1, <1>2, SetStateWrites, WritesKeepAgreement
<1>3. ASSUME NEW address \in Addresses, AuthFinish(r, address) \/ AuthFinishThrows(r, address)
      PROVE  \E s \in States : SetState(t, s) /\ open' = open
  <2>1. AddAccount(state[t], requests[r].captured, address) \in States
    BY <1>1, AddAccountType
  <2> QED
    BY <1>3, <2>1 DEF AuthFinish, AuthFinishThrows
<1>4. CASE AuthCancel(r) \/ PersistResolves(r) \/ PopupSettles(r)
  <2>1. SetStatus(state[t], KeyOf[r], "IsIdle") \in States
    BY <1>1, SetStatusType, ClientAssumption DEF Statuses
  <2>2. SetState(t, SetStatus(state[t], KeyOf[r], "IsIdle")) /\ open' = open
    BY <1>4 DEF AuthCancel, PersistResolves, PopupSettles
  <2> QED
    BY <1>2, <2>1, <2>2
<1>5. CASE PersistRejects(r) \/ TokenMade(r) \/ TokenFails(r) \/ PopupCancelThrows(r)
  <2>1. UNCHANGED <<open, state, storage, events>>
    BY <1>5 DEF PersistRejects, TokenMade, TokenFails, PopupCancelThrows
  <2> QED
    BY <2>1 DEF QuietTabIsStored, TabsAgree
<1> QED
  BY <1>2, <1>3, <1>4, <1>5 DEF RequestSteps

\* Tab synchronisation: whatever the tabs, the interleaving of their writes and
\* events and the throwing callbacks, synchronised tabs that have handled their
\* events show what the storage holds and agree with each other.
THEOREM Agreement == Spec => [](QuietTabIsStored /\ TabsAgree)
<1>1. Init => QuietTabIsStored /\ TabsAgree
  BY DEF Init, QuietTabIsStored, TabsAgree
<1>2. TypeOK /\ (QuietTabIsStored /\ TabsAgree) /\ [Next]_vars
        => (QuietTabIsStored /\ TabsAgree)'
  <2> SUFFICES ASSUME TypeOK, QuietTabIsStored, TabsAgree, [Next]_vars
               PROVE  QuietTabIsStored' /\ TabsAgree'
    OBVIOUS
  <2>1. CASE UNCHANGED vars
    BY <2>1 DEF vars, QuietTabIsStored, TabsAgree
  <2> QED
    BY <2>1, TabStepsKeepAgreement, RequestStepsKeepAgreement DEF Next
<1> QED
  BY <1>1, <1>2, TypeCorrect, PTL DEF Spec

\* A synchronised tab that has handled its events shows what a page load would read.
THEOREM QuietTabs == Spec => []QuietTabIsStored
BY Agreement, PTL

-----------------------------------------------------------------------------
(* The selected account exists.                                             *)
(*                                                                          *)
(* A state is made from the state before it, or from a string that was in   *)
(* the storage, in an event or in the application's cookie; the invariant    *)
(* says of each of them what CurrentAccountExists says of the tabs.          *)

Selectable(s) == SelectHasSession(s) => SelectAccountDefined(s)

\* The strings whose state is selectable.
GoodItems == {item \in Items : item # NoItem => Selectable(item)}

GoodStates == {s \in States : Selectable(s)}

SelectableInv ==
    /\ state \in [Tabs -> GoodStates]
    /\ storage \in GoodItems
    /\ persisted \in GoodItems
    /\ events \in [Tabs -> Seq(GoodItems)]

LEMMA SerializeGood ==
    ASSUME NEW s \in GoodStates
    PROVE  Serialize(s) \in GoodItems
<1>1. s \in States /\ Selectable(s) /\ Serialize(s) \in Strings
  BY SerializeType DEF GoodStates
<1>2. s.accounts \in Seq(Accounts) /\ Serialize(s).accounts \in Seq(Addresses)
  BY <1>1 DEF States, Strings
<1>3. DOMAIN Serialize(s).accounts = DOMAIN s.accounts
  BY DEF Serialize
<1>4. Len(Serialize(s).accounts) = Len(s.accounts)
  BY <1>2, <1>3
<1>5. Serialize(s).currentAccountIndex = s.currentAccountIndex
  BY DEF Serialize
<1> QED
  BY <1>1, <1>4, <1>5 DEF GoodItems, Items, Selectable, SelectHasSession, SelectAccountDefined

LEMMA DefaultGood ==
    ASSUME NEW callbacks \in Callbacks
    PROVE  DefaultState(callbacks) \in GoodStates
<1>1. Len(DefaultState(callbacks).accounts) = 0
  BY DEF DefaultState
<1> QED
  BY <1>1, DefaultStateType DEF GoodStates, Selectable, SelectHasSession

LEMMA HydrateGood ==
    ASSUME NEW item \in GoodItems, NEW callbacks \in Callbacks
    PROVE  Hydrate(item, callbacks) \in GoodStates
<1>1. Hydrate(item, callbacks) \in States
  BY HydrateType DEF GoodItems, Items
<1>2. CASE item = NoItem
  BY <1>2, DefaultGood DEF Hydrate
<1>3. CASE item # NoItem
  <2>1. item \in Strings /\ Selectable(item)
    BY <1>3 DEF GoodItems, Items
  <2>2. /\ DOMAIN Hydrate(item, callbacks).accounts = DOMAIN item.accounts
        /\ Hydrate(item, callbacks).currentAccountIndex = item.currentAccountIndex
    BY <1>3 DEF Hydrate, DefaultState
  <2>3. Hydrate(item, callbacks).accounts \in Seq(Accounts) /\ item.accounts \in Seq(Addresses)
    BY <1>1, <2>1 DEF States, Strings
  <2>4. Len(Hydrate(item, callbacks).accounts) = Len(item.accounts)
    BY <2>2, <2>3
  <2> QED
    BY <1>1, <2>1, <2>2, <2>4 DEF GoodStates, Selectable, SelectHasSession, SelectAccountDefined
<1> QED
  BY <1>2, <1>3

LEMMA ResetStateGood ==
    ASSUME NEW s \in States
    PROVE  ResetState(s) \in GoodStates
<1>1. Len(ResetState(s).accounts) = 0
  BY DEF ResetState, States
<1> QED
  BY <1>1, ResetStateType DEF GoodStates, Selectable, SelectHasSession

LEMMA SetStatusGood ==
    ASSUME NEW s \in GoodStates, NEW key \in StatusKeys, NEW status \in Statuses
    PROVE  SetStatus(s, key, status) \in GoodStates
<1>1. SetStatus(s, key, status).accounts = s.accounts
      /\ SetStatus(s, key, status).currentAccountIndex = s.currentAccountIndex
  BY DEF SetStatus, GoodStates, States
<1> QED
  BY <1>1, SetStatusType DEF GoodStates, Selectable, SelectHasSession, SelectAccountDefined

\* The index is the length of the list the account is appended to, not of the
\* list read before the wallet was asked.
LEMMA AddAccountGood ==
    ASSUME NEW s \in States, NEW captured, NEW address \in Addresses
    PROVE  AddAccount(s, captured, address) \in GoodStates
<1>1. ~HasAccount(captured, address)
  BY DEF HasAccount, SameAddress
<1>2. [address |-> address, hasDid |-> TRUE] \in Accounts /\ s.accounts \in Seq(Accounts)
  BY DEF Accounts, States
<1>3. AddAccount(s, captured, address).accounts
        = Append(s.accounts, [address |-> address, hasDid |-> TRUE])
      /\ AddAccount(s, captured, address).currentAccountIndex = Len(s.accounts)
  BY <1>1 DEF AddAccount, States
<1>4. Len(AddAccount(s, captured, address).accounts) = Len(s.accounts) + 1
      /\ Len(s.accounts) \in Nat
  BY <1>2, <1>3
<1> QED
  BY <1>3, <1>4, AddAccountType DEF GoodStates, Selectable, SelectAccountDefined

LEMMA NotifyGood ==
    ASSUME NEW evs \in [Tabs -> Seq(GoodItems)], NEW t, NEW old, NEW new \in GoodItems
    PROVE  Notify(evs, t, old, new) \in [Tabs -> Seq(GoodItems)]
<1>1. \A u \in Tabs : Append(evs[u], new) \in Seq(GoodItems)
  OBVIOUS
<1> QED
  BY <1>1 DEF Notify

LEMMA SetStateGood ==
    ASSUME SelectableInv, NEW t \in Tabs, NEW s \in GoodStates, SetState(t, s),
           persisted' \in GoodItems
    PROVE  SelectableInv'
<1>1. Serialize(s) \in GoodItems
  BY SerializeGood
<1>2. Notify(events, t, storage, Serialize(s)) \in [Tabs -> Seq(GoodItems)]
  BY <1>1, NotifyGood DEF SelectableInv
<1> QED
  BY <1>1, <1>2 DEF SetState, SelectableInv

LEMMA PersistGood ==
    ASSUME SelectableInv, NEW s \in GoodStates, Persist(s)
    PROVE  persisted' \in GoodItems
BY SerializeGood DEF Persist, SelectableInv

LEMMA OpenTabGood ==
    ASSUME TypeOK, SelectableInv, NEW t \in Tabs, OpenTab(t)
    PROVE  SelectableInv'
<1>1. PICK dehydrated \in {NoItem, persisted} : Construct(t, dehydrated)
  BY DEF OpenTab
<1> DEFINE str == IF storage # NoItem THEN storage ELSE dehydrated
           s == Hydrate(str, InitCallbacks)
           evs == Notify(events, t, storage, Serialize(s))
<1>2. str \in GoodItems
  <2>1. NoItem \in GoodItems
    BY DEF GoodItems, Items
  <2> QED
    BY <1>1, <2>1 DEF SelectableInv
<1>3. s \in GoodStates
  BY <1>2, HydrateGood, ClientAssumption
<1>4. Serialize(s) \in GoodItems
  BY <1>3, SerializeGood
<1>5. evs \in [Tabs -> Seq(GoodItems)]
  BY <1>4, NotifyGood DEF SelectableInv
<1>6. <<>> \in Seq(GoodItems)
  OBVIOUS
<1>7. state' = [state EXCEPT ![t] = s] /\ storage' = Serialize(s)
      /\ events' = [evs EXCEPT ![t] = <<>>] /\ persisted' = persisted
  BY <1>1 DEF Construct, OpenTab
<1> HIDE DEF s, evs
<1> QED
  BY <1>3, <1>4, <1>5, <1>6, <1>7 DEF SelectableInv

LEMMA StorageEventGood ==
    ASSUME TypeOK, SelectableInv, NEW t \in Tabs, StorageEvent(t)
    PROVE  SelectableInv'
<1> DEFINE s == Hydrate(Head(events[t]), config[t])
           evs == Notify(events, t, storage, Serialize(s))
<1>1. events[t] \in Seq(GoodItems) /\ events[t] # <<>>
  BY DEF StorageEvent, SelectableInv
<1>2. Head(events[t]) \in GoodItems
  BY <1>1
<1>3. s \in GoodStates
  BY <1>2, HydrateGood DEF TypeOK
<1>4. Serialize(s) \in GoodItems
  BY <1>3, SerializeGood
<1>5. evs \in [Tabs -> Seq(GoodItems)]
  BY <1>4, NotifyGood DEF SelectableInv
<1>6. evs[t] = events[t]
  BY DEF Notify
<1>7. Tail(evs[t]) \in Seq(GoodItems)
  BY <1>1, <1>6
<1>8. state' = [state EXCEPT ![t] = s] /\ storage' = Serialize(s)
      /\ events' = [evs EXCEPT ![t] = Tail(@)] /\ persisted' = persisted
  BY DEF StorageEvent
<1> HIDE DEF s, evs
<1> QED
  BY <1>3, <1>4, <1>5, <1>7, <1>8 DEF SelectableInv

LEMMA SignOutGood ==
    ASSUME TypeOK, SelectableInv, NEW t \in Tabs, SignOut(t) \/ SignOutThrows(t)
    PROVE  SelectableInv'
<1> DEFINE s == ResetState(state[t])
           first == Notify(events, t, storage, NoItem)
<1>1. s \in GoodStates
  BY ResetStateGood DEF TypeOK
<1>2. Serialize(s) \in GoodItems /\ NoItem \in GoodItems
  BY <1>1, SerializeGood DEF GoodItems, Items
<1>3. first \in [Tabs -> Seq(GoodItems)]
  BY <1>2, NotifyGood DEF SelectableInv
<1>4. Notify(first, t, NoItem, Serialize(s)) \in [Tabs -> Seq(GoodItems)]
  BY <1>2, <1>3, NotifyGood
<1>5. CASE SignOut(t)
  <2>1. state' = [state EXCEPT ![t] = s] /\ storage' = Serialize(s)
        /\ events' = Notify(first, t, NoItem, Serialize(s)) /\ persisted' = persisted
    BY <1>5 DEF SignOut
  <2> HIDE DEF s, first
  <2> QED
    BY <1>1, <1>2, <1>4, <2>1 DEF SelectableInv
<1>6. CASE SignOutThrows(t)
  <2>1. state' = state /\ storage' = NoItem /\ events' = first /\ persisted' = persisted
    BY <1>6 DEF SignOutThrows
  <2> HIDE DEF first
  <2> QED
    BY <1>2, <1>3, <2>1 DEF SelectableInv
<1> QED
  BY <1>5, <1>6

LEMMA TabStepsGood ==
    ASSUME TypeOK, SelectableInv, NEW t \in Tabs, TabSteps(t)
    PROVE  SelectableInv'
<1>1. state[t] \in GoodStates /\ state[t] \in States
  BY DEF SelectableInv, TypeOK
<1>2. CASE CloseTab(t)
  <2>1. <<>> \in Seq(GoodItems)
    OBVIOUS
  <2> QED
    BY <1>2, <2>1 DEF CloseTab, SelectableInv
<1>3. CASE OpenTab(t) \/ StorageEvent(t) \/ SignOut(t) \/ SignOutThrows(t)
  BY <1>3, OpenTabGood, StorageEventGood, SignOutGood
<1>4. ASSUME NEW slot \in Slots, SetCallback(t, slot)
      PROVE  SelectableInv'
  <2> DEFINE s == [state[t] EXCEPT !.callbacks[slot] = slot]
  <2>1. s \in States
    BY <1>1 DEF States, Callbacks
  <2>2. s.accounts = state[t].accounts /\ s.currentAccountIndex = state[t].currentAccountIndex
    BY <1>1 DEF States
  <2>3. SetState(t, s) /\ persisted' = persisted
    BY <1>4 DEF SetCallback
  <2> HIDE DEF s
  <2>4. s \in GoodStates
    BY <1>1, <2>1, <2>2 DEF GoodStates, Selectable, SelectHasSession, SelectAccountDefined
  <2> QED
    BY <2>3, <2>4, SetStateGood DEF SelectableInv
<1>5. ASSUME NEW network \in Networks, SetNetwork(t, network)
      PROVE  SelectableInv'
  <2> DEFINE s == [state[t] EXCEPT !.network = network]
  <2>1. s \in States
    BY <1>1 DEF States
  <2>2. s.accounts = state[t].accounts /\ s.currentAccountIndex = state[t].currentAccountIndex
    BY <1>1 DEF States
  <2>3. SetState(t, s) /\ Persist(s)
    BY <1>5 DEF SetNetwork
  <2> HIDE DEF s
  <2>4. s \in GoodStates
    BY <1>1, <2>1, <2>2 DEF GoodStates, Selectable, SelectHasSession, SelectAccountDefined
  <2> QED
    BY <2>3, <2>4, SetStateGood, PersistGood
<1>6. ASSUME NEW r \in Requests, Authenticate(t, r) \/ Sign(t, r)
      PROVE  SelectableInv'
  <2>1. SetStatus(state[t], KeyOf[r], "IsLoading") \in GoodStates
    BY <1>1, SetStatusGood, ClientAssumption DEF Statuses
  <2>2. SetState(t, SetStatus(state[t], KeyOf[r], "IsLoading")) /\ persisted' = persisted
    BY <1>6 DEF Authenticate, Sign
  <2> QED
    BY <2>1, <2>2, SetStateGood DEF SelectableInv
<1> QED
  BY <1>2, <1>3, <1>4, <1>5, <1>6 DEF TabSteps

LEMMA RequestStepsGood ==
    ASSUME TypeOK, SelectableInv, NEW r \in Requests, RequestSteps(r)
    PROVE  SelectableInv'
<1> DEFINE t == requests[r].tab
<1>1. t \in Tabs /\ state[t] \in GoodStates /\ state[t] \in States
  BY DEF TypeOK, RequestType, SelectableInv
<1>2. ASSUME NEW address \in Addresses, AuthFinish(r, address) \/ AuthFinishThrows(r, address)
      PROVE  SelectableInv'
  <2> DEFINE s == AddAccount(state[t], requests[r].captured, address)
  <2>1. s \in GoodStates
    BY <1>1, AddAccountGood
  <2>2. SetState(t, s) /\ (Persist(s) \/ persisted' = persisted)
    BY <1>2 DEF AuthFinish, AuthFinishThrows
  <2> HIDE DEF s, t
  <2>3. persisted' \in GoodItems
    BY <2>1, <2>2, PersistGood DEF SelectableInv
  <2> QED
    BY <1>1, <2>1, <2>2, <2>3, SetStateGood
<1>3. CASE AuthCancel(r) \/ PersistResolves(r) \/ PopupSettles(r)
  <2>1. SetStatus(state[t], KeyOf[r], "IsIdle") \in GoodStates
    BY <1>1, SetStatusGood, ClientAssumption DEF Statuses
  <2>2. SetState(t, SetStatus(state[t], KeyOf[r], "IsIdle")) /\ persisted' = persisted
    BY <1>3 DEF AuthCancel, PersistResolves, PopupSettles
  <2> QED
    BY <1>1, <2>1, <2>2, SetStateGood DEF SelectableInv
<1>4. CASE PersistRejects(r) \/ TokenMade(r) \/ TokenFails(r) \/ PopupCancelThrows(r)
  BY <1>4 DEF PersistRejects, TokenMade, TokenFails, PopupCancelThrows, SelectableInv
<1> QED
  BY <1>2, <1>3, <1>4 DEF RequestSteps

\* The selected account exists in every tab that has a session: late wallet
\* answers, sign outs in between, reloads, cookies and other tabs' events never
\* leave the index beyond the list.
THEOREM SelectedAccountExists == Spec => []CurrentAccountExists
<1>1. Init => SelectableInv
  <2> SUFFICES ASSUME Init PROVE SelectableInv
    OBVIOUS
  <2>1. <<>> \in Seq(GoodItems) /\ NoItem \in GoodItems
    BY DEF GoodItems, Items
  <2> QED
    BY <2>1, DefaultGood, ClientAssumption DEF Init, SelectableInv
<1>2. TypeOK /\ SelectableInv /\ [Next]_vars => SelectableInv'
  <2> SUFFICES ASSUME TypeOK, SelectableInv, [Next]_vars PROVE SelectableInv'
    OBVIOUS
  <2>1. CASE UNCHANGED vars
    BY <2>1 DEF vars, SelectableInv
  <2> QED
    BY <2>1, TabStepsGood, RequestStepsGood DEF Next
<1>3. TypeOK /\ SelectableInv => CurrentAccountExists
  BY DEF TypeOK, SelectableInv, GoodStates, Selectable, CurrentAccountExists
<1> QED
  BY <1>1, <1>2, <1>3, TypeCorrect, PTL DEF Spec

-----------------------------------------------------------------------------
(* What the operations on a state do to the string of it.                   *)

\* Strings are told apart by their three fields.
LEMMA SameString ==
    ASSUME NEW x \in Strings, NEW y \in Strings, x.accounts = y.accounts,
           x.currentAccountIndex = y.currentAccountIndex, x.network = y.network
    PROVE  x = y
BY DEF Strings

LEMMA SerializedList ==
    ASSUME NEW s \in States
    PROVE  /\ Serialize(s).accounts \in Seq(Addresses) /\ s.accounts \in Seq(Accounts)
           /\ Len(Serialize(s).accounts) = Len(s.accounts)
           /\ Len(s.accounts) \in Nat
           /\ DOMAIN s.accounts = 1..Len(s.accounts)
           /\ \A i \in 1..Len(s.accounts) : Serialize(s).accounts[i] = s.accounts[i].address
<1>1. s.accounts \in Seq(Accounts) /\ Serialize(s).accounts \in Seq(Addresses)
  BY SerializeType DEF States, Strings
<1>2. DOMAIN Serialize(s).accounts = DOMAIN s.accounts
      /\ \A i \in DOMAIN s.accounts : Serialize(s).accounts[i] = s.accounts[i].address
  BY DEF Serialize
<1> QED
  BY <1>1, <1>2

\* Neither a status nor a callback is in it.
LEMMA SerializeApart ==
    ASSUME NEW s \in States, NEW next,
           next.accounts = s.accounts, next.currentAccountIndex = s.currentAccountIndex,
           next.network = s.network
    PROVE  Serialize(next) = Serialize(s)
BY DEF Serialize

LEMMA SerializeReset ==
    ASSUME NEW s \in States
    PROVE  Serialize(ResetState(s)) =
             [Serialize(s) EXCEPT !.accounts = <<>>, !.currentAccountIndex = 0]
<1>1. ResetState(s) \in States /\ ResetState(s).accounts = <<>>
      /\ ResetState(s).currentAccountIndex = 0 /\ ResetState(s).network = s.network
  BY ResetStateType DEF ResetState, States
<1>2. Serialize(ResetState(s)).accounts = <<>>
  BY <1>1, SerializedList, EmptySeq
<1>3. /\ Serialize(ResetState(s)).currentAccountIndex = 0
      /\ Serialize(ResetState(s)).network = Serialize(s).network
  BY <1>1 DEF Serialize
<1>4. Serialize(s) \in Strings /\ Serialize(ResetState(s)) \in Strings
  BY <1>1, SerializeType
<1> DEFINE new == [Serialize(s) EXCEPT !.accounts = <<>>, !.currentAccountIndex = 0]
<1>5. new \in Strings /\ new.accounts = <<>> /\ new.currentAccountIndex = 0
      /\ new.network = Serialize(s).network
  BY <1>4, EmptySeq DEF Strings
<1> HIDE DEF new
<1>6. Serialize(ResetState(s)) = new
  BY <1>2, <1>3, <1>4, <1>5, SameString
<1> QED
  BY <1>6 DEF new

LEMMA SerializeNetwork ==
    ASSUME NEW s \in States, NEW network \in Networks
    PROVE  /\ [s EXCEPT !.network = network] \in States
           /\ Serialize([s EXCEPT !.network = network]) = [Serialize(s) EXCEPT !.network = network]
<1> DEFINE next == [s EXCEPT !.network = network]
           new == [Serialize(s) EXCEPT !.network = network]
<1>1. /\ next \in States /\ next.accounts = s.accounts
      /\ next.currentAccountIndex = s.currentAccountIndex /\ next.network = network
  BY DEF States
<1>2. Serialize(s) \in Strings /\ Serialize(next) \in Strings
  BY <1>1, SerializeType
<1>3. /\ new \in Strings /\ new.accounts = Serialize(s).accounts
      /\ new.currentAccountIndex = Serialize(s).currentAccountIndex /\ new.network = network
  BY <1>2 DEF Strings
<1> HIDE DEF next, new
<1>4. /\ Serialize(next).accounts = Serialize(s).accounts
      /\ Serialize(next).currentAccountIndex = Serialize(s).currentAccountIndex
      /\ Serialize(next).network = network
  BY <1>1 DEF Serialize
<1>5. Serialize(next) = new
  BY <1>2, <1>3, <1>4, SameString
<1> QED
  BY <1>1, <1>5 DEF next, new

LEMMA SerializeAdd ==
    ASSUME NEW s \in States, NEW captured, NEW address \in Addresses
    PROVE  Serialize(AddAccount(s, captured, address)) =
             [Serialize(s) EXCEPT !.accounts = Append(@, address),
                                  !.currentAccountIndex = Len(Serialize(s).accounts)]
<1> DEFINE next == AddAccount(s, captured, address)
           account == [address |-> address, hasDid |-> TRUE]
           new == [Serialize(s) EXCEPT !.accounts = Append(@, address),
                                       !.currentAccountIndex = Len(Serialize(s).accounts)]
<1>1. /\ next \in States /\ next.accounts = Append(s.accounts, account)
      /\ next.currentAccountIndex = Len(s.accounts) /\ next.network = s.network
  BY AddAccountType DEF AddAccount, HasAccount, SameAddress, States
<1>2. account \in Accounts /\ account.address = address
  BY DEF Accounts
<1>3. Serialize(s) \in Strings /\ Serialize(next) \in Strings
  BY <1>1, SerializeType
<1>4. /\ new \in Strings /\ new.accounts = Append(Serialize(s).accounts, address)
      /\ new.currentAccountIndex = Len(s.accounts) /\ new.network = s.network
  <2>1. Serialize(s).accounts \in Seq(Addresses)
        /\ Len(Serialize(s).accounts) = Len(s.accounts) /\ Len(s.accounts) \in Nat
    BY SerializedList
  <2>2. Append(Serialize(s).accounts, address) \in Seq(Addresses)
    BY <2>1
  <2>3. Serialize(s).network = s.network
    BY DEF Serialize
  <2> QED
    BY <1>3, <2>1, <2>2, <2>3 DEF Strings
<1> HIDE DEF next, new, account
<1>5. Serialize(next).accounts = new.accounts
  <2> DEFINE n == Len(s.accounts)
  <2>1. /\ s.accounts \in Seq(Accounts) /\ n \in Nat
        /\ Serialize(s).accounts \in Seq(Addresses) /\ Len(Serialize(s).accounts) = n
        /\ \A i \in 1..n : Serialize(s).accounts[i] = s.accounts[i].address
    BY SerializedList
  <2>2. Len(next.accounts) = n + 1 /\ next.accounts[n + 1] = account
        /\ \A i \in 1..n : next.accounts[i] = s.accounts[i]
    BY <1>1, <1>2, <2>1
  <2>3. /\ Serialize(next).accounts \in Seq(Addresses) /\ Len(Serialize(next).accounts) = n + 1
        /\ \A i \in 1..(n + 1) : Serialize(next).accounts[i] = next.accounts[i].address
    BY <1>1, <2>2, SerializedList
  <2>4. /\ new.accounts \in Seq(Addresses) /\ Len(new.accounts) = n + 1
        /\ new.accounts[n + 1] = address
        /\ \A i \in 1..n : new.accounts[i] = Serialize(s).accounts[i]
    BY <1>4, <2>1
  <2>5. \A i \in 1..(n + 1) : Serialize(next).accounts[i] = new.accounts[i]
    <3> TAKE i \in 1..(n + 1)
    <3>1. i \in 1..n \/ i = n + 1
      BY <2>1
    <3> QED
      BY <1>2, <2>1, <2>2, <2>3, <2>4, <3>1
  <2> QED
    BY <2>3, <2>4, <2>5, SeqEqual
<1>6. Serialize(next).currentAccountIndex = new.currentAccountIndex
      /\ Serialize(next).network = new.network
  BY <1>1, <1>4 DEF Serialize
<1>7. Serialize(next) = new
  BY <1>3, <1>4, <1>5, <1>6, SameString
<1> QED
  BY <1>7 DEF next, new

\* A page load writes back what it read.
LEMMA SerializeHydrated ==
    ASSUME NEW str \in Strings, NEW callbacks \in Callbacks
    PROVE  Serialize(Hydrate(str, callbacks)) = str
<1> DEFINE s == Hydrate(str, callbacks)
<1>1. s \in States
  BY HydrateType
<1>2. /\ DOMAIN s.accounts = DOMAIN str.accounts
      /\ \A i \in DOMAIN str.accounts : s.accounts[i].address = str.accounts[i]
      /\ s.currentAccountIndex = str.currentAccountIndex /\ s.network = str.network
  BY NoItemAssumption DEF Hydrate, DefaultState
<1> HIDE DEF s
<1>3. Serialize(s) \in Strings
  BY <1>1, SerializeType
<1>4. Serialize(s).accounts = str.accounts
  <2>1. str.accounts \in Seq(Addresses) /\ s.accounts \in Seq(Accounts)
    BY <1>1 DEF Strings, States
  <2>2. Len(s.accounts) = Len(str.accounts)
    BY <1>2, <2>1
  <2>3. /\ Serialize(s).accounts \in Seq(Addresses)
        /\ Len(Serialize(s).accounts) = Len(s.accounts)
        /\ \A i \in 1..Len(s.accounts) : Serialize(s).accounts[i] = s.accounts[i].address
    BY <1>1, SerializedList
  <2>4. \A i \in 1..Len(s.accounts) : Serialize(s).accounts[i] = str.accounts[i]
    BY <1>2, <2>1, <2>2, <2>3
  <2> QED
    BY <2>1, <2>2, <2>3, <2>4, SeqEqual
<1>5. Serialize(s).currentAccountIndex = str.currentAccountIndex
      /\ Serialize(s).network = str.network
  BY <1>2 DEF Serialize
<1> QED
  BY <1>3, <1>4, <1>5, SameString DEF s

LEMMA SerializeDefault ==
    ASSUME NEW callbacks \in Callbacks
    PROVE  Serialize(DefaultState(callbacks)) =
             [accounts |-> <<>>, currentAccountIndex |-> 0, network |-> ConfigNetwork]
<1> DEFINE s == DefaultState(callbacks)
           new == [accounts |-> <<>>, currentAccountIndex |-> 0, network |-> ConfigNetwork]
<1>1. s \in States /\ s.accounts = <<>> /\ s.currentAccountIndex = 0
      /\ s.network = ConfigNetwork
  BY DefaultStateType DEF DefaultState
<1> HIDE DEF s
<1>2. Serialize(s).accounts = <<>>
  BY <1>1, SerializedList, EmptySeq
<1>3. Serialize(s).currentAccountIndex = 0 /\ Serialize(s).network = ConfigNetwork
  BY <1>1 DEF Serialize
<1>4. Serialize(s) \in Strings
  BY <1>1, SerializeType
<1>5. new \in Strings
  BY EmptySeq, NetworkAssumption DEF Strings
<1>6. Serialize(s) = new
  BY <1>2, <1>3, <1>4, <1>5, SameString
<1> QED
  BY <1>6 DEF s

-----------------------------------------------------------------------------
(* The invariant of a single tab.                                           *)

\* There is one tab at most, and its callbacks return.
Alone == (\A t, u \in Tabs : t = u) /\ ~CallbacksThrow

\* An open tab shows what is stored, a request that is open belongs to an open tab, and
\* until the first page load there is no cookie either.
SessionInv ==
    /\ \A t \in open : storage = Serialize(state[t])
    /\ storage = NoItem => open = {} /\ persisted = NoItem
    /\ \A t \in Tabs : events[t] = <<>>
    /\ \A r \in Requests : requests[r].phase \notin {"new", "ended"} => requests[r].tab \in open

\* Nobody listens to the tab's writes.
LEMMA NobodyNotified ==
    ASSUME Alone, TypeOK, NEW t \in Tabs, NEW old, NEW new
    PROVE  Notify(events, t, old, new) = events
BY DEF Alone, TypeOK, Notify

\* A setState of an open tab.
LEMMA SetStateStores ==
    ASSUME Alone, TypeOK, SessionInv, NEW t \in open, NEW s \in States, SetState(t, s),
           open' = open,
           \A r \in Requests : requests'[r].phase \notin {"new", "ended"} =>
                                  requests'[r].tab \in open
    PROVE  SessionInv' /\ Stored = Serialize(state[t]) /\ Stored' = Serialize(s)
<1>1. t \in Tabs /\ Serialize(s) \in Strings
  BY SerializeType DEF TypeOK
<1>2. Serialize(s) # NoItem
  BY <1>1, NoItemAssumption
<1>3. state' = [state EXCEPT ![t] = s] /\ storage' = Serialize(s) /\ events' = events
  BY <1>1, NobodyNotified DEF SetState
<1>4. \A u \in open : u = t
  BY <1>1 DEF Alone, TypeOK
<1>5. state'[t] = s
  BY <1>1, <1>3 DEF TypeOK
<1>6. SessionInv'
  BY <1>2, <1>3, <1>4, <1>5 DEF SessionInv
<1>7. Stored = Serialize(state[t])
  BY DEF SessionInv, Stored
<1> QED
  BY <1>2, <1>3, <1>6, <1>7 DEF Stored

\* A step that writes nothing.
LEMMA NothingStored ==
    ASSUME SessionInv, UNCHANGED <<open, state, storage, events, persisted>>,
           \A r \in Requests : requests'[r].phase \notin {"new", "ended"} =>
                                  requests'[r].tab \in open
    PROVE  SessionInv' /\ Stored' = Stored
BY DEF SessionInv, Stored

\* A request that goes on stays in its tab.
LEMMA GotoStays ==
    ASSUME TypeOK, SessionInv, NEW r \in Requests, NEW phase, Goto(r, phase),
           requests[r].tab \in open
    PROVE  \A q \in Requests : requests'[q].phase \notin {"new", "ended"} =>
                                  requests'[q].tab \in open
BY DEF TypeOK, SessionInv, Goto, RequestType

-----------------------------------------------------------------------------
(* What a step does to the stored session.                                  *)

\* The ways a step may change the session.
SessionStep ==
    \/ Stored' = Stored
    \/ Session!SignOut
    \/ \E network \in Networks : Session!SwitchNetwork(network)
    \/ /\ \E address \in Addresses : Session!SignIn(address)
       /\ \E r \in Requests : requests[r].phase = "wallet" /\ requests'[r].phase = "persisting"

LEMMA OpenTabStep ==
    ASSUME Alone, TypeOK, SessionInv, NEW t \in Tabs, OpenTab(t)
    PROVE  SessionInv' /\ Stored' = Stored
<1>1. PICK dehydrated \in {NoItem, persisted} : Construct(t, dehydrated)
  BY DEF OpenTab
<1> DEFINE str == IF storage # NoItem THEN storage ELSE dehydrated
           s == Hydrate(str, InitCallbacks)
<1>2. open = {} /\ open' = {t}
  BY DEF OpenTab, Alone, TypeOK
<1>3. str \in Items /\ (storage = NoItem => str = NoItem)
  BY <1>1 DEF TypeOK, Items, SessionInv
<1>4. s \in States
  BY <1>3, HydrateType, ClientAssumption DEF Items
<1>5. Serialize(s) \in Strings /\ Serialize(s) # NoItem
  BY <1>4, SerializeType, NoItemAssumption
<1>6. Serialize(s) = Stored
  <2>1. CASE storage = NoItem
    BY <1>3, <2>1 DEF Hydrate, Stored
  <2>2. CASE storage # NoItem
    BY <2>2, SerializeHydrated, ClientAssumption DEF TypeOK, Stored
  <2> QED
    BY <2>1, <2>2
<1>7. /\ state' = [state EXCEPT ![t] = s] /\ storage' = Serialize(s)
      /\ events' = [events EXCEPT ![t] = <<>>] /\ UNCHANGED <<requests, persisted>>
  <2>1. Notify(events, t, storage, Serialize(s)) = events
    BY NobodyNotified
  <2> QED
    BY <1>1, <2>1 DEF Construct, OpenTab
<1>8. \A r \in Requests : requests[r].phase \in {"new", "ended"}
  BY <1>2 DEF SessionInv
<1> HIDE DEF s
<1>9. SessionInv'
  BY <1>2, <1>5, <1>7, <1>8 DEF SessionInv, TypeOK
<1> QED
  BY <1>5, <1>6, <1>7, <1>9 DEF Stored

LEMMA TabStepsStore ==
    ASSUME Alone, TypeOK, SessionInv, NEW t \in Tabs, TabSteps(t)
    PROVE  SessionInv' /\ SessionStep
<1>1. state[t] \in States
  BY DEF TypeOK
<1>2. CASE OpenTab(t)
  BY <1>2, OpenTabStep DEF SessionStep
<1>3. CASE CloseTab(t)
  <2>1. /\ open' = {} /\ \A r \in Requests : requests'[r].phase \in {"new", "ended"}
        /\ \A u \in Tabs : events'[u] = <<>>
    BY <1>3 DEF CloseTab, Alone, TypeOK, RequestType, SessionInv
  <2>2. UNCHANGED <<state, storage, persisted>>
    BY <1>3 DEF CloseTab
  <2> QED
    BY <2>1, <2>2 DEF SessionInv, SessionStep, Stored
<1>4. CASE StorageEvent(t)
  BY <1>4 DEF StorageEvent, SessionInv
<1>5. CASE SignOut(t)
  <2> DEFINE s == ResetState(state[t])
  <2>1. t \in open /\ open' = open /\ requests' = requests
    BY <1>5 DEF SignOut, UserActs
  <2>2. SetState(t, s)
    BY <1>5, NobodyNotified DEF SignOut, SetState
  <2>3. s \in States
    BY <1>1, ResetStateType
  <2> HIDE DEF s
  <2>4. SessionInv' /\ Stored = Serialize(state[t]) /\ Stored' = Serialize(s)
    <3>1. \A r \in Requests : requests'[r].phase \notin {"new", "ended"} =>
                                 requests'[r].tab \in open
      BY <2>1 DEF SessionInv
    <3> QED
      BY <2>1, <2>2, <2>3, <3>1, SetStateStores
  <2>5. Serialize(s) = [Serialize(state[t]) EXCEPT !.accounts = <<>>, !.currentAccountIndex = 0]
    BY <1>1, SerializeReset DEF s
  <2>6. Session!SignOut
    BY <2>4, <2>5 DEF Session!SignOut
  <2> QED
    BY <2>4, <2>6 DEF SessionStep
<1>6. CASE SignOutThrows(t)
  BY <1>6 DEF SignOutThrows, Throws, Alone
<1>7. ASSUME NEW slot \in Slots, SetCallback(t, slot)
      PROVE  SessionInv' /\ SessionStep
  <2> DEFINE s == [state[t] EXCEPT !.callbacks[slot] = slot]
  <2>1. t \in open /\ open' = open /\ requests' = requests /\ SetState(t, s)
    BY <1>7 DEF SetCallback, UserActs
  <2>2. s \in States /\ Serialize(s) = Serialize(state[t])
    BY <1>1, SerializeApart DEF States, Callbacks
  <2> HIDE DEF s
  <2>3. \A r \in Requests : requests'[r].phase \notin {"new", "ended"} =>
                               requests'[r].tab \in open
    BY <2>1 DEF SessionInv
  <2> QED
    BY <2>1, <2>2, <2>3, SetStateStores DEF SessionStep
<1>8. ASSUME NEW network \in Networks, SetNetwork(t, network)
      PROVE  SessionInv' /\ SessionStep
  <2> DEFINE s == [state[t] EXCEPT !.network = network]
  <2>1. t \in open /\ open' = open /\ requests' = requests /\ SetState(t, s)
    BY <1>8 DEF SetNetwork, UserActs
  <2>2. s \in States /\ Serialize(s) = [Serialize(state[t]) EXCEPT !.network = network]
    BY <1>1, SerializeNetwork
  <2> HIDE DEF s
  <2>3. \A r \in Requests : requests'[r].phase \notin {"new", "ended"} =>
                               requests'[r].tab \in open
    BY <2>1 DEF SessionInv
  <2>4. SessionInv' /\ Stored = Serialize(state[t]) /\ Stored' = Serialize(s)
    BY <2>1, <2>2, <2>3, SetStateStores
  <2>5. Session!SwitchNetwork(network)
    BY <2>2, <2>4 DEF Session!SwitchNetwork
  <2> QED
    BY <2>4, <2>5 DEF SessionStep
<1>9. ASSUME NEW r \in Requests, Authenticate(t, r) \/ Sign(t, r)
      PROVE  SessionInv' /\ SessionStep
  <2> DEFINE s == SetStatus(state[t], KeyOf[r], "IsLoading")
  <2>1. t \in open /\ open' = open /\ SetState(t, s) /\ requests[r].tab = t
    BY <1>9 DEF Authenticate, Sign, MakesRequest, UserActs
  <2>2. s \in States /\ Serialize(s) = Serialize(state[t])
    <3>1. s \in States
      BY <1>1, SetStatusType, ClientAssumption DEF Statuses
    <3>2. s.accounts = state[t].accounts /\ s.network = state[t].network
          /\ s.currentAccountIndex = state[t].currentAccountIndex
      BY <1>1 DEF SetStatus, States
    <3> QED
      BY <1>1, <3>1, <3>2, SerializeApart
  <2> HIDE DEF s
  <2>3. \A q \in Requests : requests'[q].phase \notin {"new", "ended"} =>
                               requests'[q].tab \in open
    BY <1>9, <2>1 DEF Authenticate, Sign, Goto, SessionInv, TypeOK, RequestType
  <2> QED
    BY <2>1, <2>2, <2>3, SetStateStores DEF SessionStep
<1> QED
  BY <1>2, <1>3, <1>4, <1>5, <1>6, <1>7, <1>8, <1>9 DEF TabSteps

LEMMA RequestStepsStore ==
    ASSUME Alone, TypeOK, SessionInv, NEW r \in Requests, RequestSteps(r)
    PROVE  SessionInv' /\ SessionStep
<1> DEFINE t == requests[r].tab
<1>1. t \in Tabs /\ state[t] \in States
  BY DEF TypeOK, RequestType
<1>2. requests[r].phase \notin {"new", "ended"} => t \in open
  BY DEF SessionInv
<1>3. ASSUME NEW address \in Addresses, AuthFinish(r, address)
      PROVE  SessionInv' /\ SessionStep
  <2> DEFINE s == AddAccount(state[t], requests[r].captured, address)
  <2>1. /\ t \in open /\ open' = open /\ SetState(t, s) /\ Goto(r, "persisting")
        /\ requests[r].phase = "wallet"
    BY <1>3 DEF AuthFinish, UserActs
  <2>2. /\ s \in States
        /\ Serialize(s) = [Serialize(state[t]) EXCEPT
                             !.accounts = Append(@, address),
                             !.currentAccountIndex = Len(Serialize(state[t]).accounts)]
    BY <1>1, AddAccountType, SerializeAdd
  <2> HIDE DEF s, t
  <2>3. SessionInv' /\ Stored = Serialize(state[t]) /\ Stored' = Serialize(s)
    <3>1. \A q \in Requests : requests'[q].phase \notin {"new", "ended"} =>
                                 requests'[q].tab \in open
      BY <2>1, GotoStays DEF t
    <3> QED
      BY <2>1, <2>2, <3>1, SetStateStores
  <2>4. Session!SignIn(address)
    BY <2>2, <2>3 DEF Session!SignIn
  <2>5. requests'[r].phase = "persisting"
    BY <2>1 DEF Goto, TypeOK, RequestType
  <2> QED
    BY <2>1, <2>3, <2>4, <2>5 DEF SessionStep
<1>4. ASSUME NEW address \in Addresses, AuthFinishThrows(r, address)
      PROVE  SessionInv' /\ SessionStep
  BY <1>4 DEF AuthFinishThrows, Alone
<1>5. CASE AuthCancel(r) \/ PersistResolves(r) \/ PopupSettles(r)
  <2> DEFINE s == SetStatus(state[t], KeyOf[r], "IsIdle")
  <2>1. /\ t \in open /\ open' = open /\ SetState(t, s) /\ Goto(r, "ended")
    BY <1>2, <1>5 DEF AuthCancel, PersistResolves, PopupSettles
  <2>2. s \in States /\ Serialize(s) = Serialize(state[t])
    <3>1. s \in States
      BY <1>1, SetStatusType, ClientAssumption DEF Statuses
    <3>2. s.accounts = state[t].accounts /\ s.network = state[t].network
          /\ s.currentAccountIndex = state[t].currentAccountIndex
      BY <1>1 DEF SetStatus, States
    <3> QED
      BY <1>1, <3>1, <3>2, SerializeApart
  <2> HIDE DEF s, t
  <2>3. \A q \in Requests : requests'[q].phase \notin {"new", "ended"} =>
                               requests'[q].tab \in open
    BY <2>1, GotoStays DEF t
  <2> QED
    BY <2>1, <2>2, <2>3, SetStateStores DEF SessionStep
<1>6. CASE PersistRejects(r) \/ TokenMade(r) \/ TokenFails(r) \/ PopupCancelThrows(r)
  <2>1. /\ \E phase \in Phases : Goto(r, phase)
        /\ t \in open /\ UNCHANGED <<open, state, storage, events, persisted>>
    BY <1>2, <1>6 DEF PersistRejects, TokenMade, TokenFails, PopupCancelThrows, Phases
  <2>2. \A q \in Requests : requests'[q].phase \notin {"new", "ended"} =>
                               requests'[q].tab \in open
    BY <2>1, GotoStays
  <2> QED
    BY <2>1, <2>2, NothingStored DEF SessionStep
<1> QED
  BY <1>3, <1>4, <1>5, <1>6 DEF RequestSteps

LEMMA StepStores ==
    ASSUME Alone, TypeOK, SessionInv, [Next]_vars
    PROVE  SessionInv' /\ SessionStep
<1>1. CASE UNCHANGED vars
  BY <1>1 DEF vars, SessionInv, SessionStep, Stored
<1> QED
  BY <1>1, TabStepsStore, RequestStepsStore DEF Next

LEMMA InitSession == Init => SessionInv /\ Session!Init
<1> SUFFICES ASSUME Init PROVE SessionInv /\ Session!Init
  OBVIOUS
<1>1. SessionInv
  BY DEF Init, SessionInv
<1>2. Session!Init
  BY SerializeDefault, ClientAssumption DEF Init, Stored, Session!Init
<1> QED
  BY <1>1, <1>2

\* A client alone in its browser implements StacksSession: each write of its item, from
\* whatever request, late answer, setter, page load or sign out, is a sign-in, a sign-out,
\* a switch of the network, or leaves the session as it was.
THEOREM SessionRefinement ==
    ASSUME Alone
    PROVE  Spec => StoredSessionSpec
<1>1. Init => SessionInv /\ Session!Init
  BY InitSession
<1>2. TypeOK /\ SessionInv /\ [Next]_vars => SessionInv' /\ [Session!Next]_Stored
  BY StepStores DEF SessionStep, Session!Next
<1> QED
  BY <1>1, <1>2, TypeCorrect, PTL DEF Spec, StoredSessionSpec, Session!Spec

\* Nothing but the wallet's answer to a request signs a stored session in: neither a page
\* load nor a status, a setter or a late continuation brings one back that was signed out.
THEOREM OnlyWalletSignsIn ==
    ASSUME Alone
    PROVE  Spec => SessionOnlyFromWallet
<1>1. Init => SessionInv
  BY InitSession
<1>2. TypeOK /\ SessionInv /\ [Next]_vars => SessionInv'
  BY StepStores
<1>3. TypeOK /\ SessionInv /\ [Next]_vars => [FromWallet]_vars
  <2> SUFFICES ASSUME TypeOK, SessionInv, [Next]_vars, ~SignedIn(storage), SignedIn(storage')
               PROVE  \E r \in Requests : /\ requests[r].phase = "wallet"
                                          /\ requests'[r].phase = "persisting"
    BY DEF FromWallet
  <2>1. SessionStep
    BY StepStores
  <2>2. Stored.accounts = <<>> /\ Stored \in Strings
    <3>1. CASE storage = NoItem
      BY <3>1, SerializeDefault, SerializeType, DefaultStateType, ClientAssumption DEF Stored
    <3>2. CASE storage # NoItem
      BY <3>2 DEF SignedIn, Stored, TypeOK
    <3> QED
      BY <3>1, <3>2
  <2>3. Stored'.accounts # <<>>
    BY DEF SignedIn, Stored
  <2>4. ~ Session!SignOut
    BY <2>2, <2>3 DEF Session!SignOut, Strings
  <2>5. \A network \in Networks : ~ Session!SwitchNetwork(network)
    BY <2>2, <2>3 DEF Session!SwitchNetwork, Strings
  <2>6. Stored' # Stored
    BY <2>2, <2>3
  <2> QED
    BY <2>1, <2>4, <2>5, <2>6 DEF SessionStep
<1> QED
  BY <1>1, <1>2, <1>3, TypeCorrect, PTL DEF Spec, SessionOnlyFromWallet

-----------------------------------------------------------------------------
(* Statuses.                                                                *)

StatusInv == NothingPendingMeansIdle /\ PendingMeansLoading

Active(r) == requests[r].phase \notin {"new", "ended"}

Over(r) == requests[r].phase = "ended"

\* A step that changes no status, and neither begins nor ends a request.
LEMMA StatusesKept ==
    ASSUME StatusInv, open' = open,
           \A t \in open : state'[t].statuses = state[t].statuses,
           \A r \in Requests : /\ requests'[r].tab = requests[r].tab
                               /\ Active(r)' <=> Active(r)
                               /\ Over(r)' <=> Over(r)
    PROVE  StatusInv'
BY DEF StatusInv, NothingPendingMeansIdle, PendingMeansLoading, Pending, Active, Over

\* Request r of the open tab t begins.
LEMMA StatusSetLoading ==
    ASSUME Alone, TypeOK, StatusInv, NEW t \in open, NEW r \in Requests,
           open' = open, requests[r].tab = t, requests[r].phase = "new",
           state'[t].statuses = [state[t].statuses EXCEPT ![KeyOf[r]] = "IsLoading"],
           \A q \in Requests : /\ requests'[q].tab = requests[q].tab
                               /\ Active(q)' <=> (Active(q) \/ q = r)
                               /\ Over(q)' <=> Over(q)
    PROVE  StatusInv'
<1>1. \A u \in open : u = t
  BY DEF Alone, TypeOK
<1>2. state[t].statuses \in [StatusKeys -> Statuses] /\ KeyOf[r] \in StatusKeys
  BY ClientAssumption DEF TypeOK, States
<1>3. NothingPendingMeansIdle'
  BY <1>1, <1>2 DEF StatusInv, NothingPendingMeansIdle, Pending, Active
<1>4. PendingMeansLoading'
  <2> SUFFICES ASSUME NEW q \in Requests, requests'[q].tab = t, Active(q)',
                      \A other \in Requests : KeyOf[other] = KeyOf[q] => ~Over(other)'
               PROVE  state'[t].statuses[KeyOf[q]] = "IsLoading"
    BY <1>1 DEF PendingMeansLoading, Active, Over
  <2>1. CASE KeyOf[q] = KeyOf[r]
    BY <1>2, <2>1
  <2>2. CASE KeyOf[q] # KeyOf[r]
    <3>1. state[t].statuses[KeyOf[q]] = "IsLoading"
      BY <2>2 DEF StatusInv, PendingMeansLoading, Active, Over
    <3> QED
      BY <1>2, <2>2, <3>1, ClientAssumption
  <2> QED
    BY <2>1, <2>2
<1> QED
  BY <1>3, <1>4 DEF StatusInv

\* Request r of the open tab t ends.
LEMMA StatusSetIdle ==
    ASSUME Alone, TypeOK, StatusInv, NEW t \in open, NEW r \in Requests,
           open' = open, requests[r].tab = t,
           state'[t].statuses = [state[t].statuses EXCEPT ![KeyOf[r]] = "IsIdle"],
           \A q \in Requests : /\ requests'[q].tab = requests[q].tab
                               /\ Active(q)' <=> (Active(q) /\ q # r)
                               /\ Over(q)' <=> (Over(q) \/ q = r)
    PROVE  StatusInv'
<1>1. \A u \in open : u = t
  BY DEF Alone, TypeOK
<1>2. state[t].statuses \in [StatusKeys -> Statuses] /\ KeyOf[r] \in StatusKeys
  BY ClientAssumption DEF TypeOK, States
<1>3. NothingPendingMeansIdle'
  <2>1. ASSUME NEW k \in StatusKeys, state'[t].statuses[k] = "IsLoading"
        PROVE  Pending(t, k)'
    <3>1. k # KeyOf[r] /\ state[t].statuses[k] = "IsLoading"
      BY <1>2, <2>1
    <3>2. PICK q \in Requests : requests[q].tab = t /\ KeyOf[q] = k /\ Active(q)
      BY <3>1 DEF StatusInv, NothingPendingMeansIdle, Pending, Active
    <3>3. requests'[q].tab = t /\ Active(q)'
      BY <3>1, <3>2
    <3> QED
      BY <3>2, <3>3 DEF Pending, Active
  <2> QED
    BY <1>1, <2>1 DEF NothingPendingMeansIdle
<1>4. PendingMeansLoading'
  <2>1. ASSUME NEW q \in Requests, requests'[q].tab = t, Active(q)',
               \A other \in Requests : KeyOf[other] = KeyOf[q] => ~Over(other)'
        PROVE  state'[t].statuses[KeyOf[q]] = "IsLoading"
    <3>1. KeyOf[q] # KeyOf[r] /\ KeyOf[q] \in StatusKeys
      BY <2>1, ClientAssumption
    <3>2. requests[q].tab = t /\ Active(q)
          /\ \A other \in Requests : KeyOf[other] = KeyOf[q] => ~Over(other)
      BY <2>1
    <3>3. state[t].statuses[KeyOf[q]] = "IsLoading"
      BY <3>2 DEF StatusInv, PendingMeansLoading, Active, Over
    <3> QED
      BY <1>2, <3>1, <3>3
  <2>2. ASSUME NEW q \in Requests, requests'[q].tab = t,
               requests'[q].phase \notin {"new", "ended"},
               \A other \in Requests : KeyOf[other] = KeyOf[q] => requests'[other].phase # "ended"
        PROVE  state'[t].statuses[KeyOf[q]] = "IsLoading"
    BY ONLY <2>1, <2>2 DEF Active, Over
  <2>3. \A u \in open' : u = t
    BY <1>1
  <2> QED
    BY ONLY <2>2, <2>3 DEF PendingMeansLoading
<1> QED
  BY <1>3, <1>4 DEF StatusInv

\* Which requests are open, when one goes to another phase.
LEMMA GotoPhase ==
    ASSUME TypeOK, NEW r \in Requests, NEW phase \in Phases, Goto(r, phase)
    PROVE  /\ \A q \in Requests : requests'[q].tab = requests[q].tab
           /\ requests'[r].phase = phase
           /\ \A q \in Requests \ {r} : requests'[q].phase = requests[q].phase
BY DEF TypeOK, Goto, RequestType

LEMMA TabStepsStatus ==
    ASSUME Alone, TypeOK, SessionInv, StatusInv, NEW t \in Tabs, TabSteps(t)
    PROVE  StatusInv'
<1>1. state[t] \in States /\ state \in [Tabs -> States]
  BY DEF TypeOK
<1>2. CASE OpenTab(t)
  <2>1. open = {} /\ open' = {t} /\ requests' = requests
    BY <1>2 DEF OpenTab, Alone, TypeOK
  <2>2. \A r \in Requests : ~Active(r)
    BY <2>1 DEF SessionInv, Active
  <2>3. PICK str : state'[t] = Hydrate(str, InitCallbacks)
    BY <1>1, <1>2 DEF OpenTab, Construct
  <2>4. state'[t].statuses = [k \in StatusKeys |-> IF k = "PsbtSigning" THEN "unset" ELSE "IsIdle"]
    BY <2>3 DEF Hydrate, DefaultState
  <2> QED
    BY <2>1, <2>2, <2>4
    DEF StatusInv, NothingPendingMeansIdle, PendingMeansLoading, Pending, Active
<1>3. CASE CloseTab(t)
  <2>1. open' = {}
    BY <1>3 DEF CloseTab, Alone, TypeOK
  <2> QED
    BY <2>1 DEF StatusInv, NothingPendingMeansIdle, PendingMeansLoading
<1>4. CASE StorageEvent(t)
  BY <1>4 DEF StorageEvent, SessionInv
<1>5. CASE SignOut(t) \/ SignOutThrows(t)
  <2>1. /\ open' = open /\ requests' = requests
        /\ state' \in {state, [state EXCEPT ![t] = ResetState(state[t])]}
    BY <1>5 DEF SignOut, SignOutThrows
  <2>2. ResetState(state[t]).statuses = state[t].statuses
    BY <1>1 DEF ResetState, States
  <2> QED
    BY <1>1, <2>1, <2>2, StatusesKept DEF Active, Over, TypeOK
<1>6. ASSUME NEW slot \in Slots, SetCallback(t, slot)
      PROVE  StatusInv'
  <2> DEFINE s == [state[t] EXCEPT !.callbacks[slot] = slot]
  <2>1. open' = open /\ requests' = requests /\ state' = [state EXCEPT ![t] = s]
    BY <1>6 DEF SetCallback, SetState
  <2>2. s.statuses = state[t].statuses
    BY <1>1 DEF States
  <2> HIDE DEF s
  <2> QED
    BY <1>1, <2>1, <2>2, StatusesKept DEF Active, Over, TypeOK
<1>7. ASSUME NEW network \in Networks, SetNetwork(t, network)
      PROVE  StatusInv'
  <2> DEFINE s == [state[t] EXCEPT !.network = network]
  <2>1. open' = open /\ requests' = requests /\ state' = [state EXCEPT ![t] = s]
    BY <1>7 DEF SetNetwork, SetState
  <2>2. s.statuses = state[t].statuses
    BY <1>1 DEF States
  <2> HIDE DEF s
  <2> QED
    BY <1>1, <2>1, <2>2, StatusesKept DEF Active, Over, TypeOK
<1>8. ASSUME NEW r \in Requests, Authenticate(t, r) \/ Sign(t, r)
      PROVE  StatusInv'
  <2>1. /\ t \in open /\ open' = open /\ requests[r].tab = t /\ requests[r].phase = "new"
        /\ state' = [state EXCEPT ![t] = SetStatus(state[t], KeyOf[r], "IsLoading")]
    BY <1>8 DEF Authenticate, Sign, MakesRequest, UserActs, SetState
  <2>2. state'[t].statuses = [state[t].statuses EXCEPT ![KeyOf[r]] = "IsLoading"]
    BY <1>1, <2>1 DEF SetStatus, States
  <2>3. /\ \A q \in Requests : requests'[q].tab = requests[q].tab
        /\ requests'[r].phase \in {"wallet", "token"}
        /\ \A q \in Requests \ {r} : requests'[q].phase = requests[q].phase
    <3>1. CASE Authenticate(t, r)
      <4>1. requests' = [requests EXCEPT ![r].phase = "wallet",
                                         ![r].captured = state[t].accounts]
        BY <3>1 DEF Authenticate
      <4> QED
        BY <4>1 DEF TypeOK, RequestType
    <3>2. CASE Sign(t, r)
      BY <3>2, GotoPhase DEF Sign, Phases
    <3> QED
      BY <1>8, <3>1, <3>2
  <2>4. \A q \in Requests : /\ Active(q)' <=> (Active(q) \/ q = r)
                            /\ Over(q)' <=> Over(q)
    BY <2>1, <2>3 DEF Active, Over
  <2> QED
    BY <2>1, <2>2, <2>3, <2>4, StatusSetLoading
<1> QED
  BY <1>2, <1>3, <1>4, <1>5, <1>6, <1>7, <1>8 DEF TabSteps

LEMMA RequestStepsStatus ==
    ASSUME Alone, ~TokensFail, TypeOK, SessionInv, StatusInv, NEW r \in Requests, RequestSteps(r)
    PROVE  StatusInv'
<1> DEFINE t == requests[r].tab
<1>1. t \in Tabs /\ state[t] \in States /\ state \in [Tabs -> States]
  BY DEF TypeOK, RequestType
<1>2. requests[r].phase \notin {"new", "ended"} => t \in open
  BY DEF SessionInv
<1>3. CASE \/ \E address \in Addresses : AuthFinish(r, address)
           \/ TokenMade(r)
  <2>1. /\ open' = open /\ requests[r].phase \in {"wallet", "token"}
        /\ Goto(r, "persisting") \/ Goto(r, "popup")
    BY <1>3 DEF AuthFinish, TokenMade
  <2>2. /\ \A q \in Requests : requests'[q].tab = requests[q].tab
        /\ requests'[r].phase \in {"persisting", "popup"}
        /\ \A q \in Requests \ {r} : requests'[q].phase = requests[q].phase
    BY <2>1, GotoPhase DEF Phases
  <2>3. \A u \in Tabs : state'[u].statuses = state[u].statuses
    <3>1. CASE TokenMade(r)
      BY <3>1 DEF TokenMade
    <3>2. ASSUME NEW address \in Addresses, AuthFinish(r, address)
          PROVE  \A u \in Tabs : state'[u].statuses = state[u].statuses
      <4> DEFINE s == AddAccount(state[t], requests[r].captured, address)
      <4>1. s.statuses = state[t].statuses
        BY <1>1 DEF AddAccount, HasAccount, SameAddress, States
      <4>2. state' = [state EXCEPT ![t] = s]
        BY <3>2 DEF AuthFinish, SetState
      <4> HIDE DEF s
      <4> QED
        BY <1>1, <4>1, <4>2
    <3> QED
      BY <1>3, <3>1, <3>2
  <2>4. \A q \in Requests : (Active(q)' <=> Active(q)) /\ (Over(q)' <=> Over(q))
    BY <2>1, <2>2 DEF Active, Over
  <2> QED
    BY <2>1, <2>2, <2>3, <2>4, StatusesKept DEF TypeOK
<1>4. CASE AuthCancel(r) \/ PersistResolves(r) \/ PopupSettles(r)
  <2>1. /\ t \in open /\ open' = open /\ Goto(r, "ended")
        /\ state' = [state EXCEPT ![t] = SetStatus(state[t], KeyOf[r], "IsIdle")]
    BY <1>2, <1>4 DEF AuthCancel, PersistResolves, PopupSettles, SetState
  <2>2. state'[t].statuses = [state[t].statuses EXCEPT ![KeyOf[r]] = "IsIdle"]
    BY <1>1, <2>1 DEF SetStatus, States
  <2>3. /\ \A q \in Requests : requests'[q].tab = requests[q].tab
        /\ requests'[r].phase = "ended"
        /\ \A q \in Requests \ {r} : requests'[q].phase = requests[q].phase
    BY <2>1, GotoPhase DEF Phases
  <2>4. \A q \in Requests : /\ Active(q)' <=> (Active(q) /\ q # r)
                            /\ Over(q)' <=> (Over(q) \/ q = r)
    BY <2>3 DEF Active, Over
  <2> QED
    BY <2>1, <2>2, <2>3, <2>4, StatusSetIdle
<1>5. ~(\/ \E address \in Addresses : AuthFinishThrows(r, address)
        \/ PersistRejects(r) \/ TokenFails(r) \/ PopupCancelThrows(r))
  BY DEF Alone, AuthFinishThrows, PersistRejects, Throws, TokenFails, PopupCancelThrows
<1> QED
  BY <1>3, <1>4, <1>5 DEF RequestSteps

LEMMA StatusesFollowRequests ==
    ASSUME Alone, ~TokensFail
    PROVE  Spec => []StatusInv
<1>1. Init => SessionInv /\ StatusInv
  BY InitSession DEF Init, StatusInv, NothingPendingMeansIdle, PendingMeansLoading
<1>2. TypeOK /\ SessionInv /\ StatusInv /\ [Next]_vars => SessionInv' /\ StatusInv'
  <2> SUFFICES ASSUME TypeOK, SessionInv, StatusInv, [Next]_vars
               PROVE  SessionInv' /\ StatusInv'
    OBVIOUS
  <2>1. SessionInv'
    BY StepStores
  <2>2. CASE UNCHANGED vars
    BY <2>1, <2>2, StatusesKept DEF vars, Active, Over
  <2> QED
    BY <2>1, <2>2, TabStepsStatus, RequestStepsStatus DEF Next
<1> QED
  BY <1>1, <1>2, TypeCorrect, PTL DEF Spec

\* In a tab of its own, with callbacks and token makers that do not throw, no status stays
\* IsLoading when the last request of its kind has ended, in whatever way it did.
THEOREM IdleWhenNothingPending ==
    ASSUME Alone, ~TokensFail
    PROVE  Spec => []NothingPendingMeansIdle
BY StatusesFollowRequests, PTL DEF StatusInv

\* There a status is IsLoading from the start of a request of its kind until one of that kind
\* ends, whatever setters, sign outs, network switches and other requests come between.
THEOREM LoadingWhilePending ==
    ASSUME Alone, ~TokensFail
    PROVE  Spec => []PendingMeansLoading
BY StatusesFollowRequests, PTL DEF StatusInv
=============================================================================
