---------------------------- MODULE WalletProofs ----------------------------
(* Theorems of WalletConfig for any devices and apps.                        *)
EXTENDS WalletConfig, TLAPS

-----------------------------------------------------------------------------
(* Configs.                                                                 *)

\* DeriveMany returns accounts.
LEMMA DeriveManyType ==
    ASSUME NEW accs \in Seq(Nat), NEW count \in Nat, NEW offset \in Nat
    PROVE  DeriveMany(accs, count, offset) \in Seq(Nat)
<1> DEFINE first == IF offset < Len(accs) THEN Len(accs) ELSE offset
           n == offset + count - first
<1>1. first \in Nat /\ n \in Int
  OBVIOUS
<1>2. DeriveMany(accs, count, offset) = [i \in 1..n |-> first + i - 1]
  BY DEF DeriveMany
<1> HIDE DEF first, n
<1>3. \A i \in 1..n : first + i - 1 \in Nat
  BY <1>1
<1>4. CASE n \in Nat
  BY <1>1, <1>2, <1>3, <1>4
<1>5. CASE n \notin Nat
  <2>1. 1..n = 1..0
    BY <1>1, <1>5
  <2>2. DeriveMany(accs, count, offset) = [i \in 1..0 |-> first + i - 1]
    BY <1>2, <2>1
  <2>3. \A i \in 1..0 : first + i - 1 \in Nat
    BY <1>1
  <2>4. 0 \in Nat
    OBVIOUS
  <2> QED
    BY <2>2, <2>3, <2>4
<1> QED
  BY <1>4, <1>5

\* makeWalletConfig returns a config without apps.
LEMMA MakeWalletConfigType ==
    ASSUME NEW accs \in Seq(Nat)
    PROVE  MakeWalletConfig(accs) \in Configs
BY DEF MakeWalletConfig, Configs

\* addNewAccountToWalletConfig saves a longer config.
LEMMA WithNewAccountExtends ==
    ASSUME NEW config \in Configs
    PROVE  /\ WithNewAccount(config) \in Configs
           /\ Len(WithNewAccount(config)) = Len(config) + 1
           /\ Extends(WithNewAccount(config), config)
BY DEF WithNewAccount, Configs, Extends

\* updateAppsMeta takes nothing away and adds the app of a first account.
LEMMA UpdateAppsMetaExtends ==
    ASSUME NEW config \in Configs, NEW accs \in Seq(Nat), accs # <<>>, NEW app \in Apps,
           NEW account \in Nat
    PROVE  /\ UpdateAppsMeta(config, accs, app, account) \in Configs
           /\ Extends(UpdateAppsMeta(config, accs, app, account), config)
           /\ account = 0 => /\ UpdateAppsMeta(config, accs, app, account) # <<>>
                             /\ app \in UpdateAppsMeta(config, accs, app, account)[1]
<1> DEFINE filled == IF config = <<>> /\ accs # <<>> THEN <<{}>> ELSE config
<1>1. /\ filled \in Seq(SUBSET Apps) /\ filled # <<>>
      /\ Extends(filled, config)
  <2>1. CASE config = <<>>
    <3>1. filled = <<{}>> /\ {} \in SUBSET Apps
      BY <2>1
    <3>2. <<{}>> \in Seq(SUBSET Apps) /\ <<{}>> # <<>> /\ Len(<<{}>>) = 1
      BY <3>1
    <3> QED
      BY <2>1, <3>1, <3>2 DEF Extends
  <2>2. CASE config # <<>>
    BY <2>2 DEF Configs, Extends
  <2> QED
    BY <2>1, <2>2
<1>2. UpdateAppsMeta(config, accs, app, account)
        = IF account = 0 THEN [filled EXCEPT ![1] = @ \cup {app}] ELSE filled
  BY DEF UpdateAppsMeta
<1> HIDE DEF filled
<1>3. CASE account # 0
  BY <1>1, <1>2, <1>3 DEF Configs
<1>4. CASE account = 0
  <2> DEFINE c == [filled EXCEPT ![1] = @ \cup {app}]
  <2>1. 1 \in 1..Len(filled) /\ filled[1] \in SUBSET Apps
    BY <1>1
  <2>2. c \in Seq(SUBSET Apps) /\ Len(c) = Len(filled)
    BY <1>1, <2>1
  <2>3. c[1] = filled[1] \cup {app} /\ \A i \in 2..Len(filled) : c[i] = filled[i]
    BY <1>1, <2>1
  <2>4. \A i \in 1..Len(filled) : filled[i] \subseteq c[i]
    BY <1>1, <2>3
  <2>5. Extends(c, config)
    BY <1>1, <2>2, <2>4 DEF Extends, Configs
  <2>6. c # <<>> /\ app \in c[1]
    BY <1>1, <2>1, <2>2, <2>3
  <2> QED
    BY <1>2, <1>4, <2>2, <2>5, <2>6 DEF Configs
<1> QED
  BY <1>3, <1>4

LEMMA ExtendsTransitive ==
    ASSUME NEW a \in Configs, NEW b \in Configs, NEW c \in Configs,
           Extends(a, b), Extends(b, c)
    PROVE  Extends(a, c)
BY DEF Extends, Configs

LEMMA ExtendsReflexive ==
    ASSUME NEW a \in Configs
    PROVE  Extends(a, a)
BY DEF Extends, Configs

-----------------------------------------------------------------------------
(* The inductive invariant.                                                 *)

\* A fresh walletConfig has all that is stored.
FreshMemoryExtends ==
    \A d \in fresh : /\ stored # NoConfig /\ memory[d] # NoConfig
                    /\ Extends(memory[d], stored)

FreshSaveIsOne == \A d \in freshSaves : saving[d] # NoSave

\* A save holds what its call will promise.
SaveIsAsPromised ==
    \A d \in Devices : saving[d] # NoSave =>
        /\ saving[d].kind = "add" =>
              memory[d] # NoConfig /\ Len(saving[d].config) = Len(memory[d]) + 1
        /\ saving[d].kind = "update" => memory[d] = saving[d].config
        /\ saving[d].apps # {} =>
              saving[d].config # <<>> /\ saving[d].apps \subseteq saving[d].config[1]

WalletInv ==
    /\ TypeOK
    /\ FreshMemoryExtends
    /\ FreshSaveIsOne
    /\ FreshSaveOnlyAdds
    /\ SaveIsAsPromised
    /\ ResolvedChangesAreStored

LEMMA WalletInvInit == Init => WalletInv
<1> SUFFICES ASSUME Init PROVE WalletInv
  OBVIOUS
<1>1. WithNextAccount(<<>>) \in Seq(Nat)
  BY DEF WithNextAccount
<1>2. TypeOK
  BY <1>1 DEF Init, TypeOK, Nothing
<1>3. FreshMemoryExtends /\ FreshSaveIsOne /\ FreshSaveOnlyAdds /\ SaveIsAsPromised
  BY DEF Init, FreshMemoryExtends, FreshSaveIsOne, FreshSaveOnlyAdds, SaveIsAsPromised
<1>4. ResolvedChangesAreStored
  BY DEF Init, ResolvedChangesAreStored
<1> QED
  BY <1>2, <1>3, <1>4 DEF WalletInv

\* Only accounts change.
LEMMA AccountsKeepInv ==
    ASSUME WalletInv, accounts' \in [Devices -> Seq(Nat)],
           UNCHANGED <<stored, memory, saving, fresh, freshSaves, blind, promised>>
    PROVE  WalletInv'
BY DEF WalletInv, TypeOK, FreshMemoryExtends, FreshSaveIsOne, FreshSaveOnlyAdds,
       SaveIsAsPromised, ResolvedChangesAreStored, Extends

\* A device starts a save that is fresh only if it extends what is stored.
LEMMA SaveKeepsInv ==
    ASSUME WalletInv, NEW d \in Devices, NEW kind \in {"set", "update", "add"},
           NEW config \in Configs, NEW apps \in SUBSET Apps, NEW isFresh \in BOOLEAN,
           Save(d, kind, config, apps, isFresh), saving[d] = NoSave,
           memory' \in [Devices -> Configs \cup {NoConfig}],
           \A e \in Devices \ {d} : memory'[e] = memory[e],
           d \in fresh => memory'[d] # NoConfig /\ Extends(memory'[d], stored),
           isFresh /\ stored # NoConfig => Extends(config, stored),
           kind = "add" => memory'[d] # NoConfig /\ Len(config) = Len(memory'[d]) + 1,
           kind = "update" => memory'[d] = config,
           apps # {} => config # <<>> /\ apps \subseteq config[1]
    PROVE  WalletInv'
<1> USE DEF WalletInv
<1> DEFINE change == [kind |-> kind, config |-> config, apps |-> apps]
<1>1. change \in Changes /\ change # NoSave
  BY WalletAssumption DEF Changes
<1>2. /\ saving' = [saving EXCEPT ![d] = change]
      /\ freshSaves' = IF isFresh THEN freshSaves \cup {d} ELSE freshSaves \ {d}
      /\ UNCHANGED <<stored, accounts, fresh, blind, promised>>
  BY DEF Save
<1>3. saving'[d] = change /\ \A e \in Devices \ {d} : saving'[e] = saving[e]
  BY <1>2 DEF TypeOK
<1>4. change.kind = kind /\ change.config = config /\ change.apps = apps
  OBVIOUS
<1> HIDE DEF change
<1>5. TypeOK'
  BY <1>1, <1>2 DEF TypeOK
<1>6. FreshMemoryExtends'
  BY <1>2 DEF TypeOK, FreshMemoryExtends, Extends
<1>7. FreshSaveIsOne' /\ FreshSaveOnlyAdds'
  <2> SUFFICES ASSUME NEW e \in freshSaves'
               PROVE  saving'[e] # NoSave /\ (stored' # NoConfig => Extends(saving'[e].config, stored'))
    BY DEF FreshSaveIsOne, FreshSaveOnlyAdds, Extends
  <2>1. CASE e = d
    <3>1. isFresh
      BY <1>2, <2>1
    <3> QED
      BY <1>1, <1>2, <1>3, <1>4, <2>1, <3>1 DEF Extends
  <2>2. CASE e # d
    <3>1. e \in freshSaves /\ saving'[e] = saving[e]
      BY <1>2, <1>3, <2>2 DEF TypeOK
    <3> QED
      BY <1>2, <3>1 DEF FreshSaveIsOne, FreshSaveOnlyAdds, Extends
  <2> QED
    BY <2>1, <2>2
<1>8. SaveIsAsPromised'
  BY <1>3, <1>4 DEF SaveIsAsPromised
<1>9. ResolvedChangesAreStored'
  BY <1>2 DEF ResolvedChangesAreStored
<1> QED
  BY <1>5, <1>6, <1>7, <1>8, <1>9

LEMMA SetKeepsInv ==
    ASSUME WalletInv, NEW d \in Devices, SetWalletConfig(d)
    PROVE  WalletInv'
<1>1. accounts[d] \in Seq(Nat)
  BY DEF WalletInv, TypeOK
<1>2. MakeWalletConfig(accounts[d]) \in Configs
  BY <1>1, MakeWalletConfigType
<1>3. d \in fresh => memory[d] # NoConfig /\ Extends(memory[d], stored)
  BY DEF WalletInv, FreshMemoryExtends
<1>4. /\ saving[d] = NoSave /\ UNCHANGED memory
      /\ Save(d, "set", MakeWalletConfig(accounts[d]), {}, stored = NoConfig)
  BY DEF SetWalletConfig
<1>5. memory' \in [Devices -> Configs \cup {NoConfig}]
  BY <1>4 DEF WalletInv, TypeOK
<1> QED
  BY <1>2, <1>3, <1>4, <1>5, SaveKeepsInv

LEMMA UpdateKeepsInv ==
    ASSUME WalletInv, NEW d \in Devices, UpdateWalletConfigWithApp(d)
    PROVE  WalletInv'
<1>1. /\ accounts[d] \in Seq(Nat) /\ memory[d] \in Configs
      /\ memory \in [Devices -> Configs \cup {NoConfig}]
  BY DEF WalletInv, TypeOK, UpdateWalletConfigWithApp
<1> DEFINE Updated(app, i) == UpdateAppsMeta(memory[d], accounts[d], app, accounts[d][i])
<1>2. PICK app \in Apps, i \in 1..Len(accounts[d]) :
        /\ memory' = [memory EXCEPT ![d] = Updated(app, i)]
        /\ Save(d, "update", Updated(app, i),
                IF accounts[d][i] = 0 THEN {app} ELSE {}, d \in fresh)
  BY DEF UpdateWalletConfigWithApp
<1>3. accounts[d] # <<>> /\ accounts[d][i] \in Nat
  BY <1>1
<1>4. /\ Updated(app, i) \in Configs
      /\ Extends(Updated(app, i), memory[d])
      /\ accounts[d][i] = 0 => Updated(app, i) # <<>> /\ app \in Updated(app, i)[1]
  BY <1>1, <1>3, UpdateAppsMetaExtends
<1> HIDE DEF Updated
<1>5. d \in fresh /\ stored # NoConfig => Extends(Updated(app, i), stored)
  <2> SUFFICES ASSUME d \in fresh, stored # NoConfig PROVE Extends(Updated(app, i), stored)
    OBVIOUS
  <2>1. stored \in Configs /\ Extends(memory[d], stored)
    BY DEF WalletInv, TypeOK, FreshMemoryExtends
  <2> QED
    BY <1>1, <1>4, <2>1, ExtendsTransitive
<1>6. d \in fresh => stored # NoConfig
  BY DEF WalletInv, FreshMemoryExtends
<1>7. /\ memory'[d] = Updated(app, i) /\ \A e \in Devices \ {d} : memory'[e] = memory[e]
      /\ memory' \in [Devices -> Configs \cup {NoConfig}]
  BY <1>1, <1>2, <1>4
<1>8. memory'[d] # NoConfig
  BY <1>4, <1>7, WalletAssumption
<1>9. saving[d] = NoSave
  BY DEF UpdateWalletConfigWithApp
<1> DEFINE apps == IF accounts[d][i] = 0 THEN {app} ELSE {}
<1>10. apps \in SUBSET Apps
       /\ (apps # {} => Updated(app, i) # <<>> /\ apps \subseteq Updated(app, i)[1])
  BY <1>4
<1> DEFINE isFresh == d \in fresh
<1>11. isFresh \in BOOLEAN /\ Save(d, "update", Updated(app, i), apps, isFresh)
  BY <1>2
<1>12. /\ d \in fresh => memory'[d] # NoConfig /\ Extends(memory'[d], stored)
       /\ isFresh /\ stored # NoConfig => Extends(Updated(app, i), stored)
  BY <1>5, <1>6, <1>7, <1>8
<1> HIDE DEF apps, isFresh
<1> QED
  BY <1>4, <1>7, <1>9, <1>10, <1>11, <1>12, SaveKeepsInv

LEMMA AddKeepsInv ==
    ASSUME WalletInv, NEW d \in Devices, AddNewAccountToWalletConfig(d)
    PROVE  WalletInv'
<1>1. /\ memory[d] \in Configs /\ memory[d] # NoConfig
      /\ memory \in [Devices -> Configs \cup {NoConfig}]
  BY DEF WalletInv, TypeOK, AddNewAccountToWalletConfig
<1> DEFINE config == WithNewAccount(memory[d])
<1>2. /\ config \in Configs /\ Len(config) = Len(memory[d]) + 1
      /\ Extends(config, memory[d])
  BY <1>1, WithNewAccountExtends
<1>3. /\ saving[d] = NoSave /\ UNCHANGED memory
      /\ Save(d, "add", config, {}, d \in fresh)
  BY DEF AddNewAccountToWalletConfig
<1> HIDE DEF config
<1>4. d \in fresh => stored # NoConfig /\ stored \in Configs /\ Extends(memory[d], stored)
  BY DEF WalletInv, TypeOK, FreshMemoryExtends
<1>5. d \in fresh => Extends(config, stored)
  BY <1>1, <1>2, <1>4, ExtendsTransitive
<1> DEFINE isFresh == d \in fresh
<1>6. isFresh \in BOOLEAN /\ Save(d, "add", config, {}, isFresh)
  BY <1>3
<1>7. /\ d \in fresh => memory'[d] # NoConfig /\ Extends(memory'[d], stored)
      /\ isFresh /\ stored # NoConfig => Extends(config, stored)
      /\ memory'[d] # NoConfig /\ Len(config) = Len(memory'[d]) + 1
      /\ memory' \in [Devices -> Configs \cup {NoConfig}]
      /\ \A e \in Devices \ {d} : memory'[e] = memory[e]
  BY <1>1, <1>2, <1>3, <1>4, <1>5
<1> HIDE DEF isFresh
<1> QED
  BY <1>2, <1>3, <1>6, <1>7, SaveKeepsInv

LEMMA SaveIsStoredKeepsInv ==
    ASSUME WalletInv, NEW d \in Devices, SaveIsStored(d)
    PROVE  WalletInv'
<1> DEFINE c == saving[d].config
           kind == saving[d].kind
<1>1. PICK answered \in BOOLEAN :
        /\ memory' = IF answered /\ kind = "set" THEN [memory EXCEPT ![d] = c] ELSE memory
        /\ fresh' = IF kind = "update" \/ (answered /\ kind = "set") THEN {d} ELSE {}
        /\ promised' = IF answered THEN Promise(d, saving[d]) ELSE promised
  BY DEF SaveIsStored
<1>2. /\ saving[d] # NoSave /\ stored' = c /\ blind' = (blind \/ d \notin freshSaves)
      /\ saving' = [saving EXCEPT ![d] = NoSave] /\ freshSaves' = {} /\ UNCHANGED accounts
  BY DEF SaveIsStored
<1>3. /\ saving[d] \in Changes /\ c \in Configs /\ saving[d].apps \in SUBSET Apps
      /\ kind = "add" => memory[d] \in Configs
  BY <1>2 DEF WalletInv, TypeOK, Changes, SaveIsAsPromised
<1>4. promised \in [accounts : Nat, apps : SUBSET Apps]
  BY DEF WalletInv, TypeOK
<1>5. /\ kind = "add" => memory[d] # NoConfig /\ Len(c) = Len(memory[d]) + 1
      /\ kind = "update" => memory[d] = c
      /\ saving[d].apps # {} => c # <<>> /\ saving[d].apps \subseteq c[1]
  BY <1>2 DEF WalletInv, SaveIsAsPromised
<1>6. /\ Promise(d, saving[d]).accounts
              = IF Len(c) > promised.accounts THEN Len(c) ELSE promised.accounts
      /\ Promise(d, saving[d]).apps = promised.apps \cup saving[d].apps
      /\ Promise(d, saving[d]) \in [accounts : Nat, apps : SUBSET Apps]
  BY <1>3, <1>4, <1>5 DEF Promise, Configs
<1> HIDE DEF c, kind
<1>7. TypeOK'
  BY <1>1, <1>2, <1>3, <1>4, <1>6 DEF WalletInv, TypeOK
<1>8. FreshMemoryExtends'
  <2> SUFFICES ASSUME NEW e \in fresh'
               PROVE  /\ stored' # NoConfig /\ memory'[e] # NoConfig
                      /\ Extends(memory'[e], stored')
    BY DEF FreshMemoryExtends, Extends
  <2>1. e = d /\ memory'[d] = c
    BY <1>1, <1>5 DEF WalletInv, TypeOK
  <2>2. c # NoConfig /\ Extends(c, c)
    BY <1>3, WalletAssumption, ExtendsReflexive
  <2> QED
    BY <1>2, <2>1, <2>2 DEF Extends
<1>9. FreshSaveIsOne' /\ FreshSaveOnlyAdds'
  BY <1>2 DEF FreshSaveIsOne, FreshSaveOnlyAdds
<1>10. SaveIsAsPromised'
  <2>1. saving'[d] = NoSave /\ \A e \in Devices \ {d} : saving'[e] = saving[e] /\ memory'[e] = memory[e]
    BY <1>1, <1>2 DEF WalletInv, TypeOK
  <2> QED
    BY <2>1 DEF WalletInv, SaveIsAsPromised
<1>11. ResolvedChangesAreStored'
  <2> SUFFICES ASSUME ~blind', promised' # Nothing
               PROVE  /\ c # NoConfig /\ promised'.accounts <= Len(c)
                      /\ promised'.apps # {} => c # <<>> /\ promised'.apps \subseteq c[1]
    BY <1>2 DEF ResolvedChangesAreStored
  <2>1. d \in freshSaves /\ ~blind
    BY <1>2
  <2>2. c # NoConfig /\ Len(c) \in Nat
    BY <1>3, WalletAssumption DEF Configs
  <2>3. stored # NoConfig => Extends(c, stored) /\ stored \in Configs
    BY <2>1 DEF WalletInv, TypeOK, FreshSaveOnlyAdds, c
  <2>4. promised.accounts <= Len(c) /\ (promised.apps # {} => c # <<>> /\ promised.apps \subseteq c[1])
    <3>1. CASE promised = Nothing
      BY <2>2, <3>1 DEF Nothing
    <3>2. CASE promised # Nothing
      <4>1. /\ stored # NoConfig /\ promised.accounts <= Len(stored)
            /\ promised.apps # {} => stored # <<>> /\ promised.apps \subseteq stored[1]
        BY <2>1, <3>2 DEF WalletInv, ResolvedChangesAreStored
      <4>2. promised.accounts <= Len(c)
        BY <1>4, <2>2, <2>3, <4>1 DEF Extends, Configs
      <4>3. stored # <<>> => 1 \in 1..Len(stored) /\ Len(stored) <= Len(c) /\ stored[1] \subseteq c[1]
        BY <2>3, <4>1 DEF Extends, Configs
      <4>4. stored # <<>> => c # <<>>
        BY <1>3, <4>3 DEF Configs
      <4> QED
        BY <4>1, <4>2, <4>3, <4>4
    <3> QED
      BY <3>1, <3>2
  <2>5. /\ promised'.accounts \in {promised.accounts, Len(c)}
        /\ promised'.apps \in {promised.apps, promised.apps \cup saving[d].apps}
    BY <1>1, <1>6
  <2> QED
    BY <1>5, <2>2, <2>4, <2>5
<1> QED
  BY <1>7, <1>8, <1>9, <1>10, <1>11 DEF WalletInv

LEMMA SaveFailsKeepsInv ==
    ASSUME WalletInv, NEW d \in Devices, SaveFails(d)
    PROVE  WalletInv'
<1>1. /\ saving' = [saving EXCEPT ![d] = NoSave] /\ freshSaves' = freshSaves \ {d}
      /\ UNCHANGED <<stored, accounts, memory, fresh, blind, promised>>
  BY DEF SaveFails
<1>2. saving'[d] = NoSave /\ \A e \in Devices \ {d} : saving'[e] = saving[e]
  BY <1>1 DEF WalletInv, TypeOK
<1>3. TypeOK' /\ ResolvedChangesAreStored' /\ FreshMemoryExtends'
  BY <1>1 DEF WalletInv, TypeOK, ResolvedChangesAreStored, FreshMemoryExtends, Extends
<1>4. FreshSaveIsOne' /\ FreshSaveOnlyAdds'
  BY <1>1, <1>2 DEF WalletInv, TypeOK, FreshSaveIsOne, FreshSaveOnlyAdds, Extends
<1>5. SaveIsAsPromised'
  BY <1>1, <1>2 DEF WalletInv, SaveIsAsPromised
<1> QED
  BY <1>3, <1>4, <1>5 DEF WalletInv

LEMMA GetKeepsInv ==
    ASSUME WalletInv, NEW d \in Devices, GetWalletConfig(d)
    PROVE  WalletInv'
<1>1. /\ saving[d] = NoSave /\ stored # NoConfig
      /\ memory' = [memory EXCEPT ![d] = stored] /\ fresh' = fresh \cup {d}
      /\ UNCHANGED <<stored, accounts, saving, freshSaves, blind, promised>>
  BY DEF GetWalletConfig
<1>2. memory'[d] = stored /\ \A e \in Devices \ {d} : memory'[e] = memory[e]
  BY <1>1 DEF WalletInv, TypeOK
<1>3. Extends(stored, stored)
  BY <1>1, ExtendsReflexive DEF WalletInv, TypeOK
<1>4. TypeOK' /\ ResolvedChangesAreStored' /\ FreshSaveIsOne' /\ FreshSaveOnlyAdds'
  BY <1>1 DEF WalletInv, TypeOK, ResolvedChangesAreStored, FreshSaveIsOne, FreshSaveOnlyAdds, Extends
<1>5. FreshMemoryExtends'
  BY <1>1, <1>2, <1>3 DEF WalletInv, TypeOK, FreshMemoryExtends, Extends
<1>6. SaveIsAsPromised'
  BY <1>1, <1>2 DEF WalletInv, SaveIsAsPromised
<1> QED
  BY <1>4, <1>5, <1>6 DEF WalletInv

LEMMA NextKeepsInv == WalletInv /\ [Next]_vars => WalletInv'
<1> SUFFICES ASSUME WalletInv, [Next]_vars PROVE WalletInv'
  OBVIOUS
<1>1. CASE UNCHANGED vars
  BY <1>1, AccountsKeepInv DEF vars, WalletInv, TypeOK
<1>2. ASSUME NEW d \in Devices, GenerateAndInsertNewAccount(d) PROVE WalletInv'
  <2>1. WithNextAccount(accounts[d]) \in Seq(Nat)
    BY DEF WithNextAccount, WalletInv, TypeOK
  <2> QED
    BY <1>2, <2>1, AccountsKeepInv DEF GenerateAndInsertNewAccount, WalletInv, TypeOK
<1>3. ASSUME NEW d \in Devices, RestoreAccounts(d) PROVE WalletInv'
  <2>1. accounts[d] \in Seq(Nat) /\ memory[d] \in Configs
    BY <1>3 DEF RestoreAccounts, WalletInv, TypeOK
  <2>2. DefaultOffset(accounts[d]) \in Nat /\ Len(memory[d]) \in Nat
    BY <2>1 DEF DefaultOffset, Configs
  <2>3. RestoredAccounts(accounts[d], memory[d]) \in Seq(Nat)
    BY <2>1, <2>2, DeriveManyType DEF RestoredAccounts
  <2> QED
    BY <1>3, <2>3, AccountsKeepInv DEF RestoreAccounts, WalletInv, TypeOK
<1> QED
  BY <1>1, <1>2, <1>3, GetKeepsInv, SetKeepsInv, UpdateKeepsInv, AddKeepsInv,
     SaveIsStoredKeepsInv, SaveFailsKeepsInv DEF Next

\* The types of all variables, for any devices and apps.
THEOREM WalletTypeCorrect == Spec => []TypeOK
<1>1. WalletInv => TypeOK
  BY DEF WalletInv
<1> QED
  BY <1>1, WalletInvInit, NextKeepsInv, PTL DEF Spec

\* Only a save made from an older config or after a failed read can lose an account or an
\* app, and while there was none all resolved changes are stored: for any number of devices.
THEOREM SavedChangesStay == Spec => [](FreshSaveOnlyAdds /\ ResolvedChangesAreStored)
<1>1. WalletInv => FreshSaveOnlyAdds /\ ResolvedChangesAreStored
  BY DEF WalletInv
<1> QED
  BY <1>1, WalletInvInit, NextKeepsInv, PTL DEF Spec

\* What resolved calls of any devices promised is stored, whatever saves failed or got lost,
\* while no save was made from an older config or after a failed read.
THEOREM ResolvedChangesStay == Spec => []ResolvedChangesAreStored
BY SavedChangesStay, PTL
=============================================================================
