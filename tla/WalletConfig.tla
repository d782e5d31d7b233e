---------------------------- MODULE WalletConfig ----------------------------
(***************************************************************************)
(* The accounts of a wallet and its wallet-config.json on a Gaia hub:        *)
(* packages/core/src/wallet-sdk/wallet-config, account/derive-account.ts and *)
(* wallet/generate.ts.                                                       *)
(*                                                                          *)
(* Devices that know the same secret key each keep a wallet (its accounts)   *)
(* and the walletConfig they got last, and read, change and save the one     *)
(* stored file.  A device awaits each call before it makes the next.         *)
(*                                                                          *)
(* An account is its derivation index.  A config is the sequence of its      *)
(* accounts' apps, an app is its origin.  User names are left out: nothing    *)
(* in the wallet-sdk gives an account one.                                   *)
(***************************************************************************)
EXTENDS Integers, Sequences

CONSTANTS
    Devices,
    Apps,
    NoConfig,      \* no file on the hub, or an undefined walletConfig
    NoSave,
    MaxAccounts    \* bounds the accounts a user makes

Configs == Seq(SUBSET Apps)

Changes == [kind : {"set", "update", "add"}, config : Configs, apps : SUBSET Apps]

ASSUME WalletAssumption ==
    /\ NoConfig \notin Configs
    /\ NoSave \notin Changes
    /\ MaxAccounts \in Nat

VARIABLES
    stored,     \* the wallet config on the hub
    accounts,   \* wallet.accounts of each device
    memory,     \* the walletConfig each device keeps
    saving,     \* the saveWalletConfig call each device awaits
    (* What the properties remember. *)
    fresh,      \* devices whose walletConfig was made from what is stored now
    freshSaves, \* devices that save a config made from what is stored now
    blind,      \* some save replaced a config it was not made from
    promised    \* what resolved calls said is saved

vars == <<stored, accounts, memory, saving, fresh, freshSaves, blind, promised>>

-----------------------------------------------------------------------------
(* Accounts.                                                                *)

\* One that takes the last account's index for the next.
WithNextAccountAtLast(accs) == Append(accs, Len(accs) - 1)

\* deriveNextAccountFromWallet and generateAndInsertNewAccount.
WithNextAccount(accs) == Append(accs, Len(accs))

\* deriveManyAccountsForWallet looks at count indexes from the offset on and returns
\* those that the wallet has no account for.
DeriveMany(accs, count, offset) ==
    LET first == IF offset < Len(accs) THEN Len(accs) ELSE offset
        end == offset + count
    IN  [i \in 1..(end - first) |-> first + i - 1]

\* Where it starts when it is given no startingIndex: at the wallet's last account.
DefaultOffset(accs) == IF Len(accs) > 0 THEN Len(accs) - 1 ELSE 0

\* restoreWalletAccountsFromWalletConfig
RestoredAccounts(accs, config) ==
    IF config = <<>> THEN accs ELSE DeriveMany(accs, Len(config), DefaultOffset(accs))

-----------------------------------------------------------------------------
(* Configs.                                                                 *)

\* makeWalletConfig
MakeWalletConfig(accs) == [i \in 1..Len(accs) |-> {}]

\* An updateAppsMeta that forgets the other apps.
UpdateAppsMetaReplacing(config, accs, app, account) ==
    LET filled == IF config = <<>> /\ accs # <<>> THEN <<{}>> ELSE config
    IN  IF accs # <<>> /\ account = 0 THEN [filled EXCEPT ![1] = {app}] ELSE filled

\* updateAppsMeta.  Its index is declared inside the loop, so that every turn
\* looks at the config's first account and at account.index = 0.
UpdateAppsMeta(config, accs, app, account) ==
    LET filled == IF config = <<>> /\ accs # <<>> THEN <<{}>> ELSE config
    IN  IF accs # <<>> /\ account = 0 THEN [filled EXCEPT ![1] = @ \cup {app}] ELSE filled

\* An addNewAccountToWalletConfig that saves the config it was given.
WithNoNewAccount(config) == config

\* The config that addNewAccountToWalletConfig saves.
WithNewAccount(config) == Append(config, {})

\* c has all accounts and apps of config.
Extends(c, config) ==
    /\ Len(config) <= Len(c)
    /\ \A i \in 1..Len(config) : config[i] \subseteq c[i]

-----------------------------------------------------------------------------
Nothing == [accounts |-> 0, apps |-> {}]

Init ==
    /\ stored = NoConfig
    /\ accounts = [d \in Devices |-> WithNextAccount(<<>>)]
    /\ memory = [d \in Devices |-> NoConfig]
    /\ saving = [d \in Devices |-> NoSave]
    /\ fresh = {}
    /\ freshSaves = {}
    /\ blind = FALSE
    /\ promised = Nothing

\* Another account for the wallet of a device.
GenerateAndInsertNewAccount(d) ==
    /\ Len(accounts[d]) < MaxAccounts
    /\ accounts' = [accounts EXCEPT ![d] = WithNextAccount(@)]
    /\ UNCHANGED <<stored, memory, saving, fresh, freshSaves, blind, promised>>

RestoreAccounts(d) ==
    /\ memory[d] # NoConfig
    /\ accounts' = [accounts EXCEPT ![d] = RestoredAccounts(@, memory[d])]
    /\ UNCHANGED <<stored, memory, saving, fresh, freshSaves, blind, promised>>

\* getOrSetWalletConfig, when fetchWalletConfig gets the config.
GetWalletConfig(d) ==
    /\ saving[d] = NoSave
    /\ stored # NoConfig
    /\ memory' = [memory EXCEPT ![d] = stored]
    /\ fresh' = fresh \cup {d}
    /\ UNCHANGED <<stored, accounts, saving, freshSaves, blind, promised>>

\* saveWalletConfig of a device, up to the await of its putFile.
Save(d, kind, config, apps, isFresh) ==
    /\ saving' = [saving EXCEPT ![d] = [kind |-> kind, config |-> config, apps |-> apps]]
    /\ freshSaves' = IF isFresh THEN freshSaves \cup {d} ELSE freshSaves \ {d}
    /\ UNCHANGED <<stored, accounts, fresh, blind, promised>>

\* getOrSetWalletConfig, when fetchWalletConfig returns undefined: there is no config,
\* or the request, decryption or parsing failed, whose errors it swallows.
SetWalletConfig(d) ==
    /\ saving[d] = NoSave
    /\ Save(d, "set", MakeWalletConfig(accounts[d]), {}, stored = NoConfig)
    /\ UNCHANGED memory

\* updateWalletConfigWithApp changes the walletConfig in place before it saves it.
UpdateWalletConfigWithApp(d) ==
    /\ saving[d] = NoSave
    /\ memory[d] # NoConfig
    /\ \E app \in Apps, i \in 1..Len(accounts[d]) :
          LET config == UpdateAppsMeta(memory[d], accounts[d], app, accounts[d][i])
          IN  /\ memory' = [memory EXCEPT ![d] = config]
              /\ Save(d, "update", config,
                      IF accounts[d][i] = 0 THEN {app} ELSE {}, d \in fresh)

\* addNewAccountToWalletConfig saves a changed copy; the walletConfig stays as it is,
\* and is also what the call returns.
AddNewAccountToWalletConfig(d) ==
    /\ saving[d] = NoSave
    /\ memory[d] # NoConfig
    /\ Len(memory[d]) < MaxAccounts
    /\ Save(d, "add", WithNewAccount(memory[d]), {}, d \in fresh)
    /\ UNCHANGED memory

\* What a resolved call promises to its caller.
Promise(d, save) ==
    [accounts |-> LET n == IF save.kind = "add" THEN Len(memory[d]) + 1 ELSE Len(save.config)
                  IN  IF n > promised.accounts THEN n ELSE promised.accounts,
     apps |-> promised.apps \cup save.apps]

\* The hub stores what putFile uploads; a lost answer rejects the call.
SaveIsStored(d) ==
    /\ saving[d] # NoSave
    /\ stored' = saving[d].config
    /\ blind' = (blind \/ d \notin freshSaves)
    /\ \E answered \in BOOLEAN :
          /\ memory' = IF answered /\ saving[d].kind = "set"
                       THEN [memory EXCEPT ![d] = saving[d].config] ELSE memory
          /\ fresh' = IF saving[d].kind = "update" \/ (answered /\ saving[d].kind = "set")
                      THEN {d} ELSE {}
          /\ promised' = IF answered THEN Promise(d, saving[d]) ELSE promised
    /\ saving' = [saving EXCEPT ![d] = NoSave]
    /\ freshSaves' = {}
    /\ UNCHANGED accounts

\* The save fails without having been stored; a changed walletConfig stays changed.
SaveFails(d) ==
    /\ saving[d] # NoSave
    /\ saving' = [saving EXCEPT ![d] = NoSave]
    /\ freshSaves' = freshSaves \ {d}
    /\ UNCHANGED <<stored, accounts, memory, fresh, blind, promised>>

Next == \E d \in Devices :
    \/ GenerateAndInsertNewAccount(d)
    \/ RestoreAccounts(d)
    \/ GetWalletConfig(d)
    \/ SetWalletConfig(d)
    \/ UpdateWalletConfigWithApp(d)
    \/ AddNewAccountToWalletConfig(d)
    \/ SaveIsStored(d)
    \/ SaveFails(d)

Spec == Init /\ [][Next]_vars

-----------------------------------------------------------------------------
(* Properties.                                                              *)

\* The types of all variables.
TypeOK ==
    /\ stored \in Configs \cup {NoConfig}
    /\ accounts \in [Devices -> Seq(Nat)]
    /\ memory \in [Devices -> Configs \cup {NoConfig}]
    /\ saving \in [Devices -> Changes \cup {NoSave}]
    /\ fresh \subseteq Devices
    /\ freshSaves \subseteq Devices
    /\ blind \in BOOLEAN
    /\ promised \in [accounts : Nat, apps : SUBSET Apps]

\* A save that was made from what is stored takes nothing away: whatever devices do in
\* between, and whichever saves fail or lose their answer, the wallet config can only
\* lose an account or an app to a save that was made from an older config or
\* after a failed read (updateAppsMeta, addNewAccountToWalletConfig, getOrSetWalletConfig).
FreshSaveOnlyAdds ==
    \A d \in freshSaves : stored # NoConfig => Extends(saving[d].config, stored)

\* While no save was blind, all that resolved calls reported as saved is stored: every
\* account, and every app of the first account.
ResolvedChangesAreStored ==
    (~blind /\ promised # Nothing) =>
        /\ stored # NoConfig
        /\ promised.accounts <= Len(stored)
        /\ promised.apps # {} => stored # <<>> /\ promised.apps \subseteq stored[1]
=============================================================================
