CONSTANTS
    t1 = t1
    t2 = t2
    r1 = r1
    r2 = r2
    r3 = r3
    NoItem = NoItem
    NoCallback = NoCallback
    Addresses = {a1}
    Networks = {main, test}
    ConfigNetwork = main
    Tabs = {t1, t2}
    SyncTabs = {t1, t2}
    Requests = {r1, r2}
    KeyOf <- AuthTx
    InitCallbacks <- PersistAndSignOut
    EnableNetworkSwitching = TRUE
    CallbacksThrow = TRUE
    TokensFail = TRUE
    UsersWait = FALSE
    MaxCalls = 3
SPECIFICATION Spec
INVARIANTS TabsAgree QuietTabIsStored
CHECK_DEADLOCK FALSE
