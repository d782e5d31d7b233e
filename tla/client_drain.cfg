CONSTANTS
    t1 = t1
    t2 = t2
    r1 = r1
    r2 = r2
    r3 = r3
    NoItem = NoItem
    NoCallback = NoCallback
    Addresses = {a1, a2}
    Networks = {main, test}
    ConfigNetwork = main
    Tabs = {t1, t2}
    SyncTabs = {t1, t2}
    Requests = {r1, r2}
    KeyOf <- AuthTx
    InitCallbacks <- PersistAndSignOut
    EnableNetworkSwitching = FALSE
    CallbacksThrow = FALSE
    TokensFail = FALSE
    UsersWait = TRUE
    MaxCalls = 4
SPECIFICATION FairSpec
PROPERTIES TabsConverge
CHECK_DEADLOCK FALSE
