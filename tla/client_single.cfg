CONSTANTS
    t1 = t1
    t2 = t2
    r1 = r1
    r2 = r2
    r3 = r3
    NoItem = NoItem
    NoCallback = NoCallback
    Addresses = {a1, a2}
    Networks = {main, test}
    ConfigNetwork = main
    Tabs = {t1}
    SyncTabs = {t1}
    Requests = {r1, r2, r3}
    KeyOf <- AuthAuthTx
    InitCallbacks <- PersistAndSignOut
    EnableNetworkSwitching = TRUE
    CallbacksThrow = FALSE
    TokensFail = FALSE
    UsersWait = FALSE
    MaxCalls = 4
SPECIFICATION Spec
INVARIANTS TypeOK CurrentAccountExists NothingPendingMeansIdle PendingMeansLoading
PROPERTIES SessionOnlyFromWallet StoredSessionSpec
CHECK_DEADLOCK FALSE
