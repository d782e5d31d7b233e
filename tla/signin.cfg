CONSTANTS
    k1 = k1
    k2 = k2
    Missing = Missing
    Nothing = Nothing
    NoKey = NoKey
    StacksAddresses = {"SP1", "SP2"}
    FullAddresses = {"SP1", "SP2"}
    Uris = {"https://app.example"}
    Unqueried = {"app.example"}
    OneLiners = {"Sign in"}
    RequestIds = {}
    GoodNonces = {"abcdefgh"}
    Dated = {"t0", "t1", "t2"}
    Datetimes = {"t0", "t1", "t2"}
    Keys = {k1, k2}
    AddressOf <- Addressed
    Prefixes = {"chain", "legacy"}
    ChainPrefix = "chain"
    Holders = {"app", "server"}
    App = "app"
    Messages <- SomeMessages
    Checks <- SomeChecks
    TimeOf <- Times
    MaxTime = 2
SPECIFICATION Spec
INVARIANTS SignedIsVerified
CHECK_DEADLOCK FALSE
