CONSTANTS
    IntBytes = 2
    CheckBytes = 1
    WordBytes = 2
    HashBytes = 2
    MaxString = 4
    MaxBuffer = 4
    AmountBytes = 2
    MemoLength = 4
    MaxCode = 5
    CoinbaseLength = 1
    KeyBytes = 1
    SignatureBytes = 2
    ChecksumBytes = 1
    MaxChunkLength = 3
    ParamBytes = 2
    ChainPrefix <- CurrentPrefix
    LegacyPrefix <- OldPrefix
    Values <- SomeValues
    Transactions <- SomeTransactions
    None = None
    CallPayload <- SomeCallPayload
    AbiTypes <- SomeTypes
    Calls <- SomeCalls
    Texts <- SomeTexts
    Addresses <- SomeAddresses
    Tokens <- SomeTokens
    Messages <- SomeMessages
    Missing = Missing
    StacksAddresses = {"41 characters", "40 characters"}
    FullAddresses = {"41 characters"}
    Uris = {"https://app.example", "ipfs:x"}
    Unqueried = {"app.example"}
    OneLiners = {"Sign in", "Sign in with Stacks"}
    RequestIds = {"id"}
    GoodNonces = {"abcdefgh"}
    Dated = {"morning", "noon", "today at noon"}
    Datetimes = {"morning", "noon"}
    MainnetChain = 1
    Unset = Unset
    Structured <- SomeStructured
    Offsets = {1, 3}
    SignIns <- SomeSignIns
    Ephemeral = "ephemeral"
    NoKey = "None"
    CharsetTypes = {"", "text/plain", "text/plain; charset=utf-8"}
    EncryptedFiles <- SomeFiles
    MaxUploadBytes = 570
    Absent = Absent
    Numbers = {"0", "1", "10", "20", "60", "80", "3600"}
    BeforeSemicolon <- Semicolons
    UpperCase <- Uppers
    Zones <- SomeZones
    Null = Null
    Origin <- Page
    SecondMs = 10
    MonthMs = 50
    AuthRequests <- SomeAuthRequests
    AuthResponses <- SomeAuthResponses
    Now = "morning"
    MaxHops = 2
SPECIFICATION Spec
INVARIANTS TypeOK ValueIsRead CutLosesTheLastLeaf TransactionIsRead ArgumentIsAccepted TextIsRead
    SignInTokensAgree SignedIsRead StructuredIsVerified SignInIsRead UploadIsAsForetold ZoneFileIsRead
PROPERTIES RelayKeepsBytes
CHECK_DEADLOCK FALSE
