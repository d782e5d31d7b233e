CONSTANTS
    owner = owner
    friend = friend
    d1 = d1
    d2 = d2
    big = big
    empty = empty
    note = note
    copy = copy
    o1 = o1
    o2 = o2
    o3 = o3
    NoKey = NoKey
    NoFile = NoFile
    Keys = {owner, friend}
    Data = {d1, d2, big, empty, note, copy}
    TextData = {d1, d2, big, empty, note}
    EmptyData = {empty}
    WordsOf <- SomeWords
    Embedded <- Copied
    OversizedData = {big}
    Owner = owner
    Ops = {o1, o2, o3}
    JobsOf <- WriteWriteRead
    Faults = {"409", "network"}
    MaxFaults = 2
SPECIFICATION Spec
INVARIANTS TypeOK VerifiedReadIsAuthentic LonePutIsStored DecryptedReadIsEncrypted
CHECK_DEADLOCK FALSE
