CONSTANTS
    owner = owner
    friend = friend
    d1 = d1
    d2 = d2
    big = big
    empty = empty
    note = note
    copy = copy
    o1 = o1
    o2 = o2
    o3 = o3
    NoKey = NoKey
    NoFile = NoFile
    Keys = {owner, friend}
    Data = {d1, d2, big, empty, note, copy}
    TextData = {d1, d2, big, empty, note}
    EmptyData = {empty}
    WordsOf <- SomeWords
    Embedded <- Copied
    OversizedData = {big}
    Owner = owner
    Ops = {o1, o2}
    JobsOf <- WriteAnother
    Faults = {"401", "409", "500", "network"}
    MaxFaults = 3
SPECIFICATION FairSpec
PROPERTIES OperationsSettle
CHECK_DEADLOCK FALSE
