SPECIFICATION FairSpec
CONSTANTS
    r1 = r1  r2 = r2
    t1 = t1  t2 = t2  t3 = t3
    Rank = {r1, r2}
    Task = {t1, t2, t3}
    r_rank <- Owners
    deviceId <- Devices
    Tray = {1, 2}
    Tag = {0, 1}
    MaxCalls = 4
    Programs <- ShortPrograms
    match <- Matches
    SeqMem <- SeqMems
INVARIANTS
    SequentialMemory
    SequentialReads
    ReceivesItsMessage
PROPERTY
    AllRanksFinish
CHECK_DEADLOCK FALSE
