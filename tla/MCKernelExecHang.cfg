SPECIFICATION FairSpec
CONSTANTS
    r1 = r1  r2 = r2
    t1 = t1  t2 = t2  t3 = t3
    d1 = d1  d2 = d2
    Rank = {r1, r2}
    Task = {t1, t2, t3}
    r_rank <- Owner
    taskList <- TaskLists
    Device = {d1, d2}
    devOf <- Devices
    NumArgs = 0
    Handle = {h1, h2}
    Garbage = Garbage
    Programs <- HangPrograms
    MaxCalls = 2
PROPERTY
    WaitForReturns
CHECK_DEADLOCK FALSE
