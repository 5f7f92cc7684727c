SPECIFICATION Ob1Spec
CONSTANTS
    Source = {0, 1}
    Thread = {t1, t2}
    Tag <- MCTag
    Requests <- MCRequests
    Workloads <- MCWorkloads
    SeqWrap = 3
    MaxSent = 4
    MaxReqs = 2
INVARIANTS
    Ob1TypeOK
    NonOvertaking
    ReceivesInOrder
    TakenExactlyOnce
    NoMissedMatch
PROPERTIES
    ImplementsMatching
    MessagesProcessed
CHECK_DEADLOCK FALSE
