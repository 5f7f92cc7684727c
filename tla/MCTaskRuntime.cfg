SPECIFICATION FairSpec
CONSTANTS
    Task = {0, 1}
    Device = {0, 1}
    Bindings <- OneOrTwo
    Array = {"a"}
    MaxCalls = 5
    Programs <- MCPrograms
INVARIANTS
    TypeOK
    MemoryIsSequential
    LaunchRunsItsKernel
PROPERTY
    CallsReturn
CHECK_DEADLOCK FALSE
