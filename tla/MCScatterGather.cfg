SPECIFICATION FairSpec
CONSTANTS
    NumRanks = 2
    NumTasks = 2
    File <- Files
    FileSize <- FileSizes
    IntLimit = 32
    FloatSize = 2
    MaxCalls = 5
    Programs <- MCPrograms
INVARIANTS
    ScatterIsSequential
    GatherIsSequential
    NoWildAccess
PROPERTY
    AllRanksFinish
CHECK_DEADLOCK FALSE
