SPECIFICATION FairSpec
CONSTANTS
    NumRanks = 2
    NumDev <- Node
    Config <- GoodFiles
    NoFile = NoFile
    Selections = {"ALL_DEVICES", "GPU_DEVICES", "ACC_DEVICES"}
    MaxCollects = 2
INVARIANTS
    RacksDistinct
    EveryTaskBound
    NoWildAccess
    MapAgrees
    MapNamesEveryTask
PROPERTY
    AllCollect
CHECK_DEADLOCK FALSE
