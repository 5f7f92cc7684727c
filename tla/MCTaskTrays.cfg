SPECIFICATION Spec
CONSTANTS
    NumTasks = 2
    Tray = {0, 1}
    Size = {1, 2}
    HostSize = {3}
    EntitySize = {1}
    MaxCalls = 5
    Liberty <- Careful
INVARIANTS
    NumTraysCounts
    NoWildAccess
PROPERTY
    ImplementsTrayStore
CHECK_DEADLOCK FALSE
