SPECIFICATION Spec
CONSTANTS
    Systems <- MCSystems
    MaxGarbage = 2
INVARIANTS
    DevicesFound
    NoWildAccess
CHECK_DEADLOCK FALSE
