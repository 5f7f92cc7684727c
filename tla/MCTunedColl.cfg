SPECIFICATION Spec
CONSTANTS
    MaxSize = 6
    Comms <- MCComms
INVARIANTS
    Gathered
    NoTruncation
    NoMessageLeft
PROPERTY
    Implements
CHECK_DEADLOCK FALSE
