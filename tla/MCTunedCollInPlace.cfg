SPECIFICATION Spec
CONSTANTS
    MaxSize = 4
    Comms <- InPlaceComms
PROPERTY
    InPlaceReturns
CHECK_DEADLOCK FALSE
