\* Two drivers; up to three HID collections, each with or without a fault.
SPECIFICATION Spec
CONSTANTS
    Drivers <- MCDrivers
    OtherMatches <- MCOtherMatches
    Systems <- AllSystems
    None = None
INVARIANTS
    FirstMatchWins
    NothingMissed
    HandlesReturned
    ModelFitsName
CHECK_DEADLOCK FALSE
