\* A controller that opens and one that need not, with the caller's window or
\* one of its own.
SPECIFICATION FairSpec
CONSTANTS
    MaxButtons = 3
    MaxAxes = 2
    Word = 16
    Devices = {"pad", "bare"}
    Faulty = {"bare"}
    Enumerations <- MCEnumerations
    None = None
INVARIANTS
    NothingOutlivesRun
    ObjectsNest
    LayoutIsTheDevice
    RecordsFindTheirControl
PROPERTIES
    KeepsContract
    GoodDevicesOpen
    RunEnds
CHECK_DEADLOCK FALSE
