\* One button and one axis, a buffer of three records read one at a time, input
\* lost and cables pulled at any moment.
SPECIFICATION FairSpec
CONSTANTS
    Buttons = {b1}
    Axes = {a1}
    AxisMax = 1
    DeviceBuffer = 3
    Batch = 1
    MayLoseInput = TRUE
    None = None
INVARIANTS
    PressesAreHeld
    CatchesUpUnlessMissed
    SettledTellsReal
PROPERTIES
    InputRecovers
    UnpluggingReleases
CHECK_DEADLOCK FALSE
