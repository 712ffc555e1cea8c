\* A button changes while a reacquired device is reconciled; the buffer is large
\* enough never to overflow before the run ends.
SPECIFICATION Spec
CONSTANTS
    Buttons = {b1}
    Axes = {}
    AxisMax = 1
    DeviceBuffer = 3
    Batch = 2
    MayLoseInput = TRUE
    None = None
INVARIANTS
    StateCatchesUp
CHECK_DEADLOCK FALSE
