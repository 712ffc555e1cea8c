\* An axis whose driver is slow to publish.
SPECIFICATION Spec
CONSTANTS
    Buttons = {}
    Axes = {a1}
    AxisMax = 2
    DeviceBuffer = 3
    Batch = 2
    MayLoseInput = FALSE
    None = None
INVARIANTS
    NoFalseAxisEvent
CHECK_DEADLOCK FALSE
