\* One Start and one Close race.
SPECIFICATION Spec
CONSTANTS
    Starters = {s1}
    Closers = {c1}
    Capturers = {}
    Devices = {d1}
    Buttons = {b1}
    Axes = {}
    DeviceOf <- MCDeviceOf
    EventBufferSize = 1
    ErrorBufferSize = 1
    AxisMax = 5
    ThresholdNum = 19
    ThresholdDen = 20
    ReadsAxisEvents = FALSE
    None = None
    k1 = k1
    k2 = k2
    d1 = d1
INVARIANTS
    CloseReleases
CHECK_DEADLOCK FALSE
