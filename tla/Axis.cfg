\* One caller of CaptureAxis, one axis of a device that comes and goes, a stream
\* of axis events that nobody need read.
SPECIFICATION FairSpec
CONSTANTS
    Starters = {s1}
    Closers = {}
    Capturers = {k1}
    Devices = {d1}
    Buttons = {}
    Axes = {a1}
    DeviceOf <- MCDeviceOf
    EventBufferSize = 1
    ErrorBufferSize = 1
    AxisMax = 2
    ThresholdNum = 1
    ThresholdDen = 2
    ReadsAxisEvents = TRUE
    None = None
    k1 = k1
    k2 = k2
    d1 = d1
INVARIANTS
    AxisBaselineIsStart
PROPERTIES
    CancelEndsCaptures
CHECK_DEADLOCK FALSE
