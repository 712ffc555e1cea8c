\* Two goroutines race in Start and two in Close; one device without controls; nobody need read
\* the errors.
SPECIFICATION FairSpec
CONSTANTS
    Starters = {s1, s2}
    Closers = {c1, c2}
    Capturers = {}
    Devices = {d1}
    Buttons = {}
    Axes = {}
    DeviceOf <- MCDeviceOf
    EventBufferSize = 1
    ErrorBufferSize = 1
    AxisMax = 5
    ThresholdNum = 19
    ThresholdDen = 20
    ReadsAxisEvents = FALSE
    None = None
    k1 = k1
    k2 = k2
    d1 = d1
INVARIANTS
    NoPanic
    StartsOnce
    StartErrorReleases
    FirstCloseReleases
PROPERTIES
    CloseReturns
    StartReturns
    BackendEndClosesStreams
CHECK_DEADLOCK FALSE
