\* One handle on three pedals; sends fail without effect.
SPECIFICATION FairSpec
CONSTANTS
    Handles = {h1}
    Pulsers = {p1, p2}
    Targets <- AllTargets
    MaxAmplitude = 1
    AmbiguousErrors = FALSE
    None = None
    clutch = clutch
    brake = brake
    throttle = throttle
INVARIANTS
    StopIsEffective
    StopAllReaches
    TransportOwned
PROPERTIES
    PulsesEnd
    CloseEndsInSilence
CHECK_DEADLOCK FALSE
