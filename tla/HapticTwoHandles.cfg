\* Two handles on one device; sends fail without effect.
SPECIFICATION Spec
CONSTANTS
    Handles = {h1, h2}
    Pulsers = {p1}
    Targets <- TwoTargets
    MaxAmplitude = 1
    AmbiguousErrors = FALSE
    None = None
    clutch = clutch
    brake = brake
    throttle = throttle
INVARIANTS
    StopIsEffective
CHECK_DEADLOCK FALSE
