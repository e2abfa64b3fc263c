CONSTANTS
    Tokens = {j1}
    Changers = {c1, c2}
    Requests = {r1}
    TicksPerSecond = 2
    AccessLife = 4
    CacheTTL = 2
    CutoffTTL = 5
    Lag = 1
    MaxTime = 9
    None = None
    Faults = {"lost", "unacked", "crash"}
SPECIFICATION Spec
SYMMETRY Symmetry
PROPERTIES
    RotationRefuses
    RefusedForCause
