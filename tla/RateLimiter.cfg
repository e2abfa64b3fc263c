CONSTANTS
    None = None
    IPs = {a}
    Procs = {p1, p2}
    Limiters = {l1, l2, l3}
    Burst = 2
    Cost = 3
    IdleLimit = 7
    MaxDelay = 1
    TicksPerSecond = 2
    MaxTime = 10
SPECIFICATION Spec
CHECK_DEADLOCK FALSE
INVARIANTS
    TypeOK
    RetryAfterSuffices
PROPERTIES
    ImplementsBucket
