CONSTANTS
    s1 = s1
    s2 = s2
    v1 = v1
    v2 = v2
    r1 = r1
    Senders = {s1, s2}
    Verifiers = {v1, v2}
    Probes = {r1}
    Requests = {s1, s2, v1, v2, r1}
    None = None
    MaxWorkers = 2
    Loads <- MCLoads
    DotEnvs <- MCDotEnvs
SPECIFICATION FairSpec
CHECK_DEADLOCK FALSE
INVARIANTS
    NothingClosedInUse
    EachJobOnce
    DrainedInTime
    TailTraced
    NoConnectionLeaks
PROPERTIES
    EveryJobSettles
    ShutdownEnds
    RequestsEnd
    ReadyAnswers
