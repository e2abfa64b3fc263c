CONSTANTS
    Users = {u1}
    Procs = {p1, p2}
    None = None
    MaxPassword = 2
    MaxSetBuf = 2
SPECIFICATION FairSpec
INVARIANTS
    InvalidationEffective
    QuietReadFresh
PROPERTIES
    EventuallyCoherent
