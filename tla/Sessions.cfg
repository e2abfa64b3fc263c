CONSTANTS
    None = None
    Procs = {p1, p2}
    Tokens = {j1, j2, j3}
    Faults = {"lost", "unacked", "crash"}
    TicksPerSecond = 2
    MaxTime = 4
    MaxVersion = 2
    LoginMaxAttempts = 1
    MaxAttempts = 2
SPECIFICATION Spec
SYMMETRY Symmetry
VIEW View
CHECK_DEADLOCK FALSE
INVARIANTS
    SessionSurvives
    SessionsClosed
    ReplayFails
    TriesBounded
    LockoutEnds
PROPERTIES
    ImplementsRefreshTokens
