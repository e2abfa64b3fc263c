CONSTANTS
    None = None
    Procs = {p1, p2}
    Codes = {c1, c2}
    Faults = {"lost", "unacked", "crash"}
    OTPMaxAttempts = 2
    MaxAttempts = 4
SPECIFICATION Spec
SYMMETRY Symmetry
CHECK_DEADLOCK FALSE
INVARIANTS
    ActivatedByMailedCode
    TriesBounded
    LatestCodeCounts
    LockoutEnds
