CONSTANTS
    None = None
    Procs = {p1, p2}
    Links = {l1}
    Faults = {}
    ForgotMaxAttempts = 2
    MaxAttempts = 3
    MaxResets = 2
SPECIFICATION Spec
SYMMETRY Symmetry
CHECK_DEADLOCK FALSE
INVARIANTS
    OneShot
