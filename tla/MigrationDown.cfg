CONSTANTS
    None = None
    Runners = {r1, r2}
    Faults = {}
SPECIFICATION Spec
SYMMETRY Symmetry
INVARIANTS
    DownForgets
