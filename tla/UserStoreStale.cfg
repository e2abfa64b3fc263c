CONSTANTS
    Users = {u1}
    Procs = {p1, p2}
    None = None
    MaxPassword = 1
    MaxSetBuf = 2
SPECIFICATION Spec
INVARIANTS
    NextLoginReadsNewHash
