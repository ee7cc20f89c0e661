SPECIFICATION Spec
CONSTANTS
    Pids = {p1, p2}
    NoPid = NoPid
    MaxSize = 2
    MaxWrites = 1
    Ops = {"start", "reset"}
    Faults = {"crash"}
SYMMETRY Symmetry
INVARIANTS
    ResetIsNotBlocked
CHECK_DEADLOCK FALSE
