CONSTANTS
    p = p
    q = q
    Procs = {p, q}
    NoProc = NoProc
    Checkpoints = FALSE
    Refusals = FALSE
    MaxTime = 2
    MaxStarts = 2
    MaxCrashes = 0
SPECIFICATION Spec
INVARIANTS LeaderIsCurrent
CHECK_DEADLOCK FALSE
