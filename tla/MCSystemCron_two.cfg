CONSTANTS
    p = p
    q = q
    Procs = {p, q}
    NoProc = NoProc
    Checkpoints = TRUE
    Refusals = TRUE
    MaxTime = 1
    MaxStarts = 2
    MaxCrashes = 1
SPECIFICATION Spec
INVARIANTS OnlyLeaderRuns UnsavedIsLeaders
CHECK_DEADLOCK FALSE
