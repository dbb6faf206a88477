CONSTANTS
    p = p
    q = q
    Procs = {p, q}
    NoProc = NoProc
    Checkpoints = FALSE
    Refusals = FALSE
    MaxTime = 2
    MaxStarts = 1
    MaxCrashes = 0
SPECIFICATION Spec
\* With Refusals = TRUE LeadersAlone fails as well.
INVARIANTS HandedOver
CHECK_DEADLOCK FALSE
