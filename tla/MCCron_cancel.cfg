CONSTANTS
    daily = daily
    once = once
    v = v
    w = w
    x = x
    host = host
    cli = cli
    Host = host
    Workers = {v, w}
    Tasks = {daily}
    Recurring = {daily}
    Procs = {host}
    MaxRuns = 2
    MaxConcurrent = 1
    UserOps = {"cancel"}
    MaxUserOps = 1
    MaxClaims = 2
    MaxStops = 0
SPECIFICATION Spec
SYMMETRY WorkerSymmetry
INVARIANTS StopIsKept
CHECK_DEADLOCK FALSE
