CONSTANTS
    daily = daily
    once = once
    v = v
    w = w
    x = x
    host = host
    cli = cli
    Host = host
    Workers = {v, w}
    Tasks = {daily}
    Recurring = {daily}
    Procs = {host, cli}
    MaxRuns = 2
    MaxConcurrent = 1
    UserOps = {"cronRun"}
    MaxUserOps = 1
    MaxClaims = 3
    MaxStops = 1
SPECIFICATION Spec
SYMMETRY WorkerSymmetry
INVARIANTS InterruptedIsOver
CHECK_DEADLOCK FALSE
