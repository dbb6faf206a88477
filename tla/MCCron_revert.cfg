CONSTANTS
    daily = daily
    once = once
    v = v
    w = w
    x = x
    host = host
    cli = cli
    Host = host
    Workers = {v, w}
    Tasks = {daily}
    Recurring = {daily}
    Procs = {host, cli}
    MaxRuns = 2
    MaxConcurrent = 1
    UserOps = {"set", "cronRun"}
    MaxUserOps = 2
    MaxClaims = 3
    MaxStops = 0
SPECIFICATION Spec
SYMMETRY WorkerSymmetry
PROPERTIES StaleAttemptKeepsOut
CHECK_DEADLOCK FALSE
