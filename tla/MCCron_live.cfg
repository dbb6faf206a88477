CONSTANTS
    daily = daily
    once = once
    v = v
    w = w
    x = x
    host = host
    cli = cli
    Host = host
    Workers = {v, w}
    Tasks = {daily}
    Recurring = {daily}
    Procs = {host, cli}
    MaxRuns = 2
    MaxConcurrent = 1
    UserOps = {"set", "cancel", "webSet", "webKeep", "delete", "cronRun"}
    MaxUserOps = 2
    MaxClaims = 2
    MaxStops = 1
SPECIFICATION FairSpec
INVARIANTS TypeOK SlotsHeld RunningIsExecuted
PROPERTIES RunEnds NoReplay
CHECK_DEADLOCK FALSE
