\* see README.md, section 3
CONSTANTS
    r1 = r1
    r2 = r2
    ui = ui
    Workers = {r1, r2}
    Planned = {}
    Controls = {ui}
    Guided = {}
    MaxRuns = 2
    MaxFaults = 1
SPECIFICATION FairSpec
PROPERTY TaskSettles
CHECK_DEADLOCK FALSE
