\* see README.md, section 3
CONSTANTS
    r1 = r1
    r2 = r2
    ui = ui
    Workers = {r1, r2}
    Planned = {r1}
    Controls = {ui}
    Guided = {r1, r2}
    MaxRuns = 2
    MaxFaults = 1
SPECIFICATION Spec
INVARIANT ActiveIsOwned
PROPERTIES HandOffIsLive CancelIsFinal GuidanceRead
CHECK_DEADLOCK FALSE
