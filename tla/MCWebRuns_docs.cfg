\* See README.md, section 6.  TLC stops at the first property it finds violated:
\* to see another one, take its line and comment out the rest.
CONSTANTS
    r1 = r1
    r2 = r2
    ui = ui
    Workers = {r1, r2}
    Planned = {r1}
    Controls = {ui}
    Guided = {r1, r2}
    MaxRuns = 2
    MaxFaults = 1
SPECIFICATION Spec
PROPERTY OnIsOn
\* PROPERTY OffIsOff
\* PROPERTY LimitReadsGuidance
\* PROPERTY PlanReadsGuidance
\* PROPERTY GraceProtects
\* PROPERTY AdoptionIsLive
\* PROPERTY SettlesOwn
CHECK_DEADLOCK FALSE
