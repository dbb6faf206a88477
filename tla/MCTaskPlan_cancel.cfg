\* see README.md, section 3
CONSTANTS
    NumSteps = 2
    Graphs <- TwoGraphs
    AutoRetryOnFix = FALSE
    MaxUserOps = 2
    Executors <- OneExecutor
    e1 = e1
    e2 = e2
SPECIFICATION Spec
PROPERTY CancelledIsFinal
CHECK_DEADLOCK FALSE
