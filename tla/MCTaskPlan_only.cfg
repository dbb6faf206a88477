\* see README.md, section 3
CONSTANTS
    NumSteps = 2
    Graphs <- TwoGraphs
    AutoRetryOnFix = FALSE
    MaxUserOps = 2
    Executors <- TwoExecutors
    e1 = e1
    e2 = e2
SPECIFICATION Spec
INVARIANT OnlyExecutor
\* PROPERTY EditedDependenciesRespected
CHECK_DEADLOCK FALSE
