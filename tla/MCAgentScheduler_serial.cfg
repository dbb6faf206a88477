CONSTANTS
    Tasks <- AM
    MaxRounds = 1
    Serial <- AM
    Owned <- A
    Handlers <- A
    Continuable <- Nobody
    Space <- TwoSpaces
    NoSpace = NoSpace
    MaxSize = 1
    MaxLimit = 2
    MaxRetained = 0
    a = a
    b = b
    m = m
    s1 = s1
    s2 = s2
SPECIFICATION FairSpec
INVARIANT ThreadsWithinLimit
PROPERTIES EveryTaskAnswered CloseReturns
CHECK_DEADLOCK FALSE
