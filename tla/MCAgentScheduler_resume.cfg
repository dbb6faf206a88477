CONSTANTS
    Tasks <- AB
    MaxRounds = 2
    Serial <- Nobody
    Owned <- A
    Handlers <- B
    Continuable <- A
    Space <- SameSpace
    NoSpace = NoSpace
    MaxSize = 2
    MaxLimit = 1
    MaxRetained = 1
    a = a
    b = b
    m = m
    s1 = s1
    s2 = s2
SPECIFICATION Spec
INVARIANTS RecordTruth ChildIsOwned RecordCurrent
CHECK_DEADLOCK FALSE
