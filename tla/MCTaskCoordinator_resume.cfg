CONSTANTS
    Tasks <- A
    MaxRounds = 2
    Serial <- Nobody
    Owned <- A
    Handlers <- Nobody
    Continuable <- A
    Space <- OneSpace
    NoSpace = NoSpace
    MaxSize = 1
    MaxLimit = 1
    MaxRetained = 1
    Notified = 1
    MaxAttempts = 1
    a = a
    b = b
    s1 = s1
SPECIFICATION CoordinatorSpec
INVARIANTS NotificationsFormBarrier
CHECK_DEADLOCK FALSE
