CONSTANTS
    Tasks <- A
    MaxRounds = 1
    Serial <- Nobody
    Owned <- A
    Handlers <- A
    Continuable <- Nobody
    Space <- OneSpace
    NoSpace = NoSpace
    MaxSize = 1
    MaxLimit = 1
    MaxRetained = 0
    Notified = 1
    MaxAttempts = 2
    a = a
    b = b
    s1 = s1
SPECIFICATION CoordinatorFairSpec
INVARIANTS CompletionBarrier QuietAfterFailure HandledMeansShown
PROPERTIES MainReturns NoRowStaysLive
CHECK_DEADLOCK FALSE
