CONSTANTS
    Clients <- Three
    Scope <- TheirScope
    Pools <- TwoPools
    NoPool = NoPool
    MaxLimit = 2
    a1 = a1
    a2 = a2
    b = b
    s1 = s1
    s2 = s2
    p1 = p1
    p2 = p2
SPECIFICATION FairSpec
INVARIANTS RequestsWithinLimit PassedAtMostOnce
PROPERTY EveryRequestServed
