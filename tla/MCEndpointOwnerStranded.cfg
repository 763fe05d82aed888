SPECIFICATION Spec
CONSTANTS
    c1 = c1
    c2 = c2
    c3 = c3
    t1 = t1
    t2 = t2
    NoOne = NoOne
    Caller <- Caller2
    Token <- Token2
    MaxWaiters = 1
INVARIANT
    NoStrandedSharer
CHECK_DEADLOCK FALSE
