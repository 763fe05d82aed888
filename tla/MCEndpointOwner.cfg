SPECIFICATION Spec
CONSTANTS
    c1 = c1
    c2 = c2
    c3 = c3
    t1 = t1
    t2 = t2
    NoOne = NoOne
    Caller <- Caller3
    Token <- Token2
    MaxWaiters = 1
INVARIANTS
    WireExclusive
    GateAccounting
    WaitersExact
    NothingAfterRelease
PROPERTY
    ImplementsBus
SYMMETRY Sharers
CHECK_DEADLOCK FALSE
