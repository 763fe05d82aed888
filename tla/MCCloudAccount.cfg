SPECIFICATION AccountSpec
CONSTANTS
    k1 = k1
    k2 = k2
    r1 = r1
    r2 = r2
    r3 = r3
    a1 = a1
    NoOne = NoOne
    Client <- Client2
    Chain <- Chain3
    Auth <- Auth1
    Limit = 2
    e1 = e1
    e2 = e2
    q1 = q1
    q2 = q2
    q3 = q3
    Unowned = Unowned
    Entry <- Entry2
    Call <- Call3
    EntryOf <- EntryOfCall
    MaxTask = 5
INVARIANTS
    Accounting
    OneBudget
    SingleFlight
PROPERTIES
    QueueServed
    BudgetRetired
    TransferInvisible
CHECK_DEADLOCK FALSE
