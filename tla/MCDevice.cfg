SPECIFICATION DeviceSpec
CONSTANTS
    Parts = {"frames", "bank", "slots"}
    token1 = token1
    token2 = token2
    unit = unit
    Token <- TwoTokens
    Unit <- OneUnit
    UnitOf <- SharedUnit
    MaxInvocations = 2
    MaxRefresh = 2
    MaxStore = 2
    battery1 = battery1
    battery2 = battery2
    serial1 = serial1
    serial2 = serial2
    id01 = id01
    id02 = id02
    Battery <- TwoBatteries
    Serial <- FourSerials
    Unread = unread
    MaxSlot = 3
    SlotsPerPage = 2
    ExposePolls = 2
    Placeholder <- Numbers
    CloudIndex <- Indices
    Reports <- Banks
    OldRows <- Positional
    MaxEvents = 1
CHECK_DEADLOCK FALSE
SYMMETRY Alike
INVARIANTS
    FrameExact
    IdentityUnique
    NeverStuck
    OneIdentity
PROPERTIES
    ShownWhileCurrent
