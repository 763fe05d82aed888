SPECIFICATION LocalSpec
CONSTANTS
    Parts = {"registry", "parameters", "schedule", "writes", "lifetime"}
    one = one
    another = another
    flow = flow
    capability1 = capability1
    capability2 = capability2
    NoOne = noOne
    Entry <- Pair
    Flow <- OneFlow
    Cap <- TwoCapabilities
    reader1 = reader1
    Key <- Pair
    Reader <- OneReader
    SettleWindow = 2
    Grace = 1
    Ttl = 3
    Propagation = 1
    MaxRead = 1
    MaxCycle = 1
    MaxChange = 2
    Inverters <- Pair
    cycle1 = cycle1
    cycle2 = cycle2
    Cycles <- TwoCycles
    Writers <- Pair
    Registers <- TwoRegisters
    Factory = factory
    Nobody = nobody
    Strings <- Pair
    MaxTotal = 1
    MaxYears = 2
    Unknown = unknown
CHECK_DEADLOCK FALSE
SYMMETRY Alike
VIEW Moving
INVARIANTS
    OwnerRegistered
    ClosingRemembered
    UnloadReleases
    AckStays
    RecheckArmed
    NoSilentMiss
    NoTornTime
    CacheHonest
    NoCircularWait
    NeverFalls
