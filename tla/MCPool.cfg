\* Two servers with two connections each.
CONSTANTS
    s1 = s1
    s2 = s2
    q1 = q1
    q2 = q2
    None = None
    ConnectPerServer = 2
    Servers <- TwoServers
    SubReqs <- TwoSubReqs
    Faults = {"connect", "idle", "use"}
    MaxDrift = 1
SPECIFICATION WorldSpec
INVARIANTS
    TypeOK
    SlotsAccounted
    ExclusiveUse
    ConnectCountExact
    NoIdleWhileWaiting
    GoneIsQuiet
PROPERTIES
    ImplementsConnPool
    WaitersServed
    DestroyCompletes
CHECK_DEADLOCK FALSE
