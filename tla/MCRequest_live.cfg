\* Two shards, every fault but refused calls.
CONSTANTS
    r1 = r1
    r2 = r2
    p1 = p1
    p2 = p2
    p3 = p3
    s1 = s1
    s2 = s2
    None = None
    Clients <- TwoClients
    Servers <- TwoServers
    Pools <- TwoPools
    ServersOf <- OneEach
    SubReqs <- TwoPoolSubReqs
    ConnectPerServer = 1
    Faults = {"connect", "idle", "use"}
    MaxDrift = 1
SPECIFICATION ReqLiveSpec
INVARIANTS NoLeak
PROPERTIES
    KeepsPoolContract
    RequestCompletes
