\* A shard without servers.
CONSTANTS
    r1 = r1
    r2 = r2
    p1 = p1
    p2 = p2
    p3 = p3
    s1 = s1
    s2 = s2
    None = None
    Clients <- TwoClients
    Servers <- TwoServers
    Pools <- ThreePools
    ServersOf <- WithUnserved
    SubReqs <- ThreePoolSubReqs
    ConnectPerServer = 1
    Faults = {}
    MaxDrift = 0
SPECIFICATION ReqSpec
INVARIANTS RefusedShardSurvives
CHECK_DEADLOCK FALSE
