SPECIFICATION MCSpec
CONSTANTS
    MaxSessions = 3
    MaxTime = 2
    MaxConstellations = 2
    MaxLeases = 2
    MaxTickets = 1
    TTL = 1
    InactiveTTL = 1
    Target = 2
    MaxRoutes = 2
    PoolLimit = 2
    MaxOpens = 3
    MaxFlows = 2
    MaxChanges = 2
    Races = {"r1", "r2"}
    CarrierCacheTTL = 1
    MaxRaceClock = 1
    MaxResets = 1
    Requests = {"c1", "c2"}
    MaxPeers = 1
    MaxServed = 1
    QueryIds = {1}
    Domains = {"q", "r"}
    Answers <- MCAnswers
    MaxPending = 2
    MaxAddresses = 1
    PendingTTL = 1
    MaximumTTL = 2
    MaxQueries = 3
    MaxDnsTime = 2
    TunFlows = {"f1"}
    Targets = {"a1"}
    FirstFlightMaximum = 2
    WriteSizes = {1, 3}
    MaxWrites = 3
    SocksClients = {"s1", "s2"}
    MaxConnections = 1
    Ports = {1, 2}
    MaxDatagrams = 2
INVARIANTS HubIsConsistent FlowsAreServed RaceIsSound CarriersAreOwned TunnelIsFaithful SocksIsSound
CHECK_DEADLOCK FALSE
