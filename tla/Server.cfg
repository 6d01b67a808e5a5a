SPECIFICATION MCSpec
CONSTANTS
    Capacity = 3
    MaxSequence = 7
    Byte = {1, 2}
    Zero = 0
    Payloads <- MCPayloads
    Secrets = {"x"}
    Credentials <- MCCredentials
    EpochInterval = 2
    MaxDummies = 2
    Window = 2
    EndpointQueue = 1
    RecordQueue = 1
    MaxSend = 3
    MaxRekeys = 1
    CarrierSessions = {"s1", "s2"}
    Owner <- MCOwner
    MaxRequests = 3
    MaxEpoch = 2
    MaxConnections = 2
    MaxUDP = 1
    MaxTCPGlobal = 1
    MaxTCPPerUser = 1
    MaxUDPGlobal = 1
    MaxUDPPerUser = 1
    MaxFlows = 1
    MaxFlowsPerPrincipal = 1
    Targets = {"t1", "t2"}
    MaxTargets = 1
    PacketRate = 2
    TargetRate = 1
    Mtu = 1
    MaxDatagrams = 4
    MaxRefills = 1
    Edges = {"e1", "e2"}
    Policies <- MCPolicies
    Hints <- MCHints
    MaxRevisions = 2
    MaxRelayed = 2
    MaxPeerings = 3
    Ttl = 1
    MaxStale = 1
    MaxClock = 2
INVARIANTS JournalIsExact SessionIsSound DatagramsAreSound CountsMatchHolders FinishedLeavesNothing
           UdpRelayIsSound RelaysAreSound
PROPERTIES RefinesReplayLog 
CHECK_DEADLOCK FALSE
