SPECIFICATION MCSpec
CONSTANTS
    Ids = {"u1", "u2"}
    First = {"u1"}
    PeerSecrets = 1
    MaxCommands = 3
    MaxFaults = 2
    MaxCrashes = 1
    Domains = {"d1", "d2"}
    MaxTasks = 2
    MaxFailures = 2
    MaxKills = 1
    EdgeIds = {"e1", "e2"}
    ClusterUsers = {"c1", "c2"}
    RouteNodes = {{"e1"}}
    MaxOperations = 2
    MaxFailed = 1
    MaxReleases = 2
    MaxUpdates = 2
    MaxGeoFaults = 1
    Rows = {"a", "b"}
    MaxListed = 1
    MaxInputs = 3
    EventQueue = 2
    MaxReports = 3
    MaximumJobs = 2
    MaxJobs = 3
INVARIANTS   
            PanelIsFaithful
CHECK_DEADLOCK FALSE
