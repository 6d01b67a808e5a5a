SPECIFICATION MCSpec
CONSTANTS
    MaxCarriers = 3
    Configured = 3
    MaxDeaths = 2
    MaxChanges = 1
    MaxStarts = 2
    MaxCalls = 2
    MaxRuntimes = 3
    MaxConnects = 2
    MaxAttempts = 2
    MaxConnectCalls = 2
    MaxCrashes = 1
    Nodes = {"n1", "n2"}
    LocalRoutes = {"r1"}
    MaxRevision = 2
    MaxEdits = 5
INVARIANTS PoolIsConsistent ControllerIsConsistent CoreIsConsistent RoutesAreRecoverable RemovedNodesStayAway
PROPERTY DeathIsNoticed
CHECK_DEADLOCK FALSE
