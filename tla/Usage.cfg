SPECIFICATION MCSpec
CONSTANTS
    Users = {1}
    d1 = d1
    d2 = d2
    d3 = d3
    Devices = {d1, d2, d3}
    NoDevice = NoDevice
    Limits = {0, 1}
    MaxHistory = 2
    MaxCount = 1
    MaxSessions = 2
    MaxBytes = 2
    MaxEdits = 1
    MaxFailures = 1
    MaxStops = 1
SYMMETRY DeviceSymmetry
VIEW View
INVARIANTS
    
    TrafficIsExact
PROPERTY CeilingHolds
CHECK_DEADLOCK FALSE
