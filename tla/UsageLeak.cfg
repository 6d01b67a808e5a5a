SPECIFICATION Spec
CONSTANTS
    Users = {1}
    d1 = d1
    Devices = {d1}
    NoDevice = NoDevice
    Limits = {0}
    MaxHistory = 1
    MaxCount = 1
    MaxSessions = 1
    MaxBytes = 1
    MaxEdits = 0
    MaxFailures = 0
    MaxStops = 0
INVARIANT
    OnlineMeansActive
CHECK_DEADLOCK FALSE
