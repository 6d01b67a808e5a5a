SPECIFICATION FairSpec
CONSTANTS
    MaxOpens = 2
    MaxStreams <- Limits
    Window <- Windows
    Divisor = 1
    RetiredLimit = 2
    Bytes <- Payload
    MaxTrouble = 2
INVARIANTS FlowControlIsExact
PROPERTY OpenedStreamsRetire
CHECK_DEADLOCK FALSE
