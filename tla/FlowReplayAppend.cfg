SPECIFICATION Spec
CONSTANTS
    Carriers = {c1, c2}
    First = c1
    Traffic <- LongDownload
    MaxPayload = 3
    JournalBytes = 4
    AckEvery = 1
    ReplayBuffer = 2
    MaxStreams = 2
    MaxLosses = 1
    Deadlines = FALSE
INVARIANT ExactlyOnce
CHECK_DEADLOCK FALSE
