SPECIFICATION Spec
CONSTANTS
    Carriers = {c1, c2}
    First = c1
    Traffic <- Download
    MaxPayload = 1
    JournalBytes = 1
    AckEvery = 1
    ReplayBuffer = 2
    MaxStreams = 2
    MaxLosses = 1
    Deadlines = FALSE
INVARIANT EofMeansComplete
CHECK_DEADLOCK FALSE
