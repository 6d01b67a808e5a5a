SPECIFICATION Spec
CONSTANTS
    Carriers = {c1, c2}
    First = c1
    Traffic <- Upload
    MaxPayload = 2
    JournalBytes = 2
    AckEvery = 1
    ReplayBuffer = 2
    MaxStreams = 2
    MaxLosses = 2
    Deadlines = TRUE
INVARIANTS ExactlyOnce
CHECK_DEADLOCK FALSE
