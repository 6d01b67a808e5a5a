SPECIFICATION MCSpec
CONSTANTS
    Carriers = {c1, c2, c3}
    First = c1
    Traffic <- Download
    MaxPayload = 2
    JournalBytes = 2
    AckEvery = 1
    ReplayBuffer = 2
    MaxStreams = 3
    MaxLosses = 2
    Deadlines = FALSE
SYMMETRY Sym
INVARIANTS ExactlyOnce JournalsAreSound
PROPERTY OffsetsNeverRegress
CHECK_DEADLOCK FALSE
