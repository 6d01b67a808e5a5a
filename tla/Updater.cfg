SPECIFICATION MCSpec
CONSTANTS
    MaxVersion = 3
    MaxChecks = 1
    MaxFaults = 1
INVARIANTS ExclusiveUntilStolen SucceededIsWhole NodeIsKept
PROPERTIES RequestTakenUp ShownActivityEnds
