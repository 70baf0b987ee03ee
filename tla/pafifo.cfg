SPECIFICATION FairSpec
CONSTANTS
    NBUFFERS = 2
    PERCALL = 2
    Modes = {"both", "in", "out"}
    MaxSends = 12
    MaxLost = 3
INVARIANTS TypeOK NoOverlap LosesAtMostOne
PROPERTIES RingsAreQueues SendReturns
CHECK_DEADLOCK FALSE
