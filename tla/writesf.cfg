SPECIFICATION FairSpec
CONSTANTS
    WANT = 3
    BUFSIZE = 18
    WRITESIZE = 4
    SIGS = 2
    CreateOutcomes = {"ok", "fail"}
    WriteOutcomes = {"ok", "short"}
    MaxOpens = 2
    MaxRecorded = 24
INVARIANTS TypeOK IdleIsClosed
PROPERTIES WritesInOrder FlushedOnClose MethodsReturn
CHECK_DEADLOCK FALSE
