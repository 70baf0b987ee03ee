SPECIFICATION FairSpec
CONSTANTS
    Files <- SomeFiles
    DEFFRAME = 2
    VEC = 3
    BUFSIZE = 18
    READSIZE = 4
    SIGS = 2
    OpenOutcomes = {"ok", "absent"}
    ReadOutcomes = {"ok", "error"}
    MaxOpens = 2
    MaxPlayed = 30
INVARIANTS TypeOK DescriptorHeld
PROPERTIES PlaysInOrder BangsAtEnd StreamEnds FreeReturns
CHECK_DEADLOCK FALSE
