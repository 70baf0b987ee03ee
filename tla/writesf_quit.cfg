SPECIFICATION Spec
CONSTANTS
    WANT = 3
    BUFSIZE = 18
    WRITESIZE = 4
    SIGS = 2
    CreateOutcomes = {"ok"}
    WriteOutcomes = {"ok"}
    MaxOpens = 1
    MaxRecorded = 24
INVARIANT QuitAcknowledged
CHECK_DEADLOCK FALSE
