SPECIFICATION FairSpec
CONSTANTS
    Clients = {c1, c2}
    GUI_UPDATESLICE = 2
    GUI_BYTESPERPING = 3
    Lens = {2}
    INBUFSIZE = 4
    UserMsgs <- MCUserMsgs
    SOCKET = 2
    MaxEvents = 2
INVARIANTS
    QueueExact
    PingOnTheWay
    Backpressure
    WholeMessages
PROPERTIES
    EventuallyDrawn
CHECK_DEADLOCK FALSE
