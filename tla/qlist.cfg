SPECIFICATION Spec
CONSTANTS
    Symbols = {"s", "t"}
    Objects = {"o1", "o2", "o3", "o4"}
    Name <- MCName
    Loads <- MCLoads
    Lists <- MCLists
    MaxCalls = 4
INVARIANTS
    BindlistExact
    CrashNeedsChange
    RewindStops
    RightReceiver
CHECK_DEADLOCK FALSE
