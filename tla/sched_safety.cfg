SPECIFICATION Spec
CONSTANTS
    c1 = c1
    c2 = c2
    c3 = c3
    Clocks = {c1, c2}
    Ext <- OneThread
    CallbackModes = {TRUE, FALSE}
    DeviceChoices = {TRUE}
    TICK = 2
    Delays <- DelaysPastAndNext
    COUNTDOWN = 0
    IDLES = 1
    MaxTime = 3
SYMMETRY ClockSymmetry
INVARIANTS TypeOK ClockList TicksAreExclusive TickAhead
PROPERTIES TimeForward FirstSetFirstFired
CHECK_DEADLOCK FALSE
