SPECIFICATION Spec
CONSTANTS
    c1 = c1
    c2 = c2
    c3 = c3
    Clocks = {c1}
    Ext <- OneThread
    CallbackModes = {FALSE}
    DeviceChoices = {TRUE, FALSE}
    TICK = 2
    Delays <- DelaysSmall
    COUNTDOWN = 1
    IDLES = 2
    MaxTime = 4
INVARIANT NoRace
CHECK_DEADLOCK FALSE
