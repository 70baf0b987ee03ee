SPECIFICATION FairSpec
CONSTANTS
    BLK = 2
    BUF_JACK = 5
    Periods = {1, 4, 6}
    MaxSpurious = 1
INVARIANTS TypeOK CopiesAreSafe
PROPERTIES NoneLostNoneTwice SendReturns
CHECK_DEADLOCK FALSE
