CONSTANTS
    DefaultFile = 4
    Params <- GivenBoth
    Word = 16
    MaxWrite = 2
    Foreign <- Older
    Dates <- AheadBy
    MaxOther = 2
    MaxClock = 3
    Budget = 6
    Vanishing = 0
    Epoch <- EpochAhead
SPECIFICATION Spec
INVARIANTS AheadGoesFirst
CHECK_DEADLOCK FALSE
