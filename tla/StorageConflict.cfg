CONSTANTS
    DefaultFile = 4
    Params <- GivenBoth
    Word = 16
    MaxWrite = 2
    Foreign <- Nobody
    Dates <- Undated
    MaxOther = 0
    MaxClock = 3
    Budget = 6
    Vanishing = 0
    Epoch <- EpochAhead
SPECIFICATION Spec
INVARIANTS ConflictResolved
CHECK_DEADLOCK FALSE
