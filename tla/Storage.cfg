CONSTANTS
    DefaultFile = 4
    Params <- Given
    Word = 16
    MaxWrite = 2
    Foreign <- Older
    Dates <- Undated
    MaxOther = 2
    MaxClock = 2
    Budget = 5
    Vanishing = 1
    Epoch <- EpochAhead
SPECIFICATION Spec
INVARIANTS TypeOK ActiveOnDisk LimitReached StorageInv
PROPERTIES OldestGoFirst RemovesOnlyOverLimit PrunesInTurn
CHECK_DEADLOCK FALSE
