CONSTANTS
    Producers = {p1}
    Cap = 2
    MaxLen = 2
    Budget = 2
    WriteCacheSize = 1
    MaxLogFileSize = 2
    LossLine = 1
SPECIFICATION FairSpec
PROPERTY StopReturns
CHECK_DEADLOCK FALSE
