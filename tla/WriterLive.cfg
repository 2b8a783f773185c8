CONSTANTS
    Producers = {p1}
    Cap = 2
    MaxLen = 2
    Budget = 3
    WriteCacheSize = 1
    MaxLogFileSize = 2
    LossLine = 1
SPECIFICATION UntimedSpec
PROPERTIES FlushReachesDisk EverythingStored EmptyStopReturns SpinEnds
CHECK_DEADLOCK FALSE
