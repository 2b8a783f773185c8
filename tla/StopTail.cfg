CONSTANTS
    Producers = {p1}
    Cap = 2
    MaxLen = 1
    Budget = 2
    WriteCacheSize = 1
    MaxLogFileSize = 2
    LossLine = 1
SPECIFICATION Spec
INVARIANT StopDrains
CHECK_DEADLOCK FALSE
