CONSTANTS
    Producers = {p1, p2}
    Cap = 2
    MaxLen = 2
    Budget = 5
    WriteCacheSize = 1
    MaxLogFileSize = 2
    LossLine = 1
SPECIFICATION Spec
INVARIANTS TypeOK StoredOnce LossAccounted SleepIsSafe FileBounded EmptyStopKeepsAll WriterInv
PROPERTY PrunesInTurn
CHECK_DEADLOCK FALSE
SYMMETRY AnyProducer
