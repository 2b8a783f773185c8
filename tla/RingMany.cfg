CONSTANTS
    Writers = {w1, w2}
    Cap = 3
    MaxLen = 3
    Budget = 6
SPECIFICATION FairSpec
INVARIANTS TypeOK BlockIntact NoDataRace TurnExists LoneWriterFits RingInv
PROPERTIES ActsAsQueue WriteReturns
CHECK_DEADLOCK FALSE
