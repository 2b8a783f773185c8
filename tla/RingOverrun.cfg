CONSTANTS
    Writers = {w1, w2}
    Cap = 3
    MaxLen = 2
    Budget = 6
SPECIFICATION Spec
INVARIANT AcceptedBytesSurvive
CHECK_DEADLOCK FALSE
