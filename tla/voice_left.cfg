SPECIFICATION ClientSpec
CONSTANTS
    MaxStarts = 1
    Producers = {p1}
    MaxPending = 1
INVARIANTS LeavingClosesMedia
CHECK_DEADLOCK FALSE
