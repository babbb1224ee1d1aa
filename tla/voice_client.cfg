SPECIFICATION ClientSpec
CONSTANTS
    MaxStarts = 2
    Producers = {p1}
    MaxPending = 1
INVARIANTS ClientTypeOK ConnectedMeansSending SilentOrShown
 
CHECK_DEADLOCK FALSE
