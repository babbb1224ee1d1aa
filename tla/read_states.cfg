SPECIFICATION Spec
CONSTANTS
    Users = {u1, u2}
    Keys = {k1}
    Requests = {r1, r2}
    MaxMessages = 3
    TicksPerMillisecond = 2
    Truncated <- MCTruncated
    Direct = TRUE
    SerialUsers = {u1}
    Conversation = Conversation
    None = None
SYMMETRY RequestSymmetry
INVARIANTS TypeOK StoredOnce CrossingMessagesPass
PROPERTIES ReadPositionAdvances
CHECK_DEADLOCK FALSE
