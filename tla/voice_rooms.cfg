SPECIFICATION Spec
CONSTANTS
    Users = {u1, u2, u3}
    Channels = {c1}
    Sessions = {1, 2, 3}
    Handlers = {h1, h2}
    Moderators = {}
    Background = {}
    MaxParticipants = 1
    ClientStatuses = {"RECONNECTING"}
    None = None
SYMMETRY Symmetry
INVARIANTS EndedIsClosed ExtraSessionsOverlapped CapacityOvershootBounded
CHECK_DEADLOCK FALSE
