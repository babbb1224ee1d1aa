SPECIFICATION FairSpec
CONSTANTS
    Users = {u1, u2}
    Channels = {c1}
    Sessions = {1, 2}
    Handlers = {h1}
    Moderators = {m1}
    Background = {b1}
    MaxParticipants = 1
    ClientStatuses = {"RECONNECTING"}
    None = None
INVARIANTS TypeOK NegotiatingOrProducing
PROPERTIES ImplementsLifecycle NegotiationResolves
CHECK_DEADLOCK FALSE
