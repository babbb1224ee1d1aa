SPECIFICATION FairSpec
CONSTANTS
    u1 = u1
    c1 = c1
    Users = {u1}
    Connections = {c1}
    Owner <- OneOfOne
    Handlers = {h1, h2}
    Sweeps = {s1}
    Desired = {"online", "invisible"}
    None = None
INVARIANTS TypeOK TrackedHasScore NobodyForgotten
PROPERTIES GoneGoesOffline
CHECK_DEADLOCK FALSE
