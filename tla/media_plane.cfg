SPECIFICATION Spec
CONSTANTS
    Channels = {c1}
    Sessions = {1}
    Routers = {1, 2}
    Transports = {1, 2}
    Handlers = {h1, h2}
    Deaths = {e1}
    Workers = {w1, w2}
    Directions = {"send"}
    None = None
SYMMETRY Symmetry
INVARIANTS TypeOK RegistryIsAlive RecordedIsReleased
CHECK_DEADLOCK FALSE
