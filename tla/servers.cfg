SPECIFICATION Spec
CONSTANTS
    o = o
    r1 = r1
    r2 = r2
    r3 = r3
    Users = {o, a, b}
    Owner = o
    Roles = {r1, r2, r3}
    DefaultRole = r1
    Invites = {i1, i2}
    DefaultBits <- NoBits
    BitSets <- TwoBitSets
    Priorities = {1, 2}
    Handlers = {h1, h2}
    MaxRequests = 4
    None = None
SYMMETRY Symmetry
INVARIANTS TypeOK NoEscalation BelowTheTop HeldRolesExist
PROPERTIES RevokedAdmitsNobody
CHECK_DEADLOCK FALSE
