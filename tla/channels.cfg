SPECIFICATION Spec
CONSTANTS
    o = o
    b = b
    everyone = everyone
    moderator = moderator
    Users = {o, b}
    Owner = o
    RolesOf <- TwoRoles
    BitsOf <- RoleBits
    Channels = {c1}
    Types = {"text", "voice"}
    OverwriteSets <- ManyRules
    Handlers = {h1, h2}
    MaxRequests = 3
    None = None
SYMMETRY Symmetry
INVARIANTS TypeOK OverwritesComeFromOneRequest AccessIsAsDocumented EventsMatchCommits
CHECK_DEADLOCK FALSE
