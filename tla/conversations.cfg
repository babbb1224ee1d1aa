SPECIFICATION Spec
CONSTANTS
    Users = {1, 2, 3}
    Friendships = {f1, f2, f3}
    Attachments = {x1}
    Messages = {m1, m2}
    Handlers = {h1, h2}
    MaxRequests = 5
    None = None
SYMMETRY Symmetry
INVARIANTS TypeOK FriendsShareOneConversation FewActiveRelations FilesStayInConversations
PROPERTIES DecidedOnce
CHECK_DEADLOCK FALSE
