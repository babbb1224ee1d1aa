SPECIFICATION Spec
CONSTANTS
    Sessions = {s1, s2}
    Handlers = {h1, h2}
    MaxAttempts = 2
    MaxTokens = 4
    MaxCodes = 2
    MaxPasswords = 2
    MaxGuesses = 4
SYMMETRY Symmetry
INVARIANTS TypeOK OldPasswordOpensNothingLater TokenExchangesBounded GuessesBounded
CHECK_DEADLOCK FALSE
