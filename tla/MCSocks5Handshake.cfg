SPECIFICATION FairSpec
CONSTANTS
    Names = {"u", "v"}
    Passwords = {"x", "y"}
    Password <- PasswordOf
    NoOne = "none"
    Empty = "empty"
CHECK_DEADLOCK FALSE
INVARIANTS
    Aligned
    Agreement
    Authorized
    RefsExact
PROPERTIES
    Meets
