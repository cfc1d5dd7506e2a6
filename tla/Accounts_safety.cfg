\* Every handler, three at a time, over two addresses.
SPECIFICATION Spec
CONSTANTS
    ActivationTTL = 1
    ResetTTL = 1
    SessionTTL = 1
    MaxTime = 1
    NoOp = NoOp
    NoPassword = NoPassword
    Garbage = Garbage
    Emails = {e1, e2}
    Passwords = {p1, p2}
    Ops = {o1, o2, o3}
    Kinds = {"signup", "activate", "login", "request", "reset", "setpw", "logout", "google"}
SYMMETRY Symmetry
INVARIANTS
    TypeOK
    ActivationUsesTokensUp
    OneWinner
    ResetUsesTokenUp
    ResetTakesEffect
    LogoutFinal
    WaitsAreShort
PROPERTIES
    ActivationHonoured
    PasswordByOwner
    ImplementsCredentials
\* The system rests when its bounded set of operations is used up.
CHECK_DEADLOCK FALSE
