\* Every handler, three at a time; no symmetry (it is unsound for liveness).
SPECIFICATION FairSpec
CONSTANTS
    ActivationTTL = 2
    ResetTTL = 1
    SessionTTL = 2
    MaxTime = 1
    NoOp = NoOp
    NoPassword = NoPassword
    Garbage = Garbage
    Emails = {e1}
    Passwords = {p1}
    Ops = {o1, o2, o3}
    Kinds = {"signup", "activate", "login", "request", "reset", "setpw", "logout", "google"}
PROPERTY Answers
\* The system rests when its bounded set of operations is used up.
CHECK_DEADLOCK FALSE
