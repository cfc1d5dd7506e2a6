\* A user with a session sets a password.
SPECIFICATION Spec
CONSTANTS
    ActivationTTL = 2
    ResetTTL = 1
    SessionTTL = 2
    MaxTime = 0
    NoOp = NoOp
    NoPassword = NoPassword
    Garbage = Garbage
    Emails = {e1}
    Passwords = {p1}
    Ops = {o1, o2}
    Kinds = {"google", "setpw"}
INVARIANT SetPasswordWorks
\* The system rests when its bounded set of operations is used up.
CHECK_DEADLOCK FALSE
