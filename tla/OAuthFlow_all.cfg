\* Two flows, two codes, two callbacks of one Google account, whose address
\* may change; no symmetry (it is unsound for liveness).
SPECIFICATION FairSpec
CONSTANTS
    Flows = {f1, f2}
    Codes = {k1, k2}
    Callbacks = {c1, c2}
    Subs = {s1}
    Emails = {e1, e2}
    None = None
    StateTTL = 1
    Grace = 1
    MaxTime = 2
INVARIANTS
    TypeOK
    OneTimeUse
    OwnFlow
PROPERTIES
    StaleStatesRefused
    ImplementsSignIn
    OnlyGoogleKeepsWaiting
\* The system rests when its flows and callbacks are used up.
CHECK_DEADLOCK FALSE
