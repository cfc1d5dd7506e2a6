\* Every route, with live, expired, revoked, foreign and missing tokens; the scopes
\* as run_server registers them and the most specific first.
SPECIFICATION Spec
CONSTANTS
    Users = {u1, u2}
    Requests = {r1}
    Tokens = {t1, t2}
    Strings = {t1, t2, junk, empty}
    Utf8 = {t1, junk}
    Empty = empty
    NoToken = NoToken
    NoUser = NoUser
    NoKey = NoKey
    Paths <- RoutePaths
    Orders <- EitherOrder
    SessionTTL = 1
    MaxTime = 1
SYMMETRY Symmetry
INVARIANTS
    TypeOK
    PublicOnly
\* A request is sent once, the clock ends at MaxTime.
CHECK_DEADLOCK FALSE
