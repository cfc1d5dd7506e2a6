\* A valid session token, with the scopes as run_server registers them.
SPECIFICATION Spec
CONSTANTS
    Users = {u1}
    Requests = {r1}
    Tokens = {t1}
    Strings = {t1, empty}
    Utf8 = {t1}
    Empty = empty
    NoToken = NoToken
    NoUser = NoUser
    NoKey = NoKey
    Paths <- RoutePaths
    Orders <- AsRegistered
    SessionTTL = 1
    MaxTime = 1
PROPERTY ValidAdmitted
CHECK_DEADLOCK FALSE
