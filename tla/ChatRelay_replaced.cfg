\* One user opens two connections; the first one's end removes the second's entry.
SPECIFICATION Spec
CONSTANTS
    OutboxCap = 1
    MaxIncoming = 1
    NoConn = NoConn
    NoUser = NoUser
    Accounts = {u1, u2}
    Ids = {u1, u2}
    Conns = {c1, c2}
    Requests = {h1}
INVARIANT ConnectedIsRegistered
