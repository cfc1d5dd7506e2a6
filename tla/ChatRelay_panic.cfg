\* One connection is enough: a Ping is read, the socket breaks, the Pong panics.
SPECIFICATION FairSpec
CONSTANTS
    OutboxCap = 1
    MaxIncoming = 1
    NoConn = NoConn
    NoUser = NoUser
    Accounts = {u1, u2}
    Ids = {u1, u2}
    Conns = {c1}
    Requests = {h1}
PROPERTY DisconnectUnregisters
