\* Two sends and the client's Pings compete for one channel; no symmetry (it is
\* unsound for liveness).
SPECIFICATION FairSpec
CONSTANTS
    OutboxCap = 1
    MaxIncoming = 1
    NoConn = NoConn
    NoUser = NoUser
    Accounts = {u1, u2}
    Ids = {u1, u2}
    Conns = {c1}
    Requests = {h1, h2}
INVARIANTS
    StreamOrder
    HistoryFaithful
    ListsAgree
PROPERTIES
    SettlesOrStuck
    BrokenIsUnregistered
