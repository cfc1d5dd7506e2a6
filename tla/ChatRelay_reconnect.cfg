\* Two connections for two users and one uuid that belongs to nobody: a
\* reconnect, a replaced entry, a channel that Pings fill up.
SPECIFICATION Spec
CONSTANTS
    OutboxCap = 1
    MaxIncoming = 1
    NoConn = NoConn
    NoUser = NoUser
    Accounts = {u1, u2}
    Ids = {u1, u2, u3}
    Conns = {c1, c2}
    Requests = {h1}
SYMMETRY Symmetry
INVARIANTS
    TypeOK
    RegistrySound
    NoGap
PROPERTY ImplementsMailbox
