\* Two clients, one of which may be the proxy itself; half seconds.
SPECIFICATION Spec
CONSTANTS
    Requests = {r1, r2, r3, r4}
    Workers = {w1, w2}
    Addresses = {a1, a2}
    AnyAddress = AnyAddress
    NoKey = NoKey
    Absent = Absent
    Unreadable = Unreadable
    Shared = Shared
    Second = 2
    Interval = 3
    Burst = 2
    MaxTime = 6
SYMMETRY Symmetry
INVARIANTS
    TypeOK
    OwnFault
    PaceServed
    RateKept
    WaitSuffices
\* The system rests when its requests are used up.
CHECK_DEADLOCK FALSE
