------------------------------ MODULE RateLimit ------------------------------
(***************************************************************************)
(* The rate limiter in front of every route:                               *)
(*   src/src/middlewares/rate_limit.rs   RealIpKeyExtractor                *)
(*   src/src/server.rs                   governor_conf, the trusted proxy  *)
(*                                                                         *)
(* A request is keyed and counted in one step, before any await; a refusal *)
(* reads the clock again when it is written.  governor (generic cell rate  *)
(* algorithm, one cell per key) and actix-web's ConnectionInfo are         *)
(* external.  Time is counted in fractions of a second.                    *)
(***************************************************************************)
EXTENDS Integers, FiniteSets

CONSTANTS
    Requests, Workers,
    Addresses,      \* IP addresses that requests come from
    AnyAddress,     \* 0.0.0.0, which is nobody's
    NoKey,          \* no address could be extracted
    Absent,         \* no Forwarded or X-Forwarded-For header
    Unreadable,     \* a header that holds no IP address ("unknown", a name)
    Shared,
    Second,         \* units of time in a second
    Interval,       \* seconds_per_request(2)
    Burst,          \* burst_size(5)
    MaxTime         \* bound: how far the clock goes

\* An address as text, with a port or without.
Texts == [addr : Addresses, port : BOOLEAN]

ASSUME RateLimitAssumption ==
    /\ AnyAddress \notin Addresses
    /\ NoKey \notin Addresses
    /\ Absent \notin Texts
    /\ {Second, Interval, Burst} \subseteq Nat \ {0}
    /\ MaxTime \in Nat

VARIABLES
    host,       \* settings: the address listened on, taken for the proxy's
    tat,        \* tat[l][a]: theoretical arrival time of a's cell; -1 if there is none
    stage,
    client,     \* client[r]: who sent it, as far as the server is told
    at,         \* at[r]: when it was counted
    until,      \* until[r]: when it would have been admitted
    before,     \* before[r]: what had been admitted when it was refused
    after,      \* after[r]: the seconds it was told to wait
    told,       \* told[r]: when it was told so
    now

inputs == <<client, at>>
refusals == <<until, before, after, told>>
vars == <<host, tat, stage, inputs, refusals, now>>

Limiters == Workers \cup {Shared}
Tau == Burst * Interval

Passed  == {r \in Requests : stage[r] = "passed"}
Refused == {r \in Requests : stage[r] \in {"limited", "told"}}

Init ==
    /\ host \in Addresses \cup {AnyAddress}
    /\ tat = [l \in Limiters |-> [a \in Addresses |-> -1]]
    /\ stage = [r \in Requests |-> "idle"]
    /\ client = [r \in Requests |-> AnyAddress]
    /\ at = [r \in Requests |-> 0]
    /\ until = [r \in Requests |-> 0]
    /\ before = [r \in Requests |-> {}]
    /\ after = [r \in Requests |-> 0]
    /\ told = [r \in Requests |-> 0]
    /\ now = 0

-----------------------------------------------------------------------------
(* The key *)

\* SocketAddr::from_str wants a port, IpAddr::from_str wants none.
ParseSocket(t) == IF t \in Texts /\ t.port THEN t.addr ELSE NoKey
ParseIp(t)     == IF t \in Texts /\ ~t.port THEN t.addr ELSE NoKey

\* ConnectionInfo::peer_addr has no port; realip_remote_addr falls back on it.
PeerText(p)      == [addr |-> p, port |-> FALSE]
RealIpText(p, h) == IF h = Absent THEN PeerText(p) ELSE h

\* Faulty variant of the next definition: who it is for is not asked.
Extract_PeerOnly(p, h) == IF p = host THEN ParseIp(PeerText(p)) ELSE NoKey

\* A peer other than the proxy: its text has no port, so this finds no key.
Extract(p, h) ==
    IF p = host
    THEN LET t == RealIpText(p, h) IN IF ParseSocket(t) # NoKey THEN ParseSocket(t) ELSE ParseIp(t)
    ELSE ParseSocket(PeerText(p))

\* Who a request is from, as the proxy reports it or the connection shows.
Client(p, h) == IF p = host /\ h \in Texts THEN h.addr ELSE p

-----------------------------------------------------------------------------
(* The cells *)

\* Faulty variant: the configuration is built inside HttpServer's closure.
Limiter_PerWorker(w) == w

\* governor_conf is built once; the closure of each worker borrows it.
Limiter(w) == Shared

\* The cell's arrival time; one that is met for the first time starts one
\* interval ahead.
Arrival(l, a) == IF tat[l][a] = -1 THEN now + Interval ELSE tat[l][a]

\* The middleware's answers: 500 without a key, the handler, or 429.
Count(r, p, h, w) ==
    LET a == Extract(p, h)
        l == Limiter(w)
        t == Arrival(l, a)
    IN
    /\ stage[r] = "idle"
    /\ client' = [client EXCEPT ![r] = Client(p, h)]
    /\ at' = [at EXCEPT ![r] = now]
    /\ \/ /\ a = NoKey
          /\ stage' = [stage EXCEPT ![r] = "failed"]
          /\ UNCHANGED <<tat, until, before>>
       \/ /\ a # NoKey
          /\ now >= t - Tau
          /\ stage' = [stage EXCEPT ![r] = "passed"]
          /\ tat' = [tat EXCEPT ![l][a] = (IF t > now THEN t ELSE now) + Interval]
          /\ UNCHANGED <<until, before>>
       \/ /\ a # NoKey
          /\ now < t - Tau
          /\ stage' = [stage EXCEPT ![r] = "limited"]
          /\ until' = [until EXCEPT ![r] = t - Tau]
          /\ before' = [before EXCEPT ![r] = Passed]
          /\ UNCHANGED tat
    /\ UNCHANGED <<host, after, told, now>>

\* wait_time_from, nothing if the time is over already
WaitTime(r) == IF until[r] > now THEN until[r] - now ELSE 0

\* Faulty variants of the next definition; nothing uses them.
After_Minutes(r) == (WaitTime(r) \div Second) \div 60
After_Unsaturated(r) == (until[r] - now) \div Second

\* as_secs
After(r) == WaitTime(r) \div Second

\* exceed_rate_limit_response
Tell(r) ==
    /\ stage[r] = "limited"
    /\ stage' = [stage EXCEPT ![r] = "told"]
    /\ after' = [after EXCEPT ![r] = After(r)]
    /\ told' = [told EXCEPT ![r] = now]
    /\ UNCHANGED <<host, tat, inputs, until, before, now>>

Tick ==
    /\ now < MaxTime
    /\ now' = now + 1
    /\ UNCHANGED <<host, tat, stage, inputs, refusals>>

Next ==
    \/ \E r \in Requests :
          \/ \E p \in Addresses, h \in Texts \cup {Absent, Unreadable}, w \in Workers : Count(r, p, h, w)
          \/ Tell(r)
    \/ Tick

Spec == Init /\ [][Next]_vars

-----------------------------------------------------------------------------
(* Properties *)

TypeOK ==
    /\ host \in Addresses \cup {AnyAddress}
    /\ tat \in [Limiters -> [Addresses -> Nat \cup {-1}]]
    /\ stage \in [Requests -> {"idle", "passed", "failed", "limited", "told"}]
    /\ client \in [Requests -> Addresses \cup {AnyAddress}]
    /\ at \in [Requests -> Nat]
    /\ until \in [Requests -> Nat]
    /\ before \in [Requests -> SUBSET Requests]
    /\ after \in [Requests -> Nat]
    /\ told \in [Requests -> Nat]
    /\ now \in Nat

SameClient(r, q) == client[r] = client[q]

(* A client is refused for its own requests only: a whole burst of them was *)
(* admitted while a cell takes to refill (extract must not key by the       *)
(* connection when the proxy reports who it is for).                        *)
OwnFault ==
    \A r \in Refused :
        Cardinality({q \in before[r] : SameClient(q, r) /\ at[q] >= at[r] - Tau}) >= Burst

(* "replenishes one element every two seconds" (server.rs): a client is     *)
(* refused only if a request of its own was admitted within that time, so   *)
(* that one which keeps the pace is never refused, whatever the others do   *)
(* and however large its burst was.                                         *)
PaceServed ==
    \A r \in Refused : \E q \in before[r] : SameClient(q, r) /\ at[r] - at[q] < Interval

(* "Allow bursts with up to five requests per IP address and replenishes    *)
(* one element every two seconds" (server.rs), whatever worker takes the    *)
(* requests.  A cell that was idle lets one more through.                   *)
RateKept ==
    \A p, r \in Passed :
        SameClient(p, r) /\ at[p] <= at[r] =>
            Cardinality({q \in Passed : SameClient(q, r) /\ at[q] \in at[p] .. at[r]})
                <= Burst + 1 + (at[r] - at[p]) \div Interval

(* A client that waits one second more than "after" says is not refused     *)
(* again, unless another request of that client was admitted since.  (One   *)
(* that waits exactly as long can be: as_secs cuts off the fraction.)       *)
WaitSuffices ==
    \A q, r \in Refused :
        /\ SameClient(q, r)
        /\ stage[q] = "told"
        /\ at[r] >= told[q] + (after[q] + 1) * Second
        => \E s \in before[r] \ before[q] : SameClient(s, q)

=============================================================================
