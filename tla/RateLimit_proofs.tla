--------------------------- MODULE RateLimit_proofs ---------------------------
(***************************************************************************)
(* Proofs about RateLimit, from RateLimitAssumption and for any numbers of *)
(* requests, workers and addresses, any interval and any burst.            *)
(***************************************************************************)
EXTENDS RateLimit, FiniteSetTheorems, TLAPS

Headers == Texts \cup {Absent, Unreadable}

(* Who is counted is counted as a client with an address. *)
Keyed ==
    /\ \A r \in Requests : stage[r] # "idle" => at[r] <= now
    /\ \A r \in Passed \cup Refused : client[r] \in Addresses

(* Until another request of the client is admitted, a refused one names the *)
(* time at which its cell lets the next one through.                        *)
Pending ==
    \A q \in Refused :
        /\ before[q] \subseteq Passed
        /\ \/ tat[Shared][client[q]] # -1 /\ tat[Shared][client[q]] = until[q] + Tau
           \/ \E s \in Passed \ before[q] : SameClient(s, q)

(* That time is less than a second after what the client is told. *)
Announced ==
    \A q \in Requests : stage[q] = "told" => until[q] < told[q] + (after[q] + 1) * Second

IInv == TypeOK /\ Keyed /\ Pending /\ Announced /\ WaitSuffices

-----------------------------------------------------------------------------
(* Numbers *)

LEMMA TauBounds == Tau \in Nat /\ Tau >= Interval /\ Interval > 0 /\ Second > 0
<1>1. Burst \in Nat /\ Interval \in Nat /\ Burst >= 1 /\ Interval >= 1 /\ Second \in Nat /\ Second >= 1
    BY RateLimitAssumption
<1>2. (Burst - 1) * Interval \in Nat /\ Burst * Interval = (Burst - 1) * Interval + Interval
    BY <1>1
<1>3. QED  BY <1>1, <1>2 DEF Tau

(* as_secs loses less than a second. *)
LEMMA Truncated ==
    ASSUME NEW w \in Nat
    PROVE  w \div Second \in Nat /\ w < (w \div Second + 1) * Second
<1>1. Second \in Nat /\ Second >= 1
    BY RateLimitAssumption
<1>2. w \div Second \in Int /\ w \div Second >= 0
    BY <1>1
<1>3. w < (w \div Second + 1) * Second
    BY <1>1
<1>4. QED  BY <1>2, <1>3

(* extract finds an address only for what comes from the proxy, and then    *)
(* the client's.                                                            *)
LEMMA ExtractIsClient ==
    ASSUME NEW p \in Addresses, NEW h \in Headers, Extract(p, h) # NoKey
    PROVE  p = host /\ Extract(p, h) = Client(p, h) /\ Client(p, h) \in Addresses
<1>1. ParseSocket(PeerText(p)) = NoKey
    BY DEF ParseSocket, PeerText
<1>2. p = host
    BY <1>1 DEF Extract
<1>3. CASE h = Absent
    BY <1>2, <1>3, RateLimitAssumption DEF Extract, ParseSocket, ParseIp, RealIpText, PeerText, Client, Texts
<1>4. CASE h # Absent
    BY <1>2, <1>4, RateLimitAssumption DEF Extract, ParseSocket, ParseIp, RealIpText, Client, Texts
<1>5. QED  BY <1>2, <1>3, <1>4

-----------------------------------------------------------------------------
(* What counting does *)

(* A request is failed, admitted or refused, and its client's cell decides. *)
LEMMA CountCases ==
    ASSUME TypeOK, NEW r \in Requests, NEW p \in Addresses, NEW h \in Headers, NEW w \in Workers,
           Count(r, p, h, w)
    PROVE  LET a == Client(p, h)
               t == Arrival(Shared, a)
           IN
           /\ stage[r] = "idle" /\ now' = now /\ host' = host /\ UNCHANGED <<after, told>>
           /\ client' = [client EXCEPT ![r] = a]
           /\ at' = [at EXCEPT ![r] = now]
           /\ \/ stage' = [stage EXCEPT ![r] = "failed"] /\ UNCHANGED <<tat, until, before>>
              \/ /\ a \in Addresses
                 /\ now >= t - Tau
                 /\ stage' = [stage EXCEPT ![r] = "passed"]
                 /\ tat' = [tat EXCEPT ![Shared][a] = (IF t > now THEN t ELSE now) + Interval]
                 /\ UNCHANGED <<until, before>>
              \/ /\ a \in Addresses
                 /\ now < t - Tau
                 /\ stage' = [stage EXCEPT ![r] = "limited"]
                 /\ until' = [until EXCEPT ![r] = t - Tau]
                 /\ before' = [before EXCEPT ![r] = Passed]
                 /\ UNCHANGED tat
<1>1. CASE Extract(p, h) = NoKey
    BY <1>1 DEF Count
<1>2. CASE Extract(p, h) # NoKey
    <2>1. p = host /\ Extract(p, h) = Client(p, h) /\ Client(p, h) \in Addresses
        BY <1>2, ExtractIsClient
    <2>2. QED  BY <1>2, <2>1 DEF Count, Limiter
<1>3. QED  BY <1>1, <1>2

(* A cell that refuses has an arrival time, and one that has not come. *)
LEMMA RefusesKnown ==
    ASSUME TypeOK, NEW a \in Addresses, now < Arrival(Shared, a) - Tau
    PROVE  /\ tat[Shared][a] # -1 /\ Arrival(Shared, a) = tat[Shared][a]
           /\ tat[Shared][a] - Tau \in Nat /\ now < tat[Shared][a] - Tau
<1>1. /\ tat[Shared][a] \in Nat \cup {-1} /\ now \in Nat /\ Interval \in Nat /\ Tau \in Nat
      /\ Tau >= Interval
    BY TauBounds, RateLimitAssumption DEF TypeOK, Limiters
<1>2. QED  BY <1>1 DEF Arrival

LEMMA ClientAddress ==
    ASSUME NEW p \in Addresses, NEW h \in Headers
    PROVE  Client(p, h) \in Addresses
    BY DEF Client, Texts

-----------------------------------------------------------------------------
(* The steps *)

LEMMA InitInv == Init => IInv
<1> SUFFICES ASSUME Init PROVE IInv
    OBVIOUS
<1>1. TypeOK
    BY DEF Init, TypeOK
<1>2. Passed = {} /\ Refused = {}
    BY DEF Init, Passed, Refused
<1>3. QED  BY <1>1, <1>2 DEF Init, IInv, Keyed, Pending, Announced, WaitSuffices

LEMMA CountStep ==
    ASSUME IInv, NEW r \in Requests, NEW p \in Addresses, NEW h \in Headers, NEW w \in Workers,
           Count(r, p, h, w)
    PROVE  IInv'
<1> DEFINE a == Client(p, h)
           t == Arrival(Shared, a)
           Enters(st) == stage' = [stage EXCEPT ![r] = st]
<1> USE DEF IInv
<1>1. /\ stage[r] = "idle" /\ now' = now /\ host' = host /\ after' = after /\ told' = told
      /\ client' = [client EXCEPT ![r] = a]
      /\ at' = [at EXCEPT ![r] = now]
    BY CountCases
<1>2. a \in Addresses /\ now \in Nat
    BY ClientAddress DEF TypeOK
<1>3. \A q \in Requests \ {r} : client'[q] = client[q] /\ at'[q] = at[q]
    BY <1>1 DEF TypeOK
<1>4. r \notin Passed \cup Refused
    BY <1>1 DEF Passed, Refused
<1>5. CASE Enters("failed") /\ tat' = tat /\ until' = until /\ before' = before
    <2>1. Passed' = Passed /\ Refused' = Refused
        BY <1>1, <1>5 DEF Passed, Refused, TypeOK
    <2>2. TypeOK'
        BY <1>1, <1>2, <1>5 DEF TypeOK
    <2>3. Keyed'
        BY <1>1, <1>2, <1>3, <1>4, <1>5, <2>1 DEF Keyed, TypeOK
    <2>4. Pending'
        BY <1>3, <1>4, <1>5, <2>1 DEF Pending, SameClient, Passed, Refused
    <2>5. Announced'
        BY <1>1, <1>5 DEF Announced, TypeOK
    <2>6. WaitSuffices'
        BY <1>1, <1>3, <1>4, <1>5, <2>1 DEF WaitSuffices, SameClient, Pending, Passed, Refused, TypeOK
    <2>7. QED  BY <2>2, <2>3, <2>4, <2>5, <2>6
<1>6. CASE /\ now >= t - Tau /\ Enters("passed")
           /\ tat' = [tat EXCEPT ![Shared][a] = (IF t > now THEN t ELSE now) + Interval]
           /\ until' = until /\ before' = before
    <2>1. Passed' = Passed \cup {r} /\ Refused' = Refused
        BY <1>1, <1>6 DEF Passed, Refused, TypeOK
    <2>2. TypeOK'
        <3>1. t \in Nat /\ Interval \in Nat /\ Shared \in Limiters
            BY <1>2, RateLimitAssumption DEF Arrival, TypeOK, Limiters
        <3>2. tat' \in [Limiters -> [Addresses -> Nat \cup {-1}]]
            BY <1>2, <1>6, <3>1 DEF TypeOK
        <3>3. QED  BY <1>1, <1>2, <1>6, <3>2 DEF TypeOK
    <2>3. Keyed'
        BY <1>1, <1>2, <1>3, <1>6, <2>1 DEF Keyed, TypeOK
    <2>4. Pending'
        <3>1. SUFFICES ASSUME NEW q \in Refused
                       PROVE  /\ before[q] \subseteq Passed \cup {r}
                              /\ \/ /\ tat'[Shared][client[q]] # -1
                                    /\ tat'[Shared][client[q]] = until[q] + Tau
                                 \/ \E s \in (Passed \cup {r}) \ before[q] : client'[s] = client[q]
            BY <1>3, <1>4, <1>6, <2>1 DEF Pending, SameClient, Refused
        <3>2. before[q] \subseteq Passed /\ client[q] \in Addresses
            BY DEF Pending, Keyed
        <3>3. CASE client[q] = a
            BY <1>1, <1>4, <3>2, <3>3 DEF TypeOK
        <3>4. CASE client[q] # a
            <4>1. tat'[Shared][client[q]] = tat[Shared][client[q]]
                BY <1>6, <3>2, <3>4 DEF TypeOK, Limiters
            <4>2. \A s \in Passed : client'[s] = client[s]
                BY <1>3, <1>4 DEF Passed
            <4>3. QED  BY <3>2, <4>1, <4>2 DEF Pending, SameClient
        <3>5. QED  BY <3>3, <3>4
    <2>5. Announced'
        BY <1>1, <1>6 DEF Announced, TypeOK
    <2>6. WaitSuffices'
        BY <1>1, <1>3, <1>4, <1>6, <2>1 DEF WaitSuffices, SameClient, Pending, Passed, Refused, TypeOK
    <2>7. QED  BY <2>2, <2>3, <2>4, <2>5, <2>6
<1>7. CASE /\ now < t - Tau /\ Enters("limited")
           /\ until' = [until EXCEPT ![r] = t - Tau]
           /\ before' = [before EXCEPT ![r] = Passed]
           /\ tat' = tat
    <2>1. Passed' = Passed /\ Refused' = Refused \cup {r}
        BY <1>1, <1>7 DEF Passed, Refused, TypeOK
    <2>2. /\ tat[Shared][a] # -1 /\ t = tat[Shared][a]
          /\ t - Tau \in Nat /\ Tau \in Nat /\ t \in Int
        <3>1. now < Arrival(Shared, a) - Tau
            BY <1>7
        <3>2. /\ tat[Shared][a] # -1 /\ Arrival(Shared, a) = tat[Shared][a]
              /\ tat[Shared][a] - Tau \in Nat
            BY <1>2, <3>1, RefusesKnown
        <3>3. tat[Shared][a] \in Nat \cup {-1}
            BY <1>2 DEF TypeOK, Limiters
        <3>4. QED  BY <3>2, <3>3, TauBounds
    <2>3. Passed \subseteq Requests /\ r \notin Passed
        BY <1>4 DEF Passed
    <2>4. TypeOK'
        BY <1>1, <1>2, <1>7, <2>2, <2>3 DEF TypeOK
    <2>5. Keyed'
        BY <1>1, <1>2, <1>3, <1>7, <2>1 DEF Keyed, TypeOK
    <2>6. /\ until'[r] = t - Tau /\ before'[r] = Passed /\ client'[r] = a /\ at'[r] = now
          /\ stage'[r] = "limited"
          /\ \A q \in Requests \ {r} : until'[q] = until[q] /\ before'[q] = before[q] /\ stage'[q] = stage[q]
        BY <1>1, <1>7 DEF TypeOK
    <2>7. Pending'
        <3>1. SUFFICES ASSUME NEW q \in Refused \cup {r}
                       PROVE  /\ before'[q] \subseteq Passed
                              /\ \/ /\ tat[Shared][client'[q]] # -1
                                    /\ tat[Shared][client'[q]] = until'[q] + Tau
                                 \/ \E s \in Passed \ before'[q] : client'[s] = client'[q]
            BY <1>7, <2>1 DEF Pending, SameClient
        <3>2. CASE q = r
            BY <2>2, <2>6, <3>2
        <3>3. CASE q \in Refused \ {r}
            BY <1>3, <2>3, <2>6, <3>3 DEF Pending, SameClient, Refused
        <3>4. QED  BY <3>2, <3>3
    <2>8. Announced'
        BY <1>1, <2>6 DEF Announced
    <2>9. WaitSuffices'
        <3>1. SUFFICES ASSUME NEW q \in Refused \cup {r}, NEW o \in Refused \cup {r},
                              client'[q] = client'[o], stage'[q] = "told",
                              at'[o] >= told[q] + (after[q] + 1) * Second
                       PROVE  \E s \in before'[o] \ before'[q] : client'[s] = client'[q]
            BY <1>1, <2>1 DEF WaitSuffices, SameClient
        <3>2. q \in Refused /\ q # r /\ q \in Requests
            BY <2>6, <3>1 DEF Refused
        <3>3. \A s \in Passed : client'[s] = client[s]
            BY <1>3, <2>3
        <3>4. before[q] \subseteq Passed
            BY <3>2 DEF Pending
        <3>5. CASE o = r
            <4>1. until[q] < told[q] + (after[q] + 1) * Second
                BY <1>1, <2>6, <3>1, <3>2 DEF Announced
            <4>2. client[q] = a /\ now >= told[q] + (after[q] + 1) * Second
                BY <1>3, <2>6, <3>1, <3>2, <3>5
            <4>3. ~(tat[Shared][client[q]] = until[q] + Tau)
                <5>1. until[q] \in Nat /\ told[q] \in Nat /\ after[q] \in Nat /\ Second \in Nat
                    BY <3>2, RateLimitAssumption DEF TypeOK
                <5>2. (after[q] + 1) * Second \in Nat
                    BY <5>1
                <5>3. until[q] < now
                    BY <1>2, <4>1, <4>2, <5>1, <5>2
                <5>4. QED  BY <1>2, <1>7, <2>2, <4>2, <5>1, <5>3
            <4>4. PICK s \in Passed \ before[q] : SameClient(s, q)
                BY <3>2, <4>3 DEF Pending
            <4>5. QED  BY <1>3, <2>6, <3>2, <3>3, <3>5, <4>4 DEF SameClient
        <3>6. CASE o # r
            <4>1. o \in Refused /\ o \in Requests
                BY <3>6 DEF Refused
            <4>2. PICK s \in before[o] \ before[q] : SameClient(s, q)
                BY <1>1, <1>3, <2>6, <3>1, <3>2, <3>6, <4>1 DEF WaitSuffices, SameClient
            <4>3. s \in Passed
                BY <4>1, <4>2 DEF Pending
            <4>4. QED  BY <1>3, <2>6, <3>2, <3>3, <3>6, <4>1, <4>2, <4>3 DEF SameClient
        <3>7. QED  BY <3>5, <3>6
    <2>10. QED  BY <2>4, <2>5, <2>7, <2>8, <2>9
<1>8. QED  BY <1>2, <1>5, <1>6, <1>7, CountCases

LEMMA TellStep ==
    ASSUME IInv, NEW r \in Requests, Tell(r)
    PROVE  IInv'
<1> USE DEF IInv, Tell, inputs
<1>1. Passed' = Passed /\ Refused' = Refused
    BY DEF Passed, Refused, TypeOK
<1>2. until[r] \in Nat /\ now \in Nat /\ WaitTime(r) \in Nat
    BY DEF TypeOK, WaitTime
<1>3. After(r) \in Nat /\ WaitTime(r) < (After(r) + 1) * Second
    BY <1>2, Truncated DEF After
<1>4. /\ told'[r] = now /\ after'[r] = After(r)
      /\ \A q \in Requests \ {r} : told'[q] = told[q] /\ after'[q] = after[q] /\ stage'[q] = stage[q]
    BY DEF TypeOK
<1>5. TypeOK'
    BY <1>2, <1>3 DEF TypeOK
<1>6. Keyed'
    BY <1>1 DEF Keyed, TypeOK
<1>7. Pending'
    BY <1>1 DEF Pending, SameClient
<1>8. (After(r) + 1) * Second \in Nat /\ (After(r) + 1) * Second > 0
    BY <1>2, <1>3, RateLimitAssumption
<1>9. Announced'
    <2>1. until[r] < now + (After(r) + 1) * Second
        BY <1>2, <1>3, <1>8 DEF WaitTime
    <2>2. QED  BY <1>4, <2>1 DEF Announced
<1>10. WaitSuffices'
    <2>1. \A o \in Refused : at[o] \in Nat /\ at[o] <= now
        BY DEF Keyed, Refused, TypeOK
    <2>2. \A o \in Refused : ~(at[o] >= now + (After(r) + 1) * Second)
        BY <1>2, <1>8, <2>1
    <2>3. Refused \subseteq Requests
        BY DEF Refused
    <2>4. QED  BY <1>1, <1>4, <2>2, <2>3 DEF WaitSuffices, SameClient
<1>11. QED  BY <1>5, <1>6, <1>7, <1>9, <1>10

LEMMA TickStep ==
    ASSUME IInv, Tick \/ UNCHANGED vars
    PROVE  IInv'
<1> USE DEF IInv, Tick, vars, inputs, refusals
<1>1. Passed' = Passed /\ Refused' = Refused /\ now \in Nat /\ now' \in Nat /\ now <= now'
    BY DEF Passed, Refused, TypeOK
<1>2. TypeOK'
    BY <1>1 DEF TypeOK
<1>3. Keyed'
    BY <1>1 DEF Keyed, TypeOK
<1>4. Pending' /\ Announced' /\ WaitSuffices'
    BY <1>1 DEF Pending, Announced, WaitSuffices, SameClient
<1>5. QED  BY <1>2, <1>3, <1>4

-----------------------------------------------------------------------------
(* How much is admitted.  A cell's arrival time is bounded from above and   *)
(* from below by the number of requests admitted since some time.           *)

Since(a, u) == {q \in Passed : client[q] = a /\ at[q] >= u}
N(a, u)     == Cardinality(Since(a, u))

\* From above, for the time that a burst takes to refill ..
Above ==
    /\ \A a \in Addresses : tat[Shared][a] <= now + Tau + Interval
    /\ \A a \in Addresses, u \in (now - Tau) .. now :
          tat[Shared][a] <= u + Tau + Interval + Interval * N(a, u)

\* .. and from below, for every admitted request.
Below == \A p \in Passed : tat[Shared][client[p]] >= at[p] + Interval * N(client[p], at[p])

Debt == IsFiniteSet(Passed) /\ Above /\ Below /\ OwnFault /\ RateKept

LEMMA NType ==
    ASSUME IsFiniteSet(Passed), NEW a, NEW u
    PROVE  IsFiniteSet(Since(a, u)) /\ N(a, u) \in Nat
<1>1. Since(a, u) \subseteq Passed
    BY DEF Since
<1>2. IsFiniteSet(Since(a, u))
    BY <1>1, FS_Subset
<1>3. QED  BY <1>2, FS_CardinalityType DEF N

(* Nothing is admitted. *)
LEMMA SinceSame ==
    ASSUME Passed' = Passed, \A q \in Passed : client'[q] = client[q] /\ at'[q] = at[q],
           NEW a, NEW u
    PROVE  Since(a, u)' = Since(a, u) /\ N(a, u)' = N(a, u)
<1>1. Since(a, u)' = Since(a, u)
    BY DEF Since
<1>2. QED  BY <1>1 DEF N

(* One request is admitted. *)
LEMMA SinceAdded ==
    ASSUME IsFiniteSet(Passed), NEW r, r \notin Passed, Passed' = Passed \cup {r},
           \A q \in Passed : client'[q] = client[q] /\ at'[q] = at[q],
           NEW a, NEW u
    PROVE  IF client'[r] = a /\ at'[r] >= u
           THEN Since(a, u)' = Since(a, u) \cup {r} /\ N(a, u)' = N(a, u) + 1
           ELSE Since(a, u)' = Since(a, u) /\ N(a, u)' = N(a, u)
<1>1. CASE client'[r] = a /\ at'[r] >= u
    <2>1. Since(a, u)' = Since(a, u) \cup {r}
        BY <1>1 DEF Since
    <2>2. r \notin Since(a, u) /\ IsFiniteSet(Since(a, u))
        BY NType DEF Since
    <2>3. Cardinality(Since(a, u) \cup {r}) = Cardinality(Since(a, u)) + 1
        BY <2>2, FS_AddElement
    <2>4. QED  BY <1>1, <2>1, <2>3 DEF N
<1>2. CASE ~(client'[r] = a /\ at'[r] >= u)
    <2>1. Since(a, u)' = Since(a, u)
        BY <1>2 DEF Since
    <2>2. QED  BY <1>2, <2>1 DEF N
<1>3. QED  BY <1>1, <1>2

LEMMA InitDebt == Init => Debt
<1> SUFFICES ASSUME Init PROVE Debt
    OBVIOUS
<1>1. Passed = {} /\ Refused = {}
    BY DEF Init, Passed, Refused
<1>2. IsFiniteSet(Passed)
    BY <1>1, FS_EmptySet
<1>3. \A a \in Addresses : tat[Shared][a] = -1 /\ now = 0
    BY DEF Init, Limiters
<1>4. Above
    <2>1. Interval \in Nat /\ Tau \in Nat
        BY TauBounds, RateLimitAssumption
    <2>2. ASSUME NEW a \in Addresses, NEW u \in (now - Tau) .. now
          PROVE  tat[Shared][a] <= u + Tau + Interval + Interval * N(a, u)
        <3>1. N(a, u) \in Nat
            BY <1>2, NType
        <3>2. Interval * N(a, u) \in Nat
            BY <2>1, <3>1
        <3>3. QED  BY <1>3, <2>1, <2>2, <3>2
    <2>3. QED  BY <1>3, <2>1, <2>2 DEF Above
<1>5. QED  BY <1>1, <1>2, <1>4 DEF Debt, Below, OwnFault, RateKept

(* A step that admits nothing, while time stands still.  Who is refused was *)
(* ahead of a cell that a whole burst has filled.                           *)
LEMMA QuietDebt ==
    ASSUME IInv, Debt, Passed' = Passed, tat' = tat, now' = now,
           \A q \in Passed : client'[q] = client[q] /\ at'[q] = at[q],
           \A q \in Refused : /\ client'[q] = client[q] /\ at'[q] = at[q]
                              /\ before'[q] = before[q],
           \A q \in Refused' \ Refused :
              /\ before'[q] = Passed /\ at'[q] = now /\ client'[q] \in Addresses
              /\ now < tat[Shared][client'[q]] - Tau
    PROVE  Debt'
<1> USE DEF IInv, Debt
<1>1. \A a, u : N(a, u)' = N(a, u)
    BY SinceSame
<1>2. Above'
    BY <1>1 DEF Above
<1>3. Below'
    BY <1>1 DEF Below
<1>4. OwnFault'
    <2>1. SUFFICES ASSUME NEW r \in Refused'
                   PROVE  Cardinality({q \in before'[r] :
                              client'[q] = client'[r] /\ at'[q] >= at'[r] - Tau}) >= Burst
        BY DEF OwnFault, SameClient
    <2>2. CASE r \in Refused
        <3>1. before[r] \subseteq Passed
            BY <2>2 DEF Pending
        <3>2. {q \in before'[r] : client'[q] = client'[r] /\ at'[q] >= at'[r] - Tau}
                = {q \in before[r] : client[q] = client[r] /\ at[q] >= at[r] - Tau}
            BY <2>2, <3>1
        <3>3. QED  BY <2>2, <3>2 DEF OwnFault, SameClient
    <2>3. CASE r \notin Refused
        <3> DEFINE a == client'[r]
                   u == now - Tau
        <3>1. /\ before'[r] = Passed /\ at'[r] = now /\ a \in Addresses
              /\ now < tat[Shared][a] - Tau
            BY <2>1, <2>3
        <3>2. {q \in before'[r] : client'[q] = client'[r] /\ at'[q] >= at'[r] - Tau} = Since(a, u)
            BY <3>1 DEF Since
        <3>3. /\ now \in Nat /\ Tau \in Nat /\ Interval \in Nat /\ Interval >= 1 /\ Burst \in Nat
              /\ N(a, u) \in Nat /\ tat[Shared][a] \in Int
            BY <3>1, TauBounds, NType, RateLimitAssumption DEF TypeOK, Limiters
        <3>4. u \in (now - Tau) .. now
            BY <3>3
        <3>5. tat[Shared][a] <= u + Tau + Interval + Interval * N(a, u)
            BY <3>1, <3>4 DEF Above
        <3>6. Burst * Interval < Interval + Interval * N(a, u)
            <4>1. Interval * N(a, u) \in Nat
                BY <3>3
            <4>2. Tau < Interval + Interval * N(a, u)
                BY <3>1, <3>3, <3>5, <4>1
            <4>3. QED  BY <4>2 DEF Tau
        <3>7. Burst < 1 + N(a, u)
            BY <3>3, <3>6
        <3>8. N(a, u) = Cardinality({q \in before'[r] :
                            client'[q] = client'[r] /\ at'[q] >= at'[r] - Tau})
            BY <3>2 DEF N
        <3>9. N(a, u) >= Burst
            BY <3>3, <3>7
        <3>10. QED  BY <3>8, <3>9
    <2>4. QED  BY <2>2, <2>3
<1>5. RateKept'
    <2>1. SUFFICES ASSUME NEW p \in Passed, NEW r \in Passed, client[p] = client[r], at[p] <= at[r]
                   PROVE  Cardinality({q \in Passed : client'[q] = client'[r] /\ at'[q] \in at'[p] .. at'[r]})
                              <= Burst + 1 + (at[r] - at[p]) \div Interval
        BY DEF RateKept, SameClient
    <2>2. {q \in Passed : client'[q] = client'[r] /\ at'[q] \in at'[p] .. at'[r]}
            = {q \in Passed : client[q] = client[r] /\ at[q] \in at[p] .. at[r]}
        OBVIOUS
    <2>3. QED  BY <2>1, <2>2 DEF RateKept, SameClient
<1>6. QED  BY <1>2, <1>3, <1>4, <1>5

(* Numbers of the admitting step: from above .. *)
LEMMA AboveNumbers ==
    ASSUME NEW n \in Nat, NEW u \in Int, NEW x \in Int, NEW i \in Nat, NEW b \in Nat, NEW z \in Int,
           x <= z + b, z >= u, u >= z - b,
           x <= u + b + i + i * n
    PROVE  (IF x > z THEN x ELSE z) + i <= u + b + i + i * (n + 1)
<1>1. i * (n + 1) = i * n + i /\ i * n \in Nat
    OBVIOUS
<1>2. QED  BY <1>1

(* .. and from below: n requests and one more in a time d. *)
LEMMA BelowNumbers ==
    ASSUME NEW n \in Nat, NEW d \in Nat, NEW i \in Nat, NEW b \in Nat, i >= 1, i * n <= d + b * i
    PROVE  n + 1 <= b + 1 + d \div i
<1>1. CASE n <= b
    <2>1. d \div i >= 0 /\ d \div i \in Int
        OBVIOUS
    <2>2. QED  BY <1>1, <2>1
<1>2. CASE n > b
    <2>1. n - b \in Nat /\ i * n = i * (n - b) + b * i
        BY <1>2
    <2>2. i * (n - b) <= d /\ i * (n - b) \in Nat
        BY <2>1
    <2>3. d < (d \div i + 1) * i /\ d \div i \in Int
        OBVIOUS
    <2>4. i * (n - b) < i * (d \div i + 1)
        BY <2>2, <2>3
    <2>5. n - b < d \div i + 1
        BY <2>1, <2>3, <2>4
    <2>6. QED  BY <2>1, <2>3, <2>5
<1>3. QED  BY <1>1, <1>2

(* A request is admitted. *)
LEMMA AdmitDebt ==
    ASSUME IInv, Debt, NEW r \in Requests, r \notin Passed, r \notin Refused, NEW a \in Addresses,
           now >= Arrival(Shared, a) - Tau,
           Passed' = Passed \cup {r}, Refused' = Refused, now' = now, before' = before,
           client' = [client EXCEPT ![r] = a], at' = [at EXCEPT ![r] = now],
           tat' = [tat EXCEPT ![Shared][a] =
                      (IF Arrival(Shared, a) > now THEN Arrival(Shared, a) ELSE now) + Interval]
    PROVE  Debt'
<1> DEFINE t == Arrival(Shared, a)
           next == (IF t > now THEN t ELSE now) + Interval
<1> USE DEF IInv, Debt
<1>1. /\ now \in Nat /\ Tau \in Nat /\ Interval \in Nat /\ Interval >= 1 /\ Burst \in Nat
      /\ Tau >= Interval /\ Tau = Burst * Interval
    BY TauBounds, RateLimitAssumption DEF TypeOK, Tau
<1>2. /\ tat'[Shared][a] = next
      /\ \A b \in Addresses \ {a} : tat'[Shared][b] = tat[Shared][b]
      /\ \A b \in Addresses : tat[Shared][b] \in Nat \cup {-1}
    BY DEF TypeOK, Limiters
<1>3. /\ t \in Nat /\ t <= now + Tau
      /\ tat[Shared][a] # -1 => t = tat[Shared][a]
      /\ tat[Shared][a] = -1 => t = now + Interval
    BY <1>1, <1>2 DEF Arrival
<1>4. /\ client'[r] = a /\ at'[r] = now
      /\ Passed \subseteq Requests
      /\ \A q \in Requests \ {r} : client'[q] = client[q] /\ at'[q] = at[q]
      /\ \A q \in Requests : at[q] \in Nat /\ at'[q] \in Nat
    BY <1>1 DEF TypeOK, Passed
<1>5. \A q \in Passed : client'[q] = client[q] /\ at'[q] = at[q] /\ at[q] <= now /\ client[q] \in Addresses
    BY <1>4 DEF Keyed, Passed
<1>6. \A b, u : N(b, u)' = IF b = a /\ now >= u THEN N(b, u) + 1 ELSE N(b, u)
    BY <1>4, <1>5, SinceAdded
<1>7. \A b, u : N(b, u) \in Nat
    BY NType
<1>8. IsFiniteSet(Passed')
    BY FS_AddElement
<1>9. Above'
    <2>1. ASSUME NEW b \in Addresses
          PROVE  tat'[Shared][b] <= now + Tau + Interval
        BY <1>1, <1>2, <1>3 DEF Above
    <2>2. ASSUME NEW b \in Addresses, NEW u \in (now - Tau) .. now
          PROVE  tat'[Shared][b] <= u + Tau + Interval + Interval * N(b, u)'
        <3>1. CASE b = a
            <4>1. u \in Int /\ now >= u /\ u >= now - Tau /\ N(a, u) \in Nat
                BY <1>1, <1>7
            <4>2. t <= u + Tau + Interval + Interval * N(a, u)
                <5>1. Interval * N(a, u) \in Nat
                    BY <1>1, <4>1
                <5>2. tat[Shared][a] <= u + Tau + Interval + Interval * N(a, u)
                    BY DEF Above
                <5>3. QED  BY <1>1, <1>2, <1>3, <4>1, <5>1, <5>2
            <4>3. next <= u + Tau + Interval + Interval * (N(a, u) + 1)
                BY <1>1, <1>3, <4>1, <4>2, AboveNumbers
            <4>4. QED  BY <1>2, <1>6, <3>1, <4>1, <4>3
        <3>2. CASE b # a
            BY <1>2, <1>6, <3>2 DEF Above
        <3>3. QED  BY <3>1, <3>2
    <2>3. QED  BY <2>1, <2>2 DEF Above
(* What was admitted for a since some request of a, in the old state. *)
<1>10. ASSUME NEW p \in Passed \cup {r}, client'[p] = a
       PROVE  Interval * N(a, at'[p]) <= now - at'[p] + Tau /\ next >= at'[p] + Interval * (N(a, at'[p]) + 1)
    <2>1. ASSUME NEW q \in Passed, client[q] = a
          PROVE  Interval * N(a, at[q]) <= now - at[q] + Tau /\ next >= at[q] + Interval * (N(a, at[q]) + 1)
        <3>1. tat[Shared][a] >= at[q] + Interval * N(a, at[q])
            BY <2>1 DEF Below
        <3>2. /\ Interval * N(a, at[q]) \in Nat /\ at[q] \in Nat
              /\ Interval * (N(a, at[q]) + 1) = Interval * N(a, at[q]) + Interval
            BY <1>1, <1>4, <1>7
        <3>3. t = tat[Shared][a]
            BY <1>2, <1>3, <3>1, <3>2
        <3>4. QED  BY <1>1, <1>3, <3>1, <3>2, <3>3
    <2>2. CASE p \in Passed
        BY <1>5, <1>10, <2>1, <2>2
    <2>3. CASE p = r
        <3>1. CASE Since(a, now) = {}
            <4>1. N(a, now) = 0
                BY <3>1, FS_EmptySet DEF N
            <4>2. QED  BY <1>1, <1>3, <1>4, <2>3, <4>1
        <3>2. CASE Since(a, now) # {}
            <4>1. PICK q \in Passed : client[q] = a /\ at[q] >= now
                BY <3>2 DEF Since
            <4>2. at[q] = now
                BY <1>1, <1>4, <1>5, <4>1
            <4>3. QED  BY <1>4, <2>1, <2>3, <4>1, <4>2
        <3>3. QED  BY <3>1, <3>2
    <2>4. QED  BY <2>2, <2>3
<1>11. Below'
    <2>1. SUFFICES ASSUME NEW p \in Passed \cup {r}
                   PROVE  tat'[Shared][client'[p]] >= at'[p] + Interval * N(client[p], at[p])'
        BY DEF Below
    <2>2. PICK b, u : b = client'[p] /\ u = at'[p]
        OBVIOUS
    <2>3. N(client[p], at[p])' = N(b, u)'
        BY <2>2 DEF N, Since
    <2>4. CASE b = a
        <3>1. u <= now
            BY <1>1, <1>4, <1>5, <2>2
        <3>2. N(b, u)' = N(a, u) + 1
            BY <1>6, <1>1, <1>4, <2>2, <2>4, <3>1
        <3>3. next >= u + Interval * (N(a, u) + 1)
            BY <1>10, <2>2, <2>4
        <3>4. QED  BY <1>2, <2>2, <2>3, <2>4, <3>2, <3>3
    <2>5. CASE b # a
        <3>1. p \in Passed /\ b = client[p] /\ u = at[p] /\ b \in Addresses
            BY <1>4, <1>5, <2>2, <2>5
        <3>2. N(b, u)' = N(b, u)
            BY <1>6, <2>5
        <3>3. tat[Shared][b] >= u + Interval * N(b, u)
            BY <3>1 DEF Below
        <3>4. QED  BY <1>2, <2>2, <2>3, <2>5, <3>1, <3>2, <3>3
    <2>6. QED  BY <2>4, <2>5
<1>12. OwnFault'
    <2>1. SUFFICES ASSUME NEW o \in Refused
                   PROVE  Cardinality({q \in before[o] :
                              client'[q] = client'[o] /\ at'[q] >= at'[o] - Tau}) >= Burst
        BY DEF OwnFault, SameClient
    <2>2. before[o] \subseteq Passed /\ o \in Requests \ {r}
        BY DEF Pending, Refused
    <2>3. {q \in before[o] : client'[q] = client'[o] /\ at'[q] >= at'[o] - Tau}
            = {q \in before[o] : client[q] = client[o] /\ at[q] >= at[o] - Tau}
        BY <1>4, <1>5, <2>2
    <2>4. QED  BY <2>3 DEF OwnFault, SameClient
<1>13. RateKept'
    <2> DEFINE W(p, o) == {q \in Passed : client[q] = client[o] /\ at[q] \in at[p] .. at[o]}
    <2>1. SUFFICES ASSUME NEW p \in Passed', NEW o \in Passed', client'[p] = client'[o], at'[p] <= at'[o]
                   PROVE  Cardinality(W(p, o)') <= Burst + 1 + (at'[o] - at'[p]) \div Interval
        BY DEF RateKept, SameClient
    <2>2. CASE client'[o] = a /\ at'[o] = now
        <3>1. PICK u \in Nat : u = at'[p] /\ u <= now
            BY <1>4, <2>1, <2>2
        <3>2. Cardinality(W(p, o)') \in Nat /\ Cardinality(W(p, o)') <= N(a, u)'
            <4>1. W(p, o)' \subseteq Since(a, u)'
                BY <1>1, <1>4, <2>2, <3>1 DEF Since
            <4>2. IsFiniteSet(Since(a, u)')
                <5>1. Since(a, u)' \subseteq Passed'
                    BY DEF Since
                <5>2. QED  BY <1>8, <5>1, FS_Subset
            <4>3. Cardinality(W(p, o)') \in Nat /\ Cardinality(W(p, o)') <= Cardinality(Since(a, u)')
                BY <4>1, <4>2, FS_Subset, FS_CardinalityType
            <4>4. QED  BY <4>3 DEF N
        <3>3. N(a, u)' = N(a, u) + 1 /\ N(a, u) \in Nat
            BY <1>1, <1>6, <1>7, <3>1
        <3>4. Interval * N(a, u) <= now - u + Burst * Interval
            BY <1>1, <1>10, <2>1, <2>2, <3>1
        <3>5. now - u \in Nat
            BY <1>1, <3>1
        <3>6. N(a, u) + 1 <= Burst + 1 + (now - u) \div Interval
            BY <1>1, <3>3, <3>4, <3>5, BelowNumbers
        <3>7. (now - u) \div Interval \in Int
            BY <1>1, <3>5
        <3>8. QED  BY <1>1, <2>2, <3>1, <3>2, <3>3, <3>6, <3>7
    <2>3. CASE ~(client'[o] = a /\ at'[o] = now)
        <3>1. o \in Passed /\ o # r
            BY <1>4, <2>1, <2>3
        <3>2. p \in Passed /\ p # r
            <4>1. at[o] <= now /\ at'[o] = at[o]
                BY <1>5, <3>1
            <4>2. p # r
                <5>1. SUFFICES ASSUME p = r PROVE FALSE
                    OBVIOUS
                <5>2. client'[o] = a /\ now <= at'[o]
                    BY <1>4, <2>1, <5>1
                <5>3. at'[o] \in Nat /\ at'[o] <= now
                    BY <1>4, <3>1, <4>1
                <5>4. at'[o] = now
                    BY <1>1, <5>2, <5>3
                <5>5. QED  BY <2>3, <5>2, <5>4
            <4>3. QED  BY <2>1, <4>2
        <3>3. ~(client'[r] = client'[o] /\ at'[r] \in at'[p] .. at'[o])
            BY <1>1, <1>4, <1>5, <2>3, <3>1, <3>2
        <3>4. W(p, o)' = W(p, o)
            BY <1>5, <3>1, <3>2, <3>3
        <3>5. client[p] = client[o] /\ at[p] <= at[o] /\ at'[p] = at[p] /\ at'[o] = at[o]
            BY <1>5, <2>1, <3>1, <3>2
        <3>6. Cardinality(W(p, o)) <= Burst + 1 + (at[o] - at[p]) \div Interval
            BY <3>1, <3>2, <3>5 DEF RateKept, SameClient
        <3>7. QED  BY <3>4, <3>5, <3>6
    <2>4. QED  BY <2>2, <2>3
<1>14. QED  BY <1>8, <1>9, <1>11, <1>12, <1>13

(* Time passes. *)
LEMMA TickDebt ==
    ASSUME IInv, Debt, Tick
    PROVE  Debt'
<1> USE DEF IInv, Debt, Tick, inputs, refusals
<1>1. Passed' = Passed /\ Refused' = Refused
    BY DEF Passed, Refused
<1>2. \A b, u : N(b, u)' = N(b, u) /\ N(b, u) \in Nat
    BY <1>1, SinceSame, NType
<1>3. /\ now \in Nat /\ now' = now + 1 /\ Tau \in Nat /\ Interval \in Nat
      /\ \A b \in Addresses : tat[Shared][b] \in Nat \cup {-1}
    BY TauBounds, RateLimitAssumption DEF TypeOK, Limiters
<1>4. ASSUME NEW b \in Addresses, NEW u \in (now' - Tau) .. now'
      PROVE  tat[Shared][b] <= u + Tau + Interval + Interval * N(b, u)
    <2>1. Interval * N(b, u) \in Nat
        BY <1>2, <1>3
    <2>2. CASE u = now'
        <3>1. tat[Shared][b] <= now + Tau + Interval
            BY DEF Above
        <3>2. QED  BY <1>3, <2>1, <2>2, <3>1
    <2>3. CASE u # now'
        <3>1. u \in (now - Tau) .. now
            BY <1>3, <2>3
        <3>2. QED  BY <3>1 DEF Above
    <2>4. QED  BY <2>2, <2>3
<1>5. Above'
    <2>1. \A b \in Addresses : tat[Shared][b] <= now' + Tau + Interval
        BY <1>3 DEF Above
    <2>2. QED  BY <1>2, <1>4, <2>1 DEF Above
<1>6. Below'
    BY <1>1, <1>2 DEF Below
<1>7. OwnFault' /\ RateKept'
    BY <1>1 DEF OwnFault, RateKept, SameClient
<1>8. QED  BY <1>1, <1>5, <1>6, <1>7

(* The invariant holds. *)
THEOREM Invariance == Spec => []IInv
<1>1. IInv /\ [Next]_vars => IInv'
    BY CountStep, TellStep, TickStep DEF Next, Headers
<1>2. QED  BY InitInv, <1>1, PTL DEF Spec

(* The limiter keeps its types: no wait is negative. *)
THEOREM LimiterTypes == Spec => []TypeOK
<1>1. IInv => TypeOK  BY DEF IInv
<1>2. QED  BY Invariance, <1>1, PTL

(* exceed_rate_limit_response: one second more than it says is enough, for  *)
(* any interval and burst.                                                  *)
THEOREM WaitIsEnough == Spec => []WaitSuffices
<1>1. IInv => WaitSuffices  BY DEF IInv
<1>2. QED  BY Invariance, <1>1, PTL

(* Debts are kept. *)
LEMMA StepDebt ==
    ASSUME IInv, Debt, [Next]_vars
    PROVE  Debt'
<1>1. ASSUME NEW r \in Requests, NEW p \in Addresses, NEW h \in Headers, NEW w \in Workers,
             Count(r, p, h, w)
      PROVE  Debt'
    <2> DEFINE a == Client(p, h)
               t == Arrival(Shared, a)
    <2>0. TypeOK
        BY DEF IInv
    <2>1. /\ stage[r] = "idle" /\ now' = now
          /\ client' = [client EXCEPT ![r] = a]
          /\ at' = [at EXCEPT ![r] = now]
        BY <1>1, <2>0, CountCases
    <2>2. r \notin Passed /\ r \notin Refused /\ Passed \subseteq Requests /\ Refused \subseteq Requests
        BY <2>1 DEF Passed, Refused
    <2>3. /\ \A q \in Passed : client'[q] = client[q] /\ at'[q] = at[q]
          /\ \A q \in Refused : client'[q] = client[q] /\ at'[q] = at[q]
          /\ client'[r] = a /\ at'[r] = now
        BY <2>0, <2>1, <2>2 DEF TypeOK
    <2>4. CASE stage' = [stage EXCEPT ![r] = "failed"] /\ tat' = tat /\ before' = before
        <3>1. Passed' = Passed /\ Refused' = Refused
            BY <2>0, <2>1, <2>4 DEF Passed, Refused, TypeOK
        <3>2. QED  BY <2>1, <2>3, <2>4, <3>1, QuietDebt
    <2>5. CASE /\ a \in Addresses /\ now >= t - Tau
               /\ stage' = [stage EXCEPT ![r] = "passed"]
               /\ tat' = [tat EXCEPT ![Shared][a] = (IF t > now THEN t ELSE now) + Interval]
               /\ before' = before
        <3>1. Passed' = Passed \cup {r} /\ Refused' = Refused
            BY <2>0, <2>1, <2>5 DEF Passed, Refused, TypeOK
        <3>2. QED  BY <2>1, <2>2, <2>5, <3>1, AdmitDebt
    <2>6. CASE /\ a \in Addresses /\ now < t - Tau
               /\ stage' = [stage EXCEPT ![r] = "limited"]
               /\ before' = [before EXCEPT ![r] = Passed]
               /\ tat' = tat
        <3>1. Passed' = Passed /\ Refused' = Refused \cup {r}
            BY <2>0, <2>1, <2>6 DEF Passed, Refused, TypeOK
        <3>2. now < tat[Shared][a] - Tau
            BY <2>0, <2>6, RefusesKnown
        <3>3. /\ before'[r] = Passed
              /\ \A q \in Refused : before'[q] = before[q]
            BY <2>0, <2>2, <2>6 DEF TypeOK
        <3>4. QED  BY <2>1, <2>2, <2>3, <2>6, <3>1, <3>2, <3>3, QuietDebt
    <2>7. QED  BY <1>1, <2>0, <2>4, <2>5, <2>6, CountCases
<1>2. ASSUME NEW r \in Requests, Tell(r)
      PROVE  Debt'
    <2>1. Passed' = Passed /\ Refused' = Refused
        BY <1>2 DEF Tell, Passed, Refused, IInv, TypeOK
    <2>2. QED  BY <1>2, <2>1, QuietDebt DEF Tell, inputs
<1>3. CASE UNCHANGED vars
    <2>1. Passed' = Passed /\ Refused' = Refused
        BY <1>3 DEF vars, Passed, Refused
    <2>2. QED  BY <1>3, <2>1, QuietDebt DEF vars, inputs, refusals
<1>4. QED  BY <1>1, <1>2, <1>3, TickDebt DEF Next, Headers

LEMMA DebtInvariance == Spec => []Debt
<1>1. IInv /\ Debt /\ [Next]_vars => Debt'
    BY StepDebt
<1>2. QED  BY Invariance, InitDebt, <1>1, PTL DEF Spec

(* The governor keyed by RealIpKeyExtractor refuses a client only after a   *)
(* burst of its own, for any interval and burst.                            *)
THEOREM RefusedForOwn == Spec => []OwnFault
<1>1. Debt => OwnFault  BY DEF Debt
<1>2. QED  BY DebtInvariance, <1>1, PTL

(* governor_conf keeps the rate that server.rs promises, give or take the   *)
(* one request of an idle cell, however many workers share it.              *)
THEOREM RateIsKept == Spec => []RateKept
<1>1. Debt => RateKept  BY DEF Debt
<1>2. QED  BY DebtInvariance, <1>1, PTL

-----------------------------------------------------------------------------
(* The pace.  A cell's arrival time is no further ahead than the last       *)
(* admission of its client can have put it.                                 *)
Charged ==
    \A a \in Addresses : tat[Shared][a] # -1 =>
        \E q \in Passed : client[q] = a /\ tat[Shared][a] <= at[q] + Tau + Interval

Pace == Charged /\ PaceServed

LEMMA InitPace == Init => Pace
<1> SUFFICES ASSUME Init PROVE Pace
    OBVIOUS
<1>1. Refused = {} /\ \A a \in Addresses : tat[Shared][a] = -1
    BY DEF Init, Refused, Limiters
<1>2. QED  BY <1>1 DEF Pace, Charged, PaceServed

(* Nothing is admitted; whoever is refused is so by a cell that was charged *)
(* lately.                                                                  *)
LEMMA QuietPace ==
    ASSUME IInv, Pace, Passed' = Passed, tat' = tat,
           \A q \in Passed \cup Refused : client'[q] = client[q] /\ at'[q] = at[q],
           \A q \in Refused : before'[q] = before[q],
           \A r \in Refused' \ Refused :
              /\ client'[r] \in Addresses /\ before'[r] = Passed
              /\ tat[Shared][client'[r]] # -1
              /\ at'[r] \in Nat /\ at'[r] < tat[Shared][client'[r]] - Tau
    PROVE  Pace'
<1> USE DEF IInv, Pace
<1>1. Charged'
    BY DEF Charged
<1>2. ASSUME NEW r \in Refused'
      PROVE  \E q \in before'[r] : client'[q] = client'[r] /\ at'[r] - at'[q] < Interval
    <2>1. CASE r \in Refused
        <3>1. before[r] \subseteq Passed
            BY <2>1 DEF Pending
        <3>2. PICK q \in before[r] : client[q] = client[r] /\ at[r] - at[q] < Interval
            BY <2>1 DEF PaceServed, SameClient
        <3>3. QED  BY <2>1, <3>1, <3>2
    <2>2. CASE r \notin Refused
        <3>1. PICK q \in Passed : client[q] = client'[r] /\ tat[Shared][client'[r]] <= at[q] + Tau + Interval
            BY <1>2, <2>2 DEF Charged
        <3>2. /\ at[q] \in Nat /\ Tau \in Nat /\ Interval \in Nat
              /\ tat[Shared][client'[r]] \in Nat \cup {-1}
            BY <1>2, <2>2, TauBounds, RateLimitAssumption DEF TypeOK, Passed, Limiters
        <3>3. at'[r] - at[q] < Interval
            BY <1>2, <2>2, <3>1, <3>2
        <3>4. QED  BY <1>2, <2>2, <3>1, <3>3
    <2>3. QED  BY <2>1, <2>2
<1>3. QED  BY <1>1, <1>2 DEF PaceServed, SameClient

(* A request is admitted: its cell is charged now. *)
LEMMA AdmitPace ==
    ASSUME IInv, Pace, NEW r \in Requests, r \notin Passed, r \notin Refused, NEW a \in Addresses,
           now >= Arrival(Shared, a) - Tau,
           Passed' = Passed \cup {r}, Refused' = Refused, before' = before,
           client' = [client EXCEPT ![r] = a], at' = [at EXCEPT ![r] = now],
           tat' = [tat EXCEPT ![Shared][a] =
                      (IF Arrival(Shared, a) > now THEN Arrival(Shared, a) ELSE now) + Interval]
    PROVE  Pace'
<1> DEFINE t == Arrival(Shared, a)
<1> USE DEF IInv, Pace
<1>1. client'[r] = a /\ at'[r] = now
      /\ \A q \in Passed \cup Refused : client'[q] = client[q] /\ at'[q] = at[q]
    BY DEF TypeOK, Passed, Refused
<1>2. /\ tat'[Shared][a] = (IF t > now THEN t ELSE now) + Interval
      /\ \A b \in Addresses \ {a} : tat'[Shared][b] = tat[Shared][b]
    BY DEF TypeOK, Limiters
<1>3. tat'[Shared][a] <= now + Tau + Interval
    <2>1. now \in Nat /\ Tau \in Nat /\ Interval \in Nat /\ t \in Nat
        BY TauBounds, RateLimitAssumption DEF TypeOK, Limiters, Arrival
    <2>2. QED  BY <1>2, <2>1
<1>4. Charged'
    <2>1. SUFFICES ASSUME NEW b \in Addresses, tat'[Shared][b] # -1
                   PROVE  \E q \in Passed \cup {r} :
                              client'[q] = b /\ tat'[Shared][b] <= at'[q] + Tau + Interval
        BY DEF Charged, Tau
    <2>2. CASE b = a
        BY <1>1, <1>3, <2>2
    <2>3. CASE b # a
        BY <1>1, <1>2, <2>1, <2>3 DEF Charged
    <2>4. QED  BY <2>2, <2>3
<1>5. PaceServed'
    <2>1. \A o \in Refused : before[o] \subseteq Passed
        BY DEF Pending
    <2>2. QED  BY <1>1, <2>1 DEF PaceServed, SameClient
<1>6. QED  BY <1>4, <1>5

LEMMA StepPace ==
    ASSUME IInv, Pace, [Next]_vars
    PROVE  Pace'
<1>0. TypeOK
    BY DEF IInv
<1>1. ASSUME NEW r \in Requests, NEW p \in Addresses, NEW h \in Headers, NEW w \in Workers,
             Count(r, p, h, w)
      PROVE  Pace'
    <2> DEFINE a == Client(p, h)
               t == Arrival(Shared, a)
    <2>1. /\ stage[r] = "idle"
          /\ client' = [client EXCEPT ![r] = a]
          /\ at' = [at EXCEPT ![r] = now]
        BY <1>0, <1>1, CountCases
    <2>2. r \notin Passed /\ r \notin Refused /\ Passed \subseteq Requests /\ Refused \subseteq Requests
        BY <2>1 DEF Passed, Refused
    <2>3. /\ \A q \in Passed \cup Refused : client'[q] = client[q] /\ at'[q] = at[q]
          /\ client'[r] = a /\ at'[r] = now
        BY <1>0, <2>1, <2>2 DEF TypeOK
    <2>4. CASE stage' = [stage EXCEPT ![r] = "failed"] /\ tat' = tat /\ before' = before
        <3>1. Passed' = Passed /\ Refused' = Refused
            BY <1>0, <2>1, <2>4 DEF Passed, Refused, TypeOK
        <3>2. QED  BY <2>3, <2>4, <3>1, QuietPace
    <2>5. CASE /\ a \in Addresses /\ now >= t - Tau
               /\ stage' = [stage EXCEPT ![r] = "passed"]
               /\ tat' = [tat EXCEPT ![Shared][a] = (IF t > now THEN t ELSE now) + Interval]
               /\ before' = before
        <3>1. Passed' = Passed \cup {r} /\ Refused' = Refused
            BY <1>0, <2>1, <2>5 DEF Passed, Refused, TypeOK
        <3>2. QED  BY <2>1, <2>2, <2>5, <3>1, AdmitPace
    <2>6. CASE /\ a \in Addresses /\ now < t - Tau
               /\ stage' = [stage EXCEPT ![r] = "limited"]
               /\ before' = [before EXCEPT ![r] = Passed]
               /\ tat' = tat
        <3>1. Passed' = Passed /\ Refused' = Refused \cup {r}
            BY <1>0, <2>1, <2>6 DEF Passed, Refused, TypeOK
        <3>2. tat[Shared][a] # -1 /\ now < tat[Shared][a] - Tau /\ now \in Nat
            BY <1>0, <2>6, RefusesKnown DEF TypeOK
        <3>3. /\ before'[r] = Passed
              /\ \A q \in Refused : before'[q] = before[q]
            BY <1>0, <2>2, <2>6 DEF TypeOK
        <3>4. QED  BY <2>3, <2>6, <3>1, <3>2, <3>3, QuietPace
    <2>7. QED  BY <1>0, <1>1, <2>4, <2>5, <2>6, CountCases
<1>2. ASSUME NEW r \in Requests, Tell(r)
      PROVE  Pace'
    <2>1. Passed' = Passed /\ Refused' = Refused
        BY <1>0, <1>2 DEF Tell, Passed, Refused, TypeOK
    <2>2. QED  BY <1>2, <2>1, QuietPace DEF Tell, inputs
<1>3. CASE Tick \/ UNCHANGED vars
    <2>1. Passed' = Passed /\ Refused' = Refused
        BY <1>3 DEF Tick, vars, Passed, Refused
    <2>2. QED  BY <1>3, <2>1, QuietPace DEF Tick, vars, inputs, refusals
<1>4. QED  BY <1>1, <1>2, <1>3 DEF Next, Headers

(* governor_conf, "replenishes one element every two seconds": who was not  *)
(* admitted within an interval is not refused, whatever it and the others   *)
(* have sent before.                                                        *)
THEOREM PaceIsServed == Spec => []PaceServed
<1>1. IInv /\ Pace /\ [Next]_vars => Pace'
    BY StepPace
<1>2. Pace => PaceServed
    BY DEF Pace
<1>3. QED  BY Invariance, InitPace, <1>1, <1>2, PTL DEF Spec

=============================================================================
