------------------------- MODULE ChatQueries_proofs -------------------------
(***************************************************************************)
(* Proofs about ChatQueries: what the three lists show, for any number of  *)
(* users, connections and requests.                                        *)
(***************************************************************************)
EXTENDS ChatQueries, ChatRelay_proofs, FunctionTheorems, FiniteSetTheorems

(* created_at is taken once, and the clock has moved on by the next time.   *)
Stamped ==
    /\ clock >= 1
    /\ \A h \in Requests :
          /\ stamp[h] < clock
          /\ stage[h] \in {"idle", "check"} => stamp[h] = 0
          /\ stage[h] \in {"insert", "lookup", "precheck", "sending", "created"} \/ h \in messages
             => stamp[h] # 0
    /\ \A g, h \in Requests : g # h /\ stamp[g] # 0 => stamp[g] # stamp[h]

(* What was answered before a request came was stamped before it.           *)
StampedBefore ==
    \A h \in Requests : \A g \in before[h] : stamp[g] # 0 /\ (stamp[h] # 0 => stamp[g] < stamp[h])

(* Rows are between two different users; a request that is past the check   *)
(* has such a pair.                                                         *)
Paired ==
    \A h \in Requests :
        /\ stage[h] # "idle" /\ stage[h] # "failed" => from[h] \in Accounts /\ from[h] # to[h]
        /\ stage[h] = "insert" => to[h] \in Accounts
        /\ h \in messages =>
              from[h] \in Accounts /\ to[h] \in Accounts /\ from[h] # to[h]

QInv == IInv /\ IsFiniteSet(messages) /\ Stamped /\ StampedBefore /\ Paired

-----------------------------------------------------------------------------
(* Sorting *)

(* The rows of S that are older than h. *)
OlderIn(S, h) == {g \in S : Older(g, h)}

(* How many there are gives each row its place: places differ, and all of   *)
(* 1..Cardinality(S) are taken.                                             *)
LEMMA Places ==
    ASSUME NEW S, IsFiniteSet(S), \A g \in S : stamp[g] \in Nat,
           \A g, h \in S : g # h => stamp[g] # stamp[h]
    PROVE  LET place == [h \in S |-> Cardinality(OlderIn(S, h)) + 1] IN
           /\ place \in Bijection(S, 1..Cardinality(S))
           /\ \A g, h \in S : stamp[g] < stamp[h] => place[g] < place[h]
<1> DEFINE place == [h \in S |-> Cardinality(OlderIn(S, h)) + 1]
<1> DEFINE n == Cardinality(S)
<1>1. n \in Nat
  BY FS_CardinalityType
<1>2. \A h \in S : IsFiniteSet(OlderIn(S, h)) /\ Cardinality(OlderIn(S, h)) \in 0..(n - 1)
  <2> TAKE h \in S
  <2>1. OlderIn(S, h) \in SUBSET (S \ {h})
    BY DEF OlderIn, Older
  <2>2. IsFiniteSet(S \ {h}) /\ Cardinality(S \ {h}) = n - 1
    BY FS_RemoveElement
  <2>3. IsFiniteSet(OlderIn(S, h)) /\ Cardinality(OlderIn(S, h)) <= n - 1
    BY <2>1, <2>2, FS_Subset
  <2> QED BY <2>3, FS_CardinalityType
<1>3. \A g, h \in S : stamp[g] < stamp[h] => place[g] < place[h]
  <2> SUFFICES ASSUME NEW g \in S, NEW h \in S, stamp[g] < stamp[h]
               PROVE  Cardinality(OlderIn(S, g)) < Cardinality(OlderIn(S, h))
    BY <1>2
  <2>1. OlderIn(S, g) \in SUBSET OlderIn(S, h) /\ g \in OlderIn(S, h) \ OlderIn(S, g)
    BY DEF OlderIn, Older
  <2>2. Cardinality(OlderIn(S, g)) <= Cardinality(OlderIn(S, h))
        /\ Cardinality(OlderIn(S, g)) # Cardinality(OlderIn(S, h))
    BY <1>2, <2>1, FS_Subset
  <2> QED BY <1>2, <2>2
<1>4. place \in [S -> 1..n]
  BY <1>1, <1>2
<1>5. \A g, h \in S : place[g] = place[h] => g = h
  <2> SUFFICES ASSUME NEW g \in S, NEW h \in S, g # h PROVE place[g] # place[h]
    OBVIOUS
  <2>1. stamp[g] < stamp[h] \/ stamp[h] < stamp[g]
    OBVIOUS
  <2>2. place[g] \in 1..n /\ place[h] \in 1..n
    BY <1>4
  <2> HIDE DEF place
  <2> QED BY <1>3, <2>1, <2>2
<1> HIDE DEF place
<1>6. place \in Injection(S, 1..n)
  BY <1>4, <1>5, Fun_IsInj
<1>7. IsFiniteSet(1..n) /\ Cardinality(1..n) = n
  BY <1>1, FS_Interval
<1>8. place \in Surjection(S, 1..n)
  BY <1>6, <1>7, FS_Injection
<1> QED BY <1>3, <1>6, <1>8 DEF Bijection, place

(* Such a set has an order by created_at, so that InOrder lists it: every   *)
(* row once, the older one first.                                           *)
LEMMA Listed ==
    ASSUME NEW S, IsFiniteSet(S), \A g \in S : stamp[g] \in Nat,
           \A g, h \in S : g # h => stamp[g] # stamp[h]
    PROVE  /\ InOrder(S) \in Seq(S)
           /\ Len(InOrder(S)) = Cardinality(S)
           /\ ToSet(InOrder(S)) = S
           /\ \A i, j \in 1..Len(InOrder(S)) : i < j => stamp[InOrder(S)[i]] < stamp[InOrder(S)[j]]
<1> DEFINE n == Cardinality(S)
           Sorts(s) == s \in SetToSeqs(S) /\ IsSorted(s, Older)
<1>1. n \in Nat
  BY FS_CardinalityType
<1>2. PICK place \in Bijection(S, 1..n) :
              \A g, h \in S : stamp[g] < stamp[h] => place[g] < place[h]
  BY Places
<1>3. /\ place \in [S -> 1..n]
      /\ \A g, h \in S : place[g] = place[h] => g = h
      /\ \A i \in 1..n : \E h \in S : place[h] = i
  BY <1>2 DEF Bijection, Injection, Surjection, IsInjective
<1> DEFINE list == [i \in 1..n |-> CHOOSE h \in S : place[h] = i]
<1>4. \A i \in 1..n : list[i] \in S /\ place[list[i]] = i
  BY <1>3
<1>5. list \in [1..n -> S] /\ Len(list) = n
  BY <1>1, <1>4
<1> HIDE DEF list
<1>6. Sorts(list)
  <2>1. \A i, j \in 1..n : i # j => list[i] # list[j]
    BY <1>4
  <2>2. \A i, j \in 1..n : i < j => stamp[list[i]] < stamp[list[j]]
    <3> SUFFICES ASSUME NEW i \in 1..n, NEW j \in 1..n, i < j
                 PROVE  stamp[list[i]] < stamp[list[j]]
      OBVIOUS
    <3>1. ~(stamp[list[j]] < stamp[list[i]])
      BY <1>1, <1>2, <1>4
    <3>2. stamp[list[i]] # stamp[list[j]]
      BY <1>4, <2>1
    <3> QED BY <1>4, <3>1, <3>2
  <2> QED BY <1>5, <2>1, <2>2 DEF SetToSeqs, IsSorted, Older
<1>7. Sorts(InOrder(S))
  BY <1>6 DEF InOrder
<1>8. InOrder(S) \in [1..n -> S] /\ \A i, j \in 1..n : i # j => InOrder(S)[i] # InOrder(S)[j]
  BY <1>7 DEF SetToSeqs
<1>9. InOrder(S) \in Seq(S) /\ Len(InOrder(S)) = n /\ DOMAIN InOrder(S) = 1..n
  BY <1>1, <1>8
<1>10. \A i, j \in 1..n : i < j => stamp[InOrder(S)[i]] < stamp[InOrder(S)[j]]
  BY <1>7, <1>9 DEF IsSorted, Older
<1>11. ToSet(InOrder(S)) = S
  <2>1. InOrder(S) \in Injection(1..n, S)
    BY <1>8, Fun_IsInj
  <2>2. IsFiniteSet(1..n) /\ Cardinality(1..n) = n
    BY <1>1, FS_Interval
  <2>3. InOrder(S) \in Surjection(1..n, S)
    BY <2>1, <2>2, FS_Injection
  <2>4. \A h \in S : \E i \in 1..n : InOrder(S)[i] = h
    BY <2>3 DEF Surjection
  <2> QED BY <1>8, <1>9, <2>4 DEF ToSet
<1> QED BY <1>9, <1>10, <1>11

-----------------------------------------------------------------------------
(* The invariant *)

(* A request comes, is checked, leaves its row, or goes on without touching *)
(* what the queries read.                                                   *)
Comes(h) == \E s \in Accounts, r \in Ids, b \in BOOLEAN : Submit(h, s, r, b)

LeavesRow(h) ==
    /\ stage[h] = "insert"
    /\ messages' = messages \cup {h}
    /\ stage' = [stage EXCEPT ![h] = "lookup"] \/ stage' = [stage EXCEPT ![h] = "failed"]
    /\ UNCHANGED <<from, to, stamp, clock, before>>

GoesOn ==
    /\ UNCHANGED <<messages, from, to, stamp, clock, before>>
    /\ \A h \in Requests :
          \/ stage'[h] = stage[h]
          \/ stage[h] # "idle" /\ stage'[h] = "failed"
          \/ stage[h] \in {"lookup", "precheck", "sending"} /\ stage'[h] \in {"precheck", "sending", "created"}

(* Every step is one of these. *)
LEMMA RowCases ==
    ASSUME TypeOK, [Next]_vars
    PROVE  (\E h \in Requests : Comes(h) \/ CheckReceiver(h) \/ LeavesRow(h)) \/ GoesOn
<1> USE DEF TypeOK, connVars, historyVars, requestVars
<1>1. ASSUME NEW h \in Requests, HandlerStep(h)
      PROVE  CheckReceiver(h) \/ LeavesRow(h) \/ GoesOn
  <2>1. CASE Insert(h)
    BY <2>1 DEF Insert, LeavesRow
  <2>2. CASE QueryFails(h)
    BY <2>2 DEF QueryFails, LeavesRow, GoesOn
  <2>3. CASE Lookup(h) \/ PreCheck(h)
    BY <2>3 DEF Lookup, PreCheck, GoesOn
  <2>4. CASE Send(h) \/ SendFails(h) \/ Dropped(h)
    BY <2>4 DEF Send, SendFails, Dropped, GoesOn
  <2> QED BY <1>1, <2>1, <2>2, <2>3, <2>4 DEF HandlerStep
<1>2. ASSUME NEW c \in Conns, NEW u \in Accounts, Connect(c, u) PROVE GoesOn
  BY <1>2 DEF Connect, GoesOn
<1>3. ASSUME NEW c \in Conns, TaskStep(c) PROVE GoesOn
  BY <1>3 DEF TaskStep, TaskPing, TaskClose, TaskCloseSent, TaskStreamEnd, TaskRemove, GoesOn
<1>4. ASSUME NEW c \in Conns, \/ \E f \in Frames : ClientFrame(c, f)
                              \/ Drain(c) \/ Disconnect(c)
      PROVE  GoesOn
  BY <1>4 DEF ClientFrame, Drain, Disconnect, GoesOn
<1>5. CASE Restart
  BY <1>5 DEF Restart, GoesOn, InFlight
<1>6. CASE UNCHANGED vars
  BY <1>6 DEF vars, GoesOn
<1> QED BY <1>1, <1>2, <1>3, <1>4, <1>5, <1>6, StepCases DEF Comes

(* The empty tables satisfy it. *)
LEMMA InitQInv == Init => QInv
<1> SUFFICES ASSUME Init PROVE QInv
  OBVIOUS
<1>1. IInv
  BY InitInv
<1>2. IsFiniteSet(messages)
  BY FS_EmptySet DEF Init
<1> QED BY <1>1, <1>2, RelayAssumption DEF Init, QInv, Stamped, StampedBefore, Paired

(* A step inserts one row at most. *)
LEMMA FiniteStep ==
    ASSUME TypeOK, IsFiniteSet(messages), [Next]_vars
    PROVE  IsFiniteSet(messages)'
<1>1. messages' = messages \/ \E h \in Requests : messages' = messages \cup {h}
  BY RowCases DEF Comes, Submit, CheckReceiver, LeavesRow, GoesOn
<1> QED BY <1>1, FS_AddElement

(* created_at is written once, with a time nobody has. *)
LEMMA StampedStep ==
    ASSUME TypeOK, RowFirst, Stamped, [Next]_vars
    PROVE  Stamped'
<1>1. ASSUME NEW h \in Requests, Comes(h) PROVE Stamped'
  BY <1>1 DEF TypeOK, Stamped, Comes, Submit
<1>2. ASSUME NEW h \in Requests, CheckReceiver(h) PROVE Stamped'
  <2>1. CASE to[h] \in Accounts
    <3>1. /\ stage[h] = "check" /\ messages' = messages /\ h \notin messages
          /\ stage' = [stage EXCEPT ![h] = "insert"]
          /\ stamp' = [stamp EXCEPT ![h] = clock]
          /\ clock' = clock + 1
      BY <1>2, <2>1 DEF CheckReceiver, RowFirst
    <3> QED BY <3>1 DEF TypeOK, Stamped
  <2>2. CASE to[h] \notin Accounts
    BY <1>2, <2>2 DEF TypeOK, Stamped, CheckReceiver
  <2> QED BY <2>1, <2>2
<1>3. ASSUME NEW h \in Requests, LeavesRow(h) PROVE Stamped'
  BY <1>3 DEF TypeOK, Stamped, LeavesRow
<1>4. CASE GoesOn
  BY <1>4 DEF TypeOK, Stamped, GoesOn
<1> QED BY <1>1, <1>2, <1>3, <1>4, RowCases

(* A request that comes has no created_at yet; when it gets one, those that *)
(* were answered before have theirs.                                        *)
LEMMA StampedBeforeStep ==
    ASSUME TypeOK, Stamped, BeforeSound, StampedBefore, [Next]_vars
    PROVE  StampedBefore'
<1>1. ASSUME NEW h \in Requests, Comes(h) PROVE StampedBefore'
  <2>1. /\ stage[h] = "idle" /\ stamp' = stamp
        /\ before' = before \/ before' = [before EXCEPT ![h] = Created]
    BY <1>1 DEF Comes, Submit
  <2>2. stamp[h] = 0 /\ \A g \in Created : stamp[g] # 0
    BY <2>1 DEF Stamped, Created
  <2> QED BY <2>1, <2>2 DEF TypeOK, StampedBefore
<1>2. ASSUME NEW h \in Requests, CheckReceiver(h) PROVE StampedBefore'
  <2>1. /\ stage[h] = "check" /\ before' = before
        /\ stamp' = stamp \/ stamp' = [stamp EXCEPT ![h] = clock]
    BY <1>2 DEF CheckReceiver, historyVars
  <2>2. \A g \in Requests : h \notin before[g]
    BY <2>1 DEF BeforeSound, Created
  <2>3. clock # 0 /\ \A g \in Requests : stamp[g] < clock
    BY DEF Stamped, TypeOK
  <2>4. SUFFICES ASSUME NEW k \in Requests, NEW g \in before[k]
                 PROVE  stamp'[g] # 0 /\ (stamp'[k] # 0 => stamp'[g] < stamp'[k])
    BY <2>1 DEF StampedBefore
  <2>5. g \in Requests /\ g # h /\ stamp'[g] = stamp[g]
    BY <2>1, <2>2 DEF TypeOK
  <2>6. stamp[g] # 0 /\ (stamp[k] # 0 => stamp[g] < stamp[k])
    BY DEF StampedBefore
  <2>7. stamp'[k] = stamp[k] \/ stamp'[k] = clock
    BY <2>1 DEF TypeOK
  <2> QED BY <2>3, <2>5, <2>6, <2>7
<1>3. ASSUME NEW h \in Requests, LeavesRow(h) PROVE StampedBefore'
  BY <1>3 DEF StampedBefore, LeavesRow
<1>4. CASE GoesOn
  BY <1>4 DEF StampedBefore, GoesOn
<1> QED BY <1>1, <1>2, <1>3, <1>4, RowCases

(* send_message checks both users before its INSERT. *)
LEMMA PairedStep ==
    ASSUME TypeOK, RowFirst, Paired, [Next]_vars
    PROVE  Paired'
<1>1. ASSUME NEW h \in Requests, Comes(h) PROVE Paired'
  <2>1. PICK s \in Accounts, r \in Ids, b \in BOOLEAN : Submit(h, s, r, b)
    BY <1>1 DEF Comes
  <2>2. h \notin messages /\ messages' = messages /\ stage[h] = "idle"
    BY <2>1 DEF Submit, RowFirst
  <2>3. CASE stage' = [stage EXCEPT ![h] = "failed"] /\ UNCHANGED <<from, to>>
    BY <2>2, <2>3 DEF TypeOK, Paired
  <2>4. CASE /\ s # r
             /\ stage' = [stage EXCEPT ![h] = "check"]
             /\ from' = [from EXCEPT ![h] = s]
             /\ to' = [to EXCEPT ![h] = r]
    BY <2>2, <2>4 DEF TypeOK, Paired
  <2> QED BY <2>1, <2>3, <2>4 DEF Submit
<1>2. ASSUME NEW h \in Requests, CheckReceiver(h) PROVE Paired'
  <2>1. /\ stage[h] = "check" /\ UNCHANGED <<messages, from, to>>
        /\ \/ to[h] \in Accounts /\ stage' = [stage EXCEPT ![h] = "insert"]
           \/ stage' = [stage EXCEPT ![h] = "failed"]
    BY <1>2 DEF CheckReceiver
  <2> QED BY <2>1 DEF TypeOK, Paired
<1>3. ASSUME NEW h \in Requests, LeavesRow(h) PROVE Paired'
  BY <1>3 DEF TypeOK, Paired, LeavesRow
<1>4. CASE GoesOn
  BY <1>4 DEF TypeOK, Paired, GoesOn
<1> QED BY <1>1, <1>2, <1>3, <1>4, RowCases

(* What the queries rest on holds in every reachable state: rows have their *)
(* own times, in the order in which they were answered, and two parties.    *)
THEOREM QueriesInvariance == Spec => []QInv
<1>1. QInv /\ [Next]_vars => QInv'
  BY StepInv, FiniteStep, StampedStep, StampedBeforeStep, PairedStep DEF QInv, IInv
<1> QED BY <1>1, InitQInv, PTL DEF Spec

-----------------------------------------------------------------------------
(* The lists *)

(* A conversation is listed, whoever asks. *)
LEMMA ConversationListed ==
    ASSUME QInv, NEW u, NEW v
    PROVE  LET H == get_messages_by_user_id(u, v) IN
           /\ H \in Seq(Conversation(u, v))
           /\ ToSet(H) = Conversation(u, v)
           /\ \A i, j \in 1..Len(H) : i < j => stamp[H[i]] < stamp[H[j]]
<1>1. Conversation(u, v) \in SUBSET messages
  BY DEF Conversation
<1>2. IsFiniteSet(Conversation(u, v))
  BY <1>1, FS_Subset DEF QInv
<1>3. /\ \A g \in Conversation(u, v) : stamp[g] \in Nat
      /\ \A g, h \in Conversation(u, v) : g # h => stamp[g] # stamp[h]
  BY <1>1 DEF QInv, IInv, TypeOK, Stamped
<1> QED BY <1>2, <1>3, Listed DEF get_messages_by_user_id

(* get_messages_by_user_id: whatever requests, sockets and restarts there   *)
(* are, two users read one history, of all that was answered, in an order   *)
(* that the answers agree with.                                             *)
THEOREM HistoryCorrect == Spec => []HistoryFaithful
<1>1. QInv => HistoryFaithful
  <2> SUFFICES ASSUME QInv, NEW u \in Accounts, NEW v \in Accounts, u # v
               PROVE  LET H == get_messages_by_user_id(u, v)
                      IN  /\ H = get_messages_by_user_id(v, u)
                          /\ {h \in Created : {from[h], to[h]} = {u, v}} \subseteq ToSet(H)
                          /\ \A i, j \in 1..Len(H) : i < j => H[j] \notin before[H[i]]
    BY DEF HistoryFaithful
  <2> DEFINE H == get_messages_by_user_id(u, v)
  <2>1. Conversation(u, v) = Conversation(v, u)
    BY DEF Conversation
  <2>2. H = get_messages_by_user_id(v, u)
    BY <2>1 DEF get_messages_by_user_id
  <2>3. /\ H \in Seq(Conversation(u, v)) /\ ToSet(H) = Conversation(u, v)
        /\ \A i, j \in 1..Len(H) : i < j => stamp[H[i]] < stamp[H[j]]
    BY ConversationListed
  <2>4. {h \in Created : {from[h], to[h]} = {u, v}} \subseteq Conversation(u, v)
    <3> SUFFICES ASSUME NEW h \in Created, {from[h], to[h]} = {u, v}
                 PROVE  h \in Conversation(u, v)
      OBVIOUS
    <3>1. h \in messages
      BY DEF QInv, IInv, RowFirst, Created
    <3>2. /\ from[h] \in {u, v} /\ to[h] \in {u, v}
          /\ u \in {from[h], to[h]} /\ v \in {from[h], to[h]}
      OBVIOUS
    <3> QED BY <3>1, <3>2 DEF Conversation
  <2>5. ASSUME NEW i \in 1..Len(H), NEW j \in 1..Len(H), i < j
        PROVE  H[j] \notin before[H[i]]
    <3> HIDE DEF H
    <3>1. stamp[H[i]] < stamp[H[j]] /\ H[i] \in Requests /\ H[i] \in messages /\ H[j] \in Requests
      BY <2>3, <2>5 DEF Conversation, QInv, IInv, TypeOK
    <3>2. stamp[H[i]] \in Nat /\ stamp[H[j]] \in Nat /\ stamp[H[i]] # 0
      BY <3>1 DEF QInv, IInv, TypeOK, Stamped
    <3> QED BY <3>1, <3>2 DEF QInv, StampedBefore
  <2> QED BY <2>2, <2>3, <2>4, <2>5
<1> QED BY <1>1, QueriesInvariance, PTL

(* get_chat_partners, get_all_contacts, get_messages_by_user_id: the three  *)
(* lists agree with each other and between the two users.                   *)
THEOREM ListsCorrect == Spec => []ListsAgree
<1>1. QInv => ListsAgree
  <2> SUFFICES ASSUME QInv, NEW u \in Accounts, NEW v \in Accounts
               PROVE  /\ v \in get_chat_partners(u) <=> u \in get_chat_partners(v)
                      /\ v \in get_chat_partners(u) <=> get_messages_by_user_id(u, v) # <<>>
                      /\ get_chat_partners(u) \subseteq get_all_contacts(u)
    BY DEF ListsAgree
  <2>1. ASSUME NEW a \in Accounts, NEW b \in Accounts
        PROVE  b \in get_chat_partners(a) <=> Conversation(a, b) # {}
    <3>1. \A h \in messages : from[h] # to[h]
      BY DEF QInv, IInv, TypeOK, Paired
    <3>2. \A h \in messages : a \in {from[h], to[h]} /\ Partner(h, a) = b
             <=> <<from[h], to[h]>> \in {<<a, b>>, <<b, a>>}
      BY <3>1 DEF Partner
    <3> QED BY <3>2 DEF get_chat_partners, Conversation
  <2>2. Conversation(u, v) = Conversation(v, u)
    BY DEF Conversation
  <2>3. get_messages_by_user_id(u, v) # <<>> <=> Conversation(u, v) # {}
    <3> DEFINE H == get_messages_by_user_id(u, v)
    <3>1. H \in Seq(Conversation(u, v)) /\ ToSet(H) = Conversation(u, v)
      BY ConversationListed
    <3> HIDE DEF H
    <3>2. H = <<>> \/ Len(H) >= 1
      BY <3>1
    <3>3. Len(H) >= 1 => H[1] \in Conversation(u, v) /\ H # <<>>
      BY <3>1
    <3>4. H = <<>> => ToSet(H) = {}
      BY DEF ToSet
    <3>5. H # <<>> <=> Conversation(u, v) # {}
      BY <3>1, <3>2, <3>3, <3>4
    <3> QED BY <3>5 DEF H
  <2>4. u \notin get_chat_partners(u)
    BY DEF get_chat_partners, Partner, QInv, IInv, TypeOK, Paired
  <2>5. get_chat_partners(u) \subseteq Accounts
    BY DEF get_chat_partners
  <2> QED BY <2>1, <2>2, <2>3, <2>4, <2>5 DEF get_all_contacts
<1> QED BY <1>1, QueriesInvariance, PTL

=============================================================================
