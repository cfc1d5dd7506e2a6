-------------------------- MODULE ChatRelay_proofs --------------------------
(***************************************************************************)
(* Proofs about ChatRelay: type correctness, the three safety invariants,  *)
(* and that it implements Mailbox, for any number of users, connections    *)
(* and requests.                                                           *)
(***************************************************************************)
EXTENDS ChatRelay, TLAPS

(* The row is there from the INSERT on, and only from then on. *)
RowFirst ==
    \A h \in Requests :
        /\ stage[h] \in {"lookup", "precheck", "sending", "created"} => h \in messages
        /\ stage[h] \in {"idle", "check", "insert"} => h \notin messages

(* Whoever waits for a receiver or a connection has one. *)
Addressed ==
    \A h \in Requests :
        /\ stage[h] \in InFlight \cup {"created"} => to[h] \in Ids
        /\ stage[h] \in {"precheck", "sending"} => target[h] # NoConn

(* A cloned Session belongs to the receiver, and is that of an open or once *)
(* open connection.                                                         *)
TargetSound ==
    \A h \in Requests :
        target[h] # NoConn =>
            /\ owner[target[h]] = to[h]
            /\ task[target[h]] # "idle"
            /\ stage[h] \notin {"idle", "check", "insert", "lookup"}

(* Once a send is past its lookup, the connection now in the receiver's     *)
(* entry is the one it looked up, or opened after the row was there.        *)
LookupOrSnapshot ==
    \A h \in Requests, c \in Conns :
        stage[h] \in {"precheck", "sending", "created"} /\ sessions[to[h]] = c =>
            h \in snapshot[c] \/ target[h] = c

(* What an answered send with a target did. *)
Settled ==
    \A h \in Created :
        target[h] # NoConn =>
            \/ h \in Pushed(target[h])
            \/ closed[target[h]]
            \/ link[target[h]] = "down"

(* Only answered requests are in a channel's history, and in that of their  *)
(* target.                                                                  *)
PushedSound ==
    \A c \in Conns : \A h \in Pushed(c) : stage[h] = "created" /\ target[h] = c

BeforeSound == \A h \in Requests : before[h] \subseteq Created

IInv ==
    /\ TypeOK
    /\ RegistrySound
    /\ RowFirst
    /\ Addressed
    /\ TargetSound
    /\ LookupOrSnapshot
    /\ Settled
    /\ PushedSound
    /\ BeforeSound
    /\ StreamOrder

-----------------------------------------------------------------------------
(* Type correctness *)

(* An idle server has its types. *)
LEMMA InitType == Init => TypeOK
BY RelayAssumption DEF Init, TypeOK, Stages, InFlight, Running, TaskStates

(* Every step of the relay is a step of one request, one connection, one    *)
(* client, or the process.                                                  *)
LEMMA TypeStep ==
    ASSUME TypeOK, Addressed, [Next]_vars
    PROVE  TypeOK'
<1>. USE RelayAssumption DEF InFlight, Stages, Running, TaskStates,
                             requestVars, connVars, historyVars
<1>1. ASSUME NEW h \in Requests, NEW s \in Accounts, NEW r \in Ids,
             NEW b \in BOOLEAN, Submit(h, s, r, b)
      PROVE  TypeOK'
  <2>1. CASE stage'[h] = "check"
    <3>1. Created \in SUBSET Requests
      BY DEF Created
    <3>2. /\ stage' = [stage EXCEPT ![h] = "check"]
          /\ from' = [from EXCEPT ![h] = s]
          /\ to' = [to EXCEPT ![h] = r]
          /\ before' = [before EXCEPT ![h] = Created]
      BY <1>1, <2>1 DEF TypeOK, Submit
    <3>. QED
      BY <1>1, <3>1, <3>2 DEF TypeOK, Submit
  <2>2. CASE stage'[h] = "failed"
    BY <1>1, <2>2 DEF TypeOK, Submit, Created
  <2>. QED
    BY <1>1, <2>1, <2>2 DEF TypeOK, Submit
<1>2. ASSUME NEW h \in Requests, CheckReceiver(h)
      PROVE  TypeOK'
  <2>1. CASE to[h] \in Accounts
    <3>1. stage' \in [Requests -> Stages]
      BY <1>2, <2>1 DEF TypeOK, CheckReceiver
    <3>2. stamp' \in [Requests -> Nat] /\ clock' \in Nat
      BY <1>2, <2>1 DEF TypeOK, CheckReceiver
    <3>. QED
      BY <1>2, <3>1, <3>2 DEF TypeOK, CheckReceiver
  <2>2. CASE to[h] \notin Accounts
    BY <1>2, <2>2 DEF TypeOK, CheckReceiver
  <2>. QED
    BY <1>2, <2>1, <2>2 DEF CheckReceiver
<1>3. ASSUME NEW h \in Requests, Insert(h)
      PROVE  TypeOK'
  BY <1>3 DEF TypeOK, Insert
<1>4. ASSUME NEW h \in Requests, QueryFails(h)
      PROVE  TypeOK'
  BY <1>4 DEF TypeOK, QueryFails
<1>5. ASSUME NEW h \in Requests, Lookup(h)
      PROVE  TypeOK'
  <2>1. sessions[to[h]] \in Conns \cup {NoConn}
    BY <1>5 DEF TypeOK, Addressed, Lookup
  <2>. QED
    BY <1>5, <2>1 DEF TypeOK, Lookup
<1>6. ASSUME NEW h \in Requests, PreCheck(h)
      PROVE  TypeOK'
  BY <1>6 DEF TypeOK, PreCheck
<1>7. ASSUME NEW h \in Requests, Send(h)
      PROVE  TypeOK'
  <2>1. PICK c \in Conns : target[h] = c
    BY <1>7 DEF Addressed, Send, TypeOK
  <2>2. backlog' \in [Conns -> 0..OutboxCap]
    BY <1>7, <2>1 DEF TypeOK, Send, HasRoom
  <2>3. pushed' \in [Conns -> Seq(Requests)]
    BY <1>7, <2>1 DEF TypeOK, Send
  <2>. QED
    BY <1>7, <2>2, <2>3 DEF TypeOK, Send
<1>8. ASSUME NEW h \in Requests, SendFails(h)
      PROVE  TypeOK'
  BY <1>8 DEF TypeOK, SendFails
<1>9. ASSUME NEW h \in Requests, Dropped(h)
      PROVE  TypeOK'
  BY <1>9 DEF TypeOK, Dropped
<1>10. ASSUME NEW c \in Conns, NEW u \in Accounts, Connect(c, u)
       PROVE  TypeOK'
  BY <1>10 DEF TypeOK, Connect
<1>11. ASSUME NEW c \in Conns, TaskPing(c)
       PROVE  TypeOK'
  <2>1. CASE link[c] = "up"
    <3>1. /\ backlog[c] < OutboxCap /\ backlog' = [backlog EXCEPT ![c] = @ + 1]
          /\ incoming[c] # <<>> /\ incoming' = [incoming EXCEPT ![c] = Tail(@)]
          /\ task' = task
      BY <1>11, <2>1 DEF TypeOK, TaskPing, HasRoom
    <3>2. backlog' \in [Conns -> 0..OutboxCap]
      BY <3>1 DEF TypeOK
    <3>3. incoming' \in [Conns -> Seq(Frames)]
      BY <3>1 DEF TypeOK
    <3>. QED
      BY <1>11, <3>1, <3>2, <3>3 DEF TypeOK, TaskPing
  <2>2. CASE link[c] = "down"
    <3>1. /\ task' = [task EXCEPT ![c] = "panicked"]
          /\ incoming' = [incoming EXCEPT ![c] = <<>>]
          /\ backlog' = backlog
      BY <1>11, <2>2 DEF TypeOK, TaskPing
    <3>. QED
      BY <1>11, <3>1 DEF TypeOK, TaskPing
  <2>. QED
    BY <1>11, <2>1, <2>2 DEF TaskPing
<1>12. ASSUME NEW c \in Conns, TaskClose(c)
       PROVE  TypeOK'
  BY <1>12 DEF TypeOK, TaskClose
<1>13. ASSUME NEW c \in Conns, TaskCloseSent(c)
       PROVE  TypeOK'
  <2>1. CASE link[c] = "up"
    BY <1>13, <2>1 DEF TypeOK, TaskCloseSent, HasRoom
  <2>2. CASE link[c] = "down"
    BY <1>13, <2>2 DEF TypeOK, TaskCloseSent, HasRoom
  <2>. QED
    BY <1>13, <2>1, <2>2 DEF TaskCloseSent
<1>14. ASSUME NEW c \in Conns, TaskStreamEnd(c)
       PROVE  TypeOK'
  BY <1>14 DEF TypeOK, TaskStreamEnd
<1>15. ASSUME NEW c \in Conns, TaskRemove(c)
       PROVE  TypeOK'
  BY <1>15 DEF TypeOK, TaskRemove
<1>16. ASSUME NEW c \in Conns, NEW f \in Frames, ClientFrame(c, f)
       PROVE  TypeOK'
  BY <1>16 DEF TypeOK, ClientFrame
<1>17. ASSUME NEW c \in Conns, Drain(c)
       PROVE  TypeOK'
  BY <1>17 DEF TypeOK, Drain
<1>18. ASSUME NEW c \in Conns, Disconnect(c)
       PROVE  TypeOK'
  <2>1. CASE incoming' = incoming
    BY <1>18, <2>1 DEF TypeOK, Disconnect
  <2>2. CASE incoming' = [incoming EXCEPT ![c] = <<>>]
    BY <1>18, <2>2 DEF TypeOK, Disconnect
  <2>. QED
    BY <1>18, <2>1, <2>2 DEF Disconnect
<1>19. CASE Restart
  BY <1>19 DEF TypeOK, Restart
<1>20. CASE UNCHANGED vars
  BY <1>20 DEF TypeOK, vars
<1>. QED
  BY <1>1, <1>2, <1>3, <1>4, <1>5, <1>6, <1>7, <1>8, <1>9, <1>10, <1>11, <1>12,
     <1>13, <1>14, <1>15, <1>16, <1>17, <1>18, <1>19, <1>20
     DEF Next, HandlerStep, TaskStep

-----------------------------------------------------------------------------
(* What the two sides leave alone *)

(* A send_message handler touches the map and the connections only by what  *)
(* it pushes.                                                               *)
LEMMA HandlerFrame ==
    ASSUME NEW h \in Requests,
           \/ HandlerStep(h)
           \/ \E s \in Accounts, r \in Ids, b \in BOOLEAN : Submit(h, s, r, b)
    PROVE  UNCHANGED <<sessions, owner, task, link, closed, newest, snapshot>>
BY DEF HandlerStep, Submit, CheckReceiver, Insert, QueryFails, Lookup, PreCheck, Send,
       SendFails, Dropped, connVars, historyVars

(* A connection's task, client and socket touch no request and no row.      *)
LEMMA ConnFrame ==
    ASSUME NEW c \in Conns,
           \/ TaskStep(c)
           \/ \E f \in Frames : ClientFrame(c, f)
           \/ Drain(c)
           \/ Disconnect(c)
    PROVE  UNCHANGED <<messages, stage, to, target, owner, pushed, historyVars>>
BY DEF TaskStep, TaskPing, TaskClose, TaskCloseSent, TaskStreamEnd, TaskRemove,
       ClientFrame, Drain, Disconnect, requestVars

(* Steps, by the side that takes them. *)
LEMMA StepCases ==
    ASSUME [Next]_vars
    PROVE  \/ \E h \in Requests :
                \/ HandlerStep(h)
                \/ \E s \in Accounts, r \in Ids, b \in BOOLEAN : Submit(h, s, r, b)
           \/ \E c \in Conns, u \in Accounts : Connect(c, u)
           \/ \E c \in Conns :
                \/ TaskStep(c)
                \/ \E f \in Frames : ClientFrame(c, f)
                \/ Drain(c)
                \/ Disconnect(c)
           \/ Restart
           \/ UNCHANGED vars
BY DEF Next

-----------------------------------------------------------------------------
(* The WsSessions map *)

(* Every step keeps the map sound: an entry is written by Connect for the    *)
(* newest connection and removed by the end of any task of its user.        *)
LEMMA RegistryStep ==
    ASSUME TypeOK, RegistrySound, [Next]_vars
    PROVE  RegistrySound'
<1>. USE RelayAssumption DEF Running
<1>1. ASSUME NEW h \in Requests,
             \/ HandlerStep(h)
             \/ \E s \in Accounts, r \in Ids, b \in BOOLEAN : Submit(h, s, r, b)
      PROVE  RegistrySound'
  BY <1>1, HandlerFrame DEF RegistrySound
<1>2. ASSUME NEW c \in Conns, NEW u \in Accounts, Connect(c, u)
      PROVE  RegistrySound'
  <2>1. /\ task[c] = "idle"
        /\ owner' = [owner EXCEPT ![c] = u]
        /\ task' = [task EXCEPT ![c] = "loop"]
        /\ sessions' = [sessions EXCEPT ![u] = c]
        /\ newest' = [newest EXCEPT ![u] = c]
    BY <1>2 DEF Connect
  <2>2. \A v \in Ids : sessions[v] # c
    BY <2>1 DEF RegistrySound
  <2>. QED
    BY <2>1, <2>2 DEF TypeOK, RegistrySound
<1>3. ASSUME NEW c \in Conns, TaskStep(c)
      PROVE  RegistrySound'
  <2>1. CASE TaskRemove(c)
    BY <1>3, <2>1 DEF TypeOK, RegistrySound, TaskRemove, historyVars
  <2>2. CASE TaskPing(c)
    <3>1. /\ UNCHANGED <<sessions, owner, newest>>
          /\ task[c] = "loop"
          /\ task' = task \/ task' = [task EXCEPT ![c] = "panicked"]
      BY <2>2 DEF TaskPing, historyVars
    <3>. QED
      BY <3>1 DEF TypeOK, RegistrySound
  <2>3. CASE TaskClose(c)
    BY <1>3, <2>3 DEF TypeOK, RegistrySound, TaskClose, historyVars
  <2>4. CASE TaskCloseSent(c)
    BY <1>3, <2>4 DEF TypeOK, RegistrySound, TaskCloseSent, historyVars
  <2>5. CASE TaskStreamEnd(c)
    BY <1>3, <2>5 DEF TypeOK, RegistrySound, TaskStreamEnd, historyVars
  <2>. QED
    BY <1>3, <2>1, <2>2, <2>3, <2>4, <2>5 DEF TaskStep
<1>4. ASSUME NEW c \in Conns,
             \/ \E f \in Frames : ClientFrame(c, f)
             \/ Drain(c)
             \/ Disconnect(c)
      PROVE  RegistrySound'
  BY <1>4 DEF RegistrySound, ClientFrame, Drain, Disconnect, historyVars
<1>5. CASE Restart
  BY <1>5 DEF TypeOK, RegistrySound, Restart
<1>6. CASE UNCHANGED vars
  BY <1>6 DEF RegistrySound, vars, connVars, historyVars
<1>. QED
  BY <1>1, <1>2, <1>3, <1>4, <1>5, <1>6, StepCases

-----------------------------------------------------------------------------
(* Rows, receivers and targets *)

(* A row appears when its request leaves the INSERT, and never goes.         *)
LEMMA RowStep ==
    ASSUME TypeOK, RowFirst, [Next]_vars
    PROVE  RowFirst'
<1>. USE RelayAssumption DEF InFlight
<1>1. ASSUME NEW h \in Requests, NEW s \in Accounts, NEW r \in Ids,
             NEW b \in BOOLEAN, Submit(h, s, r, b)
      PROVE  RowFirst'
  <2>1. stage[h] = "idle" /\ messages' = messages
    BY <1>1 DEF Submit
  <2>2. \/ stage' = [stage EXCEPT ![h] = "check"]
        \/ stage' = [stage EXCEPT ![h] = "failed"]
    BY <1>1 DEF Submit
  <2>. QED
    BY <2>1, <2>2 DEF TypeOK, RowFirst
<1>2. ASSUME NEW h \in Requests, HandlerStep(h)
      PROVE  RowFirst'
  <2>1. CASE CheckReceiver(h)
    BY <2>1 DEF TypeOK, RowFirst, CheckReceiver
  <2>2. CASE Insert(h)
    BY <2>2 DEF TypeOK, RowFirst, Insert
  <2>3. CASE QueryFails(h)
    BY <2>3 DEF TypeOK, RowFirst, QueryFails
  <2>4. CASE Lookup(h)
    BY <2>4 DEF TypeOK, RowFirst, Lookup
  <2>5. CASE PreCheck(h)
    BY <2>5 DEF TypeOK, RowFirst, PreCheck
  <2>6. CASE Send(h)
    BY <2>6 DEF TypeOK, RowFirst, Send
  <2>7. CASE SendFails(h)
    BY <2>7 DEF TypeOK, RowFirst, SendFails
  <2>8. CASE Dropped(h)
    BY <2>8 DEF TypeOK, RowFirst, Dropped
  <2>. QED
    BY <1>2, <2>1, <2>2, <2>3, <2>4, <2>5, <2>6, <2>7, <2>8 DEF HandlerStep
<1>3. ASSUME NEW c \in Conns, NEW u \in Accounts, Connect(c, u)
      PROVE  RowFirst'
  BY <1>3 DEF RowFirst, Connect, requestVars
<1>4. ASSUME NEW c \in Conns,
             \/ TaskStep(c)
             \/ \E f \in Frames : ClientFrame(c, f)
             \/ Drain(c)
             \/ Disconnect(c)
      PROVE  RowFirst'
  BY <1>4, ConnFrame DEF RowFirst
<1>5. CASE Restart
  BY <1>5 DEF TypeOK, RowFirst, Restart
<1>6. CASE UNCHANGED vars
  BY <1>6 DEF RowFirst, vars, requestVars
<1>. QED
  BY <1>1, <1>2, <1>3, <1>4, <1>5, <1>6, StepCases

(* Receivers are set on arrival; a target is looked up before it is used.    *)
LEMMA AddressedStep ==
    ASSUME TypeOK, Addressed, [Next]_vars
    PROVE  Addressed'
<1>. USE RelayAssumption DEF InFlight
<1>1. ASSUME NEW h \in Requests, NEW s \in Accounts, NEW r \in Ids,
             NEW b \in BOOLEAN, Submit(h, s, r, b)
      PROVE  Addressed'
  <2>1. target' = target
    BY <1>1 DEF Submit
  <2>2. \/ stage' = [stage EXCEPT ![h] = "check"] /\ to' = [to EXCEPT ![h] = r]
        \/ stage' = [stage EXCEPT ![h] = "failed"] /\ to' = to
    BY <1>1 DEF Submit
  <2>. QED
    BY <2>1, <2>2 DEF TypeOK, Addressed
<1>2. ASSUME NEW h \in Requests, HandlerStep(h)
      PROVE  Addressed'
  <2>1. CASE CheckReceiver(h)
    BY <2>1 DEF TypeOK, Addressed, CheckReceiver
  <2>2. CASE Insert(h)
    BY <2>2 DEF TypeOK, Addressed, Insert
  <2>3. CASE QueryFails(h)
    BY <2>3 DEF TypeOK, Addressed, QueryFails
  <2>4. CASE Lookup(h)
    BY <2>4 DEF TypeOK, Addressed, Lookup
  <2>5. CASE PreCheck(h)
    BY <2>5 DEF TypeOK, Addressed, PreCheck
  <2>6. CASE Send(h)
    BY <2>6 DEF TypeOK, Addressed, Send
  <2>7. CASE SendFails(h)
    BY <2>7 DEF TypeOK, Addressed, SendFails
  <2>8. CASE Dropped(h)
    BY <2>8 DEF TypeOK, Addressed, Dropped
  <2>. QED
    BY <1>2, <2>1, <2>2, <2>3, <2>4, <2>5, <2>6, <2>7, <2>8 DEF HandlerStep
<1>3. ASSUME NEW c \in Conns, NEW u \in Accounts, Connect(c, u)
      PROVE  Addressed'
  BY <1>3 DEF Addressed, Connect, requestVars
<1>4. ASSUME NEW c \in Conns,
             \/ TaskStep(c)
             \/ \E f \in Frames : ClientFrame(c, f)
             \/ Drain(c)
             \/ Disconnect(c)
      PROVE  Addressed'
  BY <1>4, ConnFrame DEF Addressed
<1>5. CASE Restart
  BY <1>5 DEF TypeOK, Addressed, Restart
<1>6. CASE UNCHANGED vars
  BY <1>6 DEF Addressed, vars, requestVars
<1>. QED
  BY <1>1, <1>2, <1>3, <1>4, <1>5, <1>6, StepCases

(* A looked-up connection keeps its owner and never becomes idle again.      *)
LEMMA TargetStep ==
    ASSUME TypeOK, RegistrySound, Addressed, TargetSound, [Next]_vars
    PROVE  TargetSound'
<1>. USE RelayAssumption DEF InFlight, Running
<1>1. ASSUME NEW h \in Requests, NEW s \in Accounts, NEW r \in Ids,
             NEW b \in BOOLEAN, Submit(h, s, r, b)
      PROVE  TargetSound'
  <2>1. stage[h] = "idle" /\ UNCHANGED <<target, owner, task>>
    BY <1>1 DEF Submit, connVars
  <2>2. \/ stage' = [stage EXCEPT ![h] = "check"] /\ to' = [to EXCEPT ![h] = r]
        \/ stage' = [stage EXCEPT ![h] = "failed"] /\ to' = to
    BY <1>1 DEF Submit
  <2>3. target[h] = NoConn
    BY <2>1 DEF TargetSound
  <2>. QED
    BY <2>1, <2>2, <2>3 DEF TypeOK, TargetSound
<1>2. ASSUME NEW h \in Requests, HandlerStep(h)
      PROVE  TargetSound'
  <2>. USE DEF connVars
  <2>1. CASE CheckReceiver(h)
    BY <2>1 DEF TypeOK, TargetSound, CheckReceiver
  <2>2. CASE Insert(h)
    BY <2>2 DEF TypeOK, TargetSound, Insert
  <2>3. CASE QueryFails(h)
    BY <2>3 DEF TypeOK, TargetSound, QueryFails
  <2>4. CASE Lookup(h)
    <3>1. /\ stage[h] = "lookup"
          /\ target' = [target EXCEPT ![h] = sessions[to[h]]]
          /\ \/ stage' = [stage EXCEPT ![h] = "created"]
             \/ stage' = [stage EXCEPT ![h] = "precheck"]
          /\ UNCHANGED <<to, owner, task>>
      BY <2>4 DEF Lookup
    <3>2. to[h] \in Ids
      BY <3>1 DEF Addressed
    <3>3. sessions[to[h]] # NoConn =>
            /\ sessions[to[h]] \in Conns
            /\ owner[sessions[to[h]]] = to[h]
            /\ task[sessions[to[h]]] # "idle"
      <4>. SUFFICES ASSUME sessions[to[h]] # NoConn
                    PROVE  \E d \in Conns : /\ sessions[to[h]] = d
                                            /\ owner[d] = to[h]
                                            /\ task[d] # "idle"
        OBVIOUS
      <4>1. PICK d \in Conns : sessions[to[h]] = d
        BY <3>2 DEF TypeOK
      <4>. QED
        BY <3>2, <4>1 DEF RegistrySound
    <3>. QED
      BY <3>1, <3>2, <3>3 DEF TypeOK, TargetSound
  <2>5. CASE PreCheck(h)
    BY <2>5 DEF TypeOK, TargetSound, PreCheck
  <2>6. CASE Send(h)
    BY <2>6 DEF TypeOK, TargetSound, Send
  <2>7. CASE SendFails(h)
    BY <2>7 DEF TypeOK, TargetSound, SendFails
  <2>8. CASE Dropped(h)
    BY <2>8 DEF TypeOK, TargetSound, Dropped
  <2>. QED
    BY <1>2, <2>1, <2>2, <2>3, <2>4, <2>5, <2>6, <2>7, <2>8 DEF HandlerStep
<1>3. ASSUME NEW c \in Conns, NEW u \in Accounts, Connect(c, u)
      PROVE  TargetSound'
  BY <1>3 DEF TypeOK, TargetSound, Connect, requestVars
<1>4. ASSUME NEW c \in Conns,
             \/ TaskStep(c)
             \/ \E f \in Frames : ClientFrame(c, f)
             \/ Drain(c)
             \/ Disconnect(c)
      PROVE  TargetSound'
  <2>1. \A d \in Conns : task[d] # "idle" => task'[d] # "idle"
    BY <1>4 DEF TypeOK, TaskStep, TaskPing, TaskClose, TaskCloseSent, TaskStreamEnd,
               TaskRemove, ClientFrame, Drain, Disconnect
  <2>. QED
    BY <1>4, <2>1, ConnFrame DEF TypeOK, TargetSound
<1>5. CASE Restart
  BY <1>5 DEF TypeOK, TargetSound, Restart
<1>6. CASE UNCHANGED vars
  BY <1>6 DEF TargetSound, vars, requestVars, connVars
<1>. QED
  BY <1>1, <1>2, <1>3, <1>4, <1>5, <1>6, StepCases

-----------------------------------------------------------------------------
(* What was looked up, what was fetched, and what was pushed *)

(* A new entry's snapshot holds every row there is, so an entry that is not  *)
(* the target of a send past its lookup has fetched its message.            *)
LEMMA LookupStep ==
    ASSUME TypeOK, RegistrySound, RowFirst, Addressed, LookupOrSnapshot, [Next]_vars
    PROVE  LookupOrSnapshot'
<1>. USE RelayAssumption DEF InFlight
<1>1. ASSUME NEW h \in Requests, NEW s \in Accounts, NEW r \in Ids,
             NEW b \in BOOLEAN, Submit(h, s, r, b)
      PROVE  LookupOrSnapshot'
  <2>1. stage[h] = "idle" /\ UNCHANGED <<target, sessions, snapshot>>
    BY <1>1 DEF Submit
  <2>2. \/ stage' = [stage EXCEPT ![h] = "check"] /\ to' = [to EXCEPT ![h] = r]
        \/ stage' = [stage EXCEPT ![h] = "failed"] /\ to' = to
    BY <1>1 DEF Submit
  <2>3. \A g \in Requests :
          stage'[g] \in {"precheck", "sending", "created"} =>
              stage'[g] = stage[g] /\ to'[g] = to[g]
    BY <2>1, <2>2 DEF TypeOK
  <2>. QED
    BY <2>1, <2>3 DEF LookupOrSnapshot
<1>2. ASSUME NEW h \in Requests, HandlerStep(h)
      PROVE  LookupOrSnapshot'
  <2>. USE DEF historyVars
  <2>1. CASE CheckReceiver(h)
    <3>1. /\ \E n \in {"insert", "failed"} : stage' = [stage EXCEPT ![h] = n]
          /\ UNCHANGED <<to, target, sessions, snapshot>>
      BY <2>1 DEF CheckReceiver
    <3>2. \A g \in Requests :
            stage'[g] \in {"precheck", "sending", "created"} => stage'[g] = stage[g]
      BY <3>1 DEF TypeOK
    <3>. QED
      BY <3>1, <3>2 DEF LookupOrSnapshot
  <2>2. CASE Insert(h)
    BY <2>2 DEF TypeOK, LookupOrSnapshot, Insert
  <2>3. CASE QueryFails(h)
    BY <2>3 DEF TypeOK, LookupOrSnapshot, QueryFails
  <2>4. CASE Lookup(h)
    <3>1. /\ target' = [target EXCEPT ![h] = sessions[to[h]]]
          /\ \E n \in {"created", "precheck"} : stage' = [stage EXCEPT ![h] = n]
          /\ UNCHANGED <<to, sessions, snapshot>>
      BY <2>4 DEF Lookup
    <3>2. ASSUME NEW g \in Requests, NEW c \in Conns,
                 stage'[g] \in {"precheck", "sending", "created"}, sessions[to[g]] = c
          PROVE  g \in snapshot[c] \/ target'[g] = c
      <4>1. CASE g = h
        BY <3>1, <3>2, <4>1 DEF TypeOK
      <4>2. CASE g # h
        <5>1. stage[g] = stage'[g] /\ target'[g] = target[g]
          BY <3>1, <4>2 DEF TypeOK
        <5>. QED
          BY <3>2, <5>1 DEF LookupOrSnapshot
      <4>. QED
        BY <4>1, <4>2
    <3>. QED
      BY <3>1, <3>2 DEF LookupOrSnapshot
  <2>5. CASE PreCheck(h)
    BY <2>5 DEF TypeOK, LookupOrSnapshot, PreCheck
  <2>6. CASE Send(h)
    BY <2>6 DEF TypeOK, LookupOrSnapshot, Send
  <2>7. CASE SendFails(h)
    BY <2>7 DEF TypeOK, LookupOrSnapshot, SendFails
  <2>8. CASE Dropped(h)
    BY <2>8 DEF TypeOK, LookupOrSnapshot, Dropped
  <2>. QED
    BY <1>2, <2>1, <2>2, <2>3, <2>4, <2>5, <2>6, <2>7, <2>8 DEF HandlerStep
<1>3. ASSUME NEW c \in Conns, NEW u \in Accounts, Connect(c, u)
      PROVE  LookupOrSnapshot'
  <2>1. /\ sessions' = [sessions EXCEPT ![u] = c]
        /\ snapshot' = [snapshot EXCEPT ![c] = {h \in messages : to[h] = u}]
        /\ task[c] = "idle"
        /\ UNCHANGED <<stage, to, target, messages>>
    BY <1>3 DEF Connect, requestVars
  <2>2. ASSUME NEW h \in Requests, NEW d \in Conns,
               stage[h] \in {"precheck", "sending", "created"},
               sessions'[to[h]] = d
        PROVE  h \in snapshot'[d] \/ target[h] = d
    <3>1. h \in messages /\ to[h] \in Ids
      BY <2>2 DEF RowFirst, Addressed
    <3>2. CASE to[h] = u
      BY <2>1, <2>2, <3>1, <3>2 DEF TypeOK
    <3>3. CASE to[h] # u
      <4>1. sessions[to[h]] = d
        BY <2>1, <2>2, <3>1, <3>3 DEF TypeOK
      <4>2. h \in snapshot[d] \/ target[h] = d
        BY <2>2, <4>1 DEF LookupOrSnapshot
      <4>3. d # c
        BY <2>1, <3>1, <4>1 DEF RegistrySound, Running
      <4>. QED
        BY <2>1, <4>2, <4>3 DEF TypeOK
    <3>. QED
      BY <3>2, <3>3
  <2>. QED
    BY <2>1, <2>2 DEF LookupOrSnapshot
<1>4. ASSUME NEW c \in Conns,
             \/ TaskStep(c)
             \/ \E f \in Frames : ClientFrame(c, f)
             \/ Drain(c)
             \/ Disconnect(c)
      PROVE  LookupOrSnapshot'
  <2>1. \A u \in Ids : sessions'[u] \in {sessions[u], NoConn}
    BY <1>4 DEF TypeOK, TaskStep, TaskPing, TaskClose, TaskCloseSent, TaskStreamEnd,
               TaskRemove, ClientFrame, Drain, Disconnect
  <2>. QED
    BY <1>4, <2>1, ConnFrame DEF TypeOK, Addressed, LookupOrSnapshot, historyVars
<1>5. CASE Restart
  BY <1>5 DEF TypeOK, Addressed, LookupOrSnapshot, Restart, historyVars
<1>6. CASE UNCHANGED vars
  BY <1>6 DEF LookupOrSnapshot, vars, requestVars, historyVars
<1>. QED
  BY <1>1, <1>2, <1>3, <1>4, <1>5, <1>6, StepCases

(* Appending to one channel's history adds that message to what it has      *)
(* carried, and moves nothing.                                              *)
LEMMA PushedAppend ==
    ASSUME TypeOK, NEW h \in Requests, NEW c \in Conns,
           pushed' = [pushed EXCEPT ![c] = Append(@, h)]
    PROVE  /\ Pushed(c)' = Pushed(c) \cup {h}
           /\ \A d \in Conns \ {c} : Pushed(d)' = Pushed(d)
<1>1. pushed[c] \in Seq(Requests) /\ pushed'[c] = Append(pushed[c], h)
  BY DEF TypeOK
<1>2. \A d \in Conns \ {c} : pushed'[d] = pushed[d]
  BY DEF TypeOK
<1>3. /\ Len(pushed'[c]) = Len(pushed[c]) + 1
      /\ pushed'[c][Len(pushed[c]) + 1] = h
      /\ \A i \in 1..Len(pushed[c]) : pushed'[c][i] = pushed[c][i]
  BY <1>1
<1>4. Len(pushed[c]) \in Nat
  BY <1>1
<1>5. 1..(Len(pushed[c]) + 1) = 1..Len(pushed[c]) \cup {Len(pushed[c]) + 1}
  BY <1>4
<1>6. Pushed(c)' = Pushed(c) \cup {h}
  BY <1>3, <1>4, <1>5 DEF Pushed
<1>. QED
  BY <1>2, <1>6 DEF Pushed

(* Only Send adds to a channel's history.                                   *)
LEMMA PushedFrame ==
    ASSUME [Next]_vars, ~ \E h \in Requests : Send(h)
    PROVE  pushed' = pushed
BY DEF Next, HandlerStep, TaskStep, Submit, CheckReceiver, Insert, QueryFails, Lookup,
       PreCheck, SendFails, Dropped, Connect, TaskPing, TaskClose, TaskCloseSent,
       TaskStreamEnd, TaskRemove, ClientFrame, Drain, Disconnect, Restart, vars, connVars

(* An answered request stays answered.                                      *)
LEMMA CreatedStays ==
    ASSUME TypeOK, [Next]_vars
    PROVE  Created \subseteq Created'
<1>1. ASSUME NEW h \in Requests,
             \/ HandlerStep(h)
             \/ \E s \in Accounts, r \in Ids, b \in BOOLEAN : Submit(h, s, r, b)
      PROVE  Created \subseteq Created'
  <2>1. stage[h] # "created" /\ \A g \in Requests \ {h} : stage'[g] = stage[g]
    BY <1>1 DEF TypeOK, HandlerStep, Submit, CheckReceiver, Insert, QueryFails, Lookup,
               PreCheck, Send, SendFails, Dropped
  <2>. QED
    BY <2>1 DEF Created
<1>2. ASSUME NEW c \in Conns, NEW u \in Accounts, Connect(c, u)
      PROVE  Created \subseteq Created'
  BY <1>2 DEF Created, Connect, requestVars
<1>3. ASSUME NEW c \in Conns,
             \/ TaskStep(c)
             \/ \E f \in Frames : ClientFrame(c, f)
             \/ Drain(c)
             \/ Disconnect(c)
      PROVE  Created \subseteq Created'
  BY <1>3, ConnFrame DEF Created
<1>4. CASE Restart
  BY <1>4 DEF TypeOK, Created, Restart, InFlight
<1>5. CASE UNCHANGED vars
  BY <1>5 DEF Created, vars, requestVars
<1>. QED
  BY <1>1, <1>2, <1>3, <1>4, <1>5, StepCases

(* A push and its request's answer are one step; neither is undone.          *)
LEMMA PushedStep ==
    ASSUME TypeOK, Addressed, PushedSound, [Next]_vars
    PROVE  PushedSound'
<1>. USE RelayAssumption DEF InFlight
<1>1. ASSUME NEW h \in Requests, Send(h)
      PROVE  PushedSound'
  <2>1. PICK c \in Conns : target[h] = c
    BY <1>1 DEF Addressed, Send, TypeOK
  <2>2. /\ pushed' = [pushed EXCEPT ![c] = Append(@, h)]
        /\ stage' = [stage EXCEPT ![h] = "created"]
        /\ target' = target
    BY <1>1, <2>1 DEF Send
  <2>3. Pushed(c)' = Pushed(c) \cup {h} /\ \A d \in Conns \ {c} : Pushed(d)' = Pushed(d)
    BY <2>2, PushedAppend
  <2>4. \A d \in Conns : Pushed(d) \subseteq Requests
    BY DEF Pushed, TypeOK
  <2>5. ASSUME NEW d \in Conns, NEW g \in Requests, g \in Pushed(d) \/ (d = c /\ g = h)
        PROVE  stage'[g] = "created" /\ target'[g] = d
    BY <2>1, <2>2, <2>5 DEF TypeOK, PushedSound
  <2>6. \A d \in Conns : \A g \in Pushed(d)' : g \in Pushed(d) \/ (d = c /\ g = h)
    BY <2>3
  <2>. QED
    BY <2>4, <2>5, <2>6 DEF PushedSound
<1>2. ASSUME ~ \E h \in Requests : Send(h)
      PROVE  PushedSound'
  <2>1. \A d \in Conns : Pushed(d)' = Pushed(d) /\ Pushed(d) \subseteq Requests
    BY <1>2, PushedFrame DEF Pushed, TypeOK
  <2>2. Created \subseteq Created'
    BY CreatedStays
  <2>3. \A g \in Created : target'[g] = target[g]
    <3>1. ASSUME NEW h \in Requests, HandlerStep(h)
          PROVE  \A g \in Created : target'[g] = target[g]
      <4>1. CASE Lookup(h)
        BY <4>1 DEF TypeOK, Created, Lookup
      <4>2. CASE ~Lookup(h)
        BY <3>1, <4>2 DEF HandlerStep, CheckReceiver, Insert, QueryFails, PreCheck, Send,
                        SendFails, Dropped
      <4>. QED
        BY <4>1, <4>2
    <3>2. ASSUME NEW h \in Requests, NEW s \in Accounts, NEW r \in Ids,
                 NEW b \in BOOLEAN, Submit(h, s, r, b)
          PROVE  target' = target
      BY <3>2 DEF Submit
    <3>3. ASSUME NEW c \in Conns, NEW u \in Accounts, Connect(c, u)
          PROVE  target' = target
      BY <3>3 DEF Connect, requestVars
    <3>4. ASSUME Restart \/ UNCHANGED vars
          PROVE  target' = target
      BY <3>4 DEF Restart, vars, requestVars
    <3>. QED
      BY <3>1, <3>2, <3>3, <3>4, StepCases, ConnFrame
  <2>. QED
    BY <2>1, <2>2, <2>3 DEF PushedSound, Created
<1>. QED
  BY <1>1, <1>2

(* What had been answered when a request came stays answered.                *)
LEMMA BeforeStep ==
    ASSUME TypeOK, BeforeSound, [Next]_vars
    PROVE  BeforeSound'
<1>1. Created \subseteq Created'
  BY CreatedStays
<1>2. ASSUME NEW h \in Requests, NEW s \in Accounts, NEW r \in Ids,
             NEW b \in BOOLEAN, Submit(h, s, r, b)
      PROVE  BeforeSound'
  <2>1. before' = before \/ before' = [before EXCEPT ![h] = Created]
    BY <1>2 DEF Submit
  <2>. QED
    BY <1>1, <2>1 DEF TypeOK, BeforeSound
<1>3. ASSUME NEW h \in Requests, HandlerStep(h)
      PROVE  before' = before
  BY <1>3 DEF HandlerStep, CheckReceiver, Insert, QueryFails, Lookup, PreCheck, Send,
            SendFails, Dropped, historyVars
<1>4. ASSUME NEW c \in Conns, NEW u \in Accounts, Connect(c, u)
      PROVE  before' = before
  BY <1>4 DEF Connect
<1>5. ASSUME Restart \/ UNCHANGED vars
      PROVE  before' = before
  BY <1>5 DEF Restart, vars, historyVars
<1>6. before' = before => BeforeSound'
  BY <1>1 DEF BeforeSound
<1>7. ASSUME NEW c \in Conns,
             \/ TaskStep(c)
             \/ \E f \in Frames : ClientFrame(c, f)
             \/ Drain(c)
             \/ Disconnect(c)
      PROVE  before' = before
  BY <1>7, ConnFrame DEF historyVars
<1>. QED
  BY <1>2, <1>3, <1>4, <1>5, <1>6, <1>7, StepCases

(* Only the arrival of a request writes its before.                         *)
LEMMA BeforeFrame ==
    ASSUME TypeOK, [Next]_vars
    PROVE  \A g \in Requests : stage[g] # "idle" => before'[g] = before[g]
<1>1. ASSUME NEW h \in Requests, NEW s \in Accounts, NEW r \in Ids,
             NEW b \in BOOLEAN, Submit(h, s, r, b)
      PROVE  \A g \in Requests : stage[g] # "idle" => before'[g] = before[g]
  <2>1. /\ stage[h] = "idle"
        /\ before' = before \/ before' = [before EXCEPT ![h] = Created]
    BY <1>1 DEF Submit
  <2>. QED
    BY <2>1 DEF TypeOK
<1>2. ASSUME NEW h \in Requests, HandlerStep(h)
      PROVE  before' = before
  BY <1>2 DEF HandlerStep, CheckReceiver, Insert, QueryFails, Lookup, PreCheck, Send,
            SendFails, Dropped, historyVars
<1>3. ASSUME NEW c \in Conns, NEW u \in Accounts, Connect(c, u)
      PROVE  before' = before
  BY <1>3 DEF Connect
<1>4. ASSUME Restart \/ UNCHANGED vars
      PROVE  before' = before
  BY <1>4 DEF Restart, vars, historyVars
<1>5. ASSUME NEW c \in Conns,
             \/ TaskStep(c)
             \/ \E f \in Frames : ClientFrame(c, f)
             \/ Drain(c)
             \/ Disconnect(c)
      PROVE  before' = before
  BY <1>5, ConnFrame DEF historyVars
<1>. QED
  BY <1>1, <1>2, <1>3, <1>4, <1>5, StepCases

(* A new message goes to the end of the stream, and it has not been         *)
(* answered: no message ahead of it can have come after its answer.         *)
LEMMA OrderStep ==
    ASSUME TypeOK, Addressed, PushedSound, BeforeSound, StreamOrder, [Next]_vars
    PROVE  StreamOrder'
<1>. USE DEF InFlight
<1>1. ASSUME NEW h \in Requests, Send(h)
      PROVE  StreamOrder'
  <2>1. PICK c \in Conns : target[h] = c
    BY <1>1 DEF Addressed, Send, TypeOK
  <2>2. /\ pushed' = [pushed EXCEPT ![c] = Append(@, h)]
        /\ stage[h] = "sending"
        /\ before' = before
    BY <1>1, <2>1 DEF Send, historyVars
  <2>3. \A d \in Conns : Len(pushed[d]) \in Nat
    BY DEF TypeOK
  <2>4. \A g \in Requests : h \notin before[g]
    BY <2>2 DEF BeforeSound, Created
  <2>5. ASSUME NEW d \in Conns, NEW i \in 1..Len(pushed'[d]), NEW j \in 1..Len(pushed'[d]),
               i < j
        PROVE  pushed'[d][j] \notin before[pushed'[d][i]]
    <3>1. CASE d # c
      BY <2>2, <2>5, <3>1 DEF TypeOK, StreamOrder
    <3>2. CASE d = c
      <4>1. /\ Len(pushed'[c]) = Len(pushed[c]) + 1
            /\ \A k \in 1..Len(pushed[c]) : pushed'[c][k] = pushed[c][k]
            /\ pushed'[c][Len(pushed[c]) + 1] = h
        <5>1. pushed[c] \in Seq(Requests) /\ pushed'[c] = Append(pushed[c], h)
          BY <2>2 DEF TypeOK
        <5>. QED
          BY <5>1
      <4>2. i \in 1..Len(pushed[c])
        BY <2>3, <2>5, <3>2, <4>1
      <4>3. pushed[c][i] \in Requests
        BY <4>2 DEF TypeOK
      <4>4. CASE j = Len(pushed[c]) + 1
        BY <2>4, <3>2, <4>1, <4>2, <4>3, <4>4
      <4>5. CASE j # Len(pushed[c]) + 1
        <5>1. j \in 1..Len(pushed[c])
          BY <2>3, <3>2, <4>1, <4>5
        <5>. QED
          BY <2>5, <3>2, <4>1, <4>2, <5>1 DEF StreamOrder
      <4>. QED
        BY <4>4, <4>5
    <3>. QED
      BY <3>1, <3>2
  <2>. QED
    BY <2>2, <2>5 DEF StreamOrder
<1>2. ASSUME ~ \E h \in Requests : Send(h)
      PROVE  StreamOrder'
  <2>1. pushed' = pushed
    BY <1>2, PushedFrame
  <2>2. \A g \in Requests : stage[g] # "idle" => before'[g] = before[g]
    BY BeforeFrame
  <2>3. \A c \in Conns : \A i \in 1..Len(pushed[c]) :
          pushed[c][i] \in Requests /\ stage[pushed[c][i]] # "idle"
    <3>1. ASSUME NEW c \in Conns, NEW i \in 1..Len(pushed[c])
          PROVE  pushed[c][i] \in Requests /\ stage[pushed[c][i]] = "created"
      <4>1. pushed[c][i] \in Requests
        BY DEF TypeOK
      <4>2. pushed[c][i] \in Pushed(c)
        BY DEF Pushed
      <4>. QED
        BY <4>1, <4>2 DEF PushedSound
    <3>. QED
      BY <3>1
  <2>. QED
    BY <2>1, <2>2, <2>3 DEF StreamOrder
<1>. QED
  BY <1>1, <1>2

(* A send that had a target ends with its message pushed, the session closed *)
(* or the socket broken, and none of the three is undone.                   *)
LEMMA SettledStep ==
    ASSUME TypeOK, Addressed, TargetSound, Settled, [Next]_vars
    PROVE  Settled'
<1>. USE RelayAssumption DEF InFlight
<1>. DEFINE Done(h, c) == h \in Pushed(c) \/ closed[c] \/ link[c] = "down"
<1>1. ASSUME NEW h \in Requests, HandlerStep(h)
      PROVE  Settled'
  <2>1. \A g \in Requests, c \in Conns : Done(g, c) => Done(g, c)'
    <3>1. UNCHANGED <<closed, link>>
      BY <1>1, HandlerFrame
    <3>2. \A c \in Conns : Pushed(c) \subseteq Pushed(c)'
      <4>1. CASE Send(h)
        <5>1. PICK d \in Conns : target[h] = d
          BY <4>1 DEF Addressed, Send, TypeOK
        <5>2. pushed' = [pushed EXCEPT ![d] = Append(@, h)]
          BY <4>1, <5>1 DEF Send
        <5>. QED
          BY <5>2, PushedAppend
      <4>2. CASE ~Send(h)
        BY <1>1, <4>2 DEF HandlerStep, CheckReceiver, Insert, QueryFails, Lookup, PreCheck,
                        SendFails, Dropped, connVars, Pushed
      <4>. QED
        BY <4>1, <4>2
    <3>. QED
      BY <3>1, <3>2
  <2>2. \A g \in Requests \ {h} : stage'[g] = stage[g] /\ target'[g] = target[g]
    BY <1>1 DEF TypeOK, HandlerStep, CheckReceiver, Insert, QueryFails, Lookup, PreCheck,
               Send, SendFails, Dropped
  <2>3. ASSUME NEW d \in Conns, stage'[h] = "created", target'[h] = d
        PROVE  Done(h, d)'
    <3>1. CASE PreCheck(h)
      BY <2>3, <3>1 DEF TypeOK, PreCheck, connVars
    <3>2. CASE Send(h)
      <4>1. pushed' = [pushed EXCEPT ![d] = Append(@, h)]
        BY <2>3, <3>2 DEF Send
      <4>2. Pushed(d)' = Pushed(d) \cup {h}
        BY <4>1, PushedAppend
      <4>. QED
        BY <4>2
    <3>3. CASE SendFails(h)
      BY <2>3, <3>3 DEF SendFails, connVars
    <3>4. CASE Lookup(h)
      BY <2>3, <3>4 DEF TypeOK, Lookup
    <3>. QED
      BY <1>1, <2>3, <3>1, <3>2, <3>3, <3>4
         DEF TypeOK, HandlerStep, CheckReceiver, Insert, QueryFails, Dropped
  <2>4. ASSUME NEW g \in Requests, NEW d \in Conns, stage'[g] = "created", target'[g] = d
        PROVE  Done(g, d)'
    <3>1. CASE g = h
      BY <2>3, <2>4, <3>1
    <3>2. CASE g # h
      <4>1. stage[g] = "created" /\ target[g] = d
        BY <2>2, <2>4, <3>2
      <4>2. Done(g, d)
        BY <4>1 DEF Settled, Created
      <4>. QED
        BY <2>1, <4>2
    <3>. QED
      BY <3>1, <3>2
  <2>5. ASSUME NEW g \in Requests, stage'[g] = "created", target'[g] # NoConn
        PROVE  target'[g] \in Conns
    BY <2>5, TypeStep DEF TypeOK
  <2>. QED
    BY <2>4, <2>5 DEF Settled, Created
<1>2. ASSUME NEW h \in Requests, NEW s \in Accounts, NEW r \in Ids,
             NEW b \in BOOLEAN, Submit(h, s, r, b)
      PROVE  Settled'
  <2>1. /\ UNCHANGED <<target, closed, link, pushed>>
        /\ \E n \in {"check", "failed"} : stage' = [stage EXCEPT ![h] = n]
    BY <1>2 DEF Submit, connVars
  <2>2. Created' \subseteq Created
    BY <2>1 DEF TypeOK, Created
  <2>. QED
    BY <2>1, <2>2 DEF Settled, Pushed
<1>3. ASSUME NEW c \in Conns, NEW u \in Accounts, Connect(c, u)
      PROVE  Settled'
  <2>1. /\ UNCHANGED <<stage, target, closed, pushed>>
        /\ task[c] = "idle"
        /\ \A d \in Conns \ {c} : link'[d] = link[d]
    BY <1>3 DEF TypeOK, Connect, requestVars
  <2>2. \A h \in Requests : target[h] # NoConn => target[h] \in Conns \ {c}
    BY <2>1 DEF TypeOK, TargetSound
  <2>. QED
    BY <2>1, <2>2 DEF Settled, Created, Pushed
<1>4. ASSUME NEW c \in Conns,
             \/ TaskStep(c)
             \/ \E f \in Frames : ClientFrame(c, f)
             \/ Drain(c)
             \/ Disconnect(c)
      PROVE  Settled'
  <2>1. \A d \in Conns : /\ closed[d] => closed'[d]
                         /\ link[d] = "down" => link'[d] = "down"
    BY <1>4 DEF TypeOK, TaskStep, TaskPing, TaskClose, TaskCloseSent, TaskStreamEnd,
               TaskRemove, ClientFrame, Drain, Disconnect
  <2>2. UNCHANGED <<stage, target, pushed>>
    BY <1>4, ConnFrame
  <2>3. \A h \in Requests : target[h] # NoConn => target[h] \in Conns
    BY DEF TypeOK
  <2>. QED
    BY <2>1, <2>2, <2>3 DEF Settled, Created, Pushed
<1>5. CASE Restart
  <2>1. /\ UNCHANGED <<target, closed, pushed>>
        /\ Created' = Created
        /\ \A d \in Conns : link[d] = "down" => link'[d] = "down"
    BY <1>5 DEF TypeOK, Created, Restart
  <2>2. \A h \in Requests : target[h] # NoConn => target[h] \in Conns
    BY DEF TypeOK
  <2>3. Created \subseteq Requests
    BY DEF Created
  <2>. QED
    BY <2>1, <2>2, <2>3 DEF Settled, Pushed
<1>6. CASE UNCHANGED vars
  BY <1>6 DEF Settled, Created, Pushed, vars, requestVars, connVars
<1>. QED
  BY <1>1, <1>2, <1>3, <1>4, <1>5, <1>6, StepCases

-----------------------------------------------------------------------------
(* The theorems *)

(* The invariant holds of an idle server. *)
LEMMA InitInv == Init => IInv
<1>. SUFFICES ASSUME Init
              PROVE  IInv
  OBVIOUS
<1>. USE RelayAssumption
<1>1. TypeOK
  BY InitType
<1>2. \A c \in Conns : Pushed(c) = {} /\ Len(pushed[c]) = 0
  BY DEF Init, Pushed
<1>3. RegistrySound /\ LookupOrSnapshot
  BY DEF Init, RegistrySound, LookupOrSnapshot
<1>4. RowFirst /\ Addressed /\ TargetSound
  BY DEF Init, RowFirst, Addressed, TargetSound, InFlight
<1>5. Settled /\ BeforeSound
  BY DEF Init, Settled, BeforeSound, Created
<1>6. PushedSound
  BY <1>2 DEF PushedSound
<1>7. StreamOrder
  BY <1>2 DEF StreamOrder
<1>. QED
  BY <1>1, <1>3, <1>4, <1>5, <1>6, <1>7 DEF IInv

(* Every step keeps the invariant, conjunct by conjunct. *)
LEMMA StepInv == IInv /\ [Next]_vars => IInv'
BY TypeStep, RegistryStep, RowStep, AddressedStep, TargetStep, LookupStep, PushedStep,
   BeforeStep, OrderStep, SettledStep DEF IInv

(* The inductive invariant of send_message, ws_handler and its tasks holds   *)
(* in every reachable state; the theorems below are read off it.            *)
THEOREM Invariance == Spec => []IInv
BY InitInv, StepInv, PTL DEF Spec

(* The variables of every handler, task and socket keep their types.        *)
THEOREM TypeCorrect == Spec => []TypeOK
<1>1. IInv => TypeOK
  BY DEF IInv
<1>. QED
  BY Invariance, <1>1, PTL

(* ws_handler: whatever the order of inserts and removes, an entry of the   *)
(* WsSessions map is the user's newest connection, and not a finished one.  *)
THEOREM RegistryCorrect == Spec => []RegistrySound
<1>1. IInv => RegistrySound
  BY DEF IInv
<1>. QED
  BY Invariance, <1>1, PTL

(* send_message and ws_handler: between the fetch after connecting and the  *)
(* live pushes no answered message is missing.                              *)
THEOREM NoGapCorrect == Spec => []NoGap
<1>1. IInv => NoGap
  <2>. SUFFICES ASSUME IInv, NEW h \in Created, NEW c \in Conns, sessions[to[h]] = c
                PROVE  \/ h \in snapshot[c] \/ h \in Pushed(c)
                       \/ closed[c] \/ link[c] = "down"
    BY DEF NoGap
  <2>1. h \in Requests /\ stage[h] = "created"
    BY DEF Created
  <2>2. h \in snapshot[c] \/ target[h] = c
    BY <2>1 DEF IInv, LookupOrSnapshot
  <2>3. CASE target[h] = c
    BY <2>3, RelayAssumption DEF IInv, Settled
  <2>. QED
    BY <2>2, <2>3
<1>. QED
  BY Invariance, <1>1, PTL

(* send_message: a socket carries messages in an order that respects what   *)
(* the senders had been told.                                               *)
THEOREM StreamOrderCorrect == Spec => []StreamOrder
<1>1. IInv => StreamOrder
  BY DEF IInv
<1>. QED
  BY Invariance, <1>1, PTL

-----------------------------------------------------------------------------
(* ChatRelay implements Mailbox *)

(* The addressee of a stored message is never rewritten.                    *)
LEMMA AddresseeFrame ==
    ASSUME TypeOK, RowFirst, [Next]_vars, messages' = messages
    PROVE  Addressee' = Addressee
<1>1. ASSUME NEW h \in Requests, NEW s \in Accounts, NEW r \in Ids,
             NEW b \in BOOLEAN, Submit(h, s, r, b)
      PROVE  Addressee' = Addressee
  <2>1. /\ stage[h] = "idle"
        /\ to' = to \/ to' = [to EXCEPT ![h] = r]
    BY <1>1 DEF Submit
  <2>. QED
    BY <2>1 DEF TypeOK, RowFirst, Addressee
<1>2. ASSUME NEW h \in Requests, HandlerStep(h)
      PROVE  to' = to
  BY <1>2 DEF HandlerStep, CheckReceiver, Insert, QueryFails, Lookup, PreCheck, Send,
            SendFails, Dropped
<1>3. ASSUME NEW c \in Conns, NEW u \in Accounts, Connect(c, u)
      PROVE  to' = to
  BY <1>3 DEF Connect, requestVars
<1>4. ASSUME Restart \/ UNCHANGED vars
      PROVE  to' = to
  BY <1>4 DEF Restart, vars, requestVars
<1>. QED
  BY <1>1, <1>2, <1>3, <1>4, StepCases, ConnFrame DEF Addressee

(* Only Send lets a user hear something: a connection that opens has not    *)
(* carried anything.                                                        *)
LEMMA HeardFrame ==
    ASSUME TypeOK, TargetSound, PushedSound, [Next]_vars, ~ \E h \in Requests : Send(h)
    PROVE  Heard' = Heard
<1>1. \A c \in Conns : Pushed(c)' = Pushed(c)
  BY PushedFrame DEF Pushed
<1>2. ASSUME NEW c \in Conns, NEW u \in Accounts, Connect(c, u)
      PROVE  Heard' = Heard
  <2>1. /\ task[c] = "idle"
        /\ \A d \in Conns \ {c} : owner'[d] = owner[d]
    BY <1>2 DEF TypeOK, Connect
  <2>2. \A h \in Requests : h \notin Pushed(c)
    BY <2>1, RelayAssumption DEF PushedSound, TargetSound
  <2>3. ASSUME NEW v \in Ids, NEW h \in Requests
        PROVE  (\E d \in Conns : owner'[d] = v /\ h \in Pushed(d))
                 <=> (\E d \in Conns : owner[d] = v /\ h \in Pushed(d))
    BY <2>1, <2>2
  <2>. QED
    BY <1>1, <2>3 DEF Heard
<1>3. ASSUME owner' = owner
      PROVE  Heard' = Heard
  BY <1>1, <1>3 DEF Heard
<1>4. ASSUME Restart \/ UNCHANGED vars
      PROVE  owner' = owner
  BY <1>4 DEF Restart, vars, connVars
<1>. QED
  BY <1>2, <1>3, <1>4, StepCases, ConnFrame, HandlerFrame

(* An idle server is an empty mailbox. *)
LEMMA MailboxInit == Init => MB!Init
<1>. SUFFICES ASSUME Init
              PROVE  MB!Init
  OBVIOUS
<1>1. messages = {} /\ Created = {}
  BY DEF Init, Created
<1>2. Addressee = [h \in Requests |-> NoUser]
  BY <1>1 DEF Addressee
<1>3. \A c \in Conns : Pushed(c) = {}
  BY DEF Init, Pushed
<1>4. Heard = [u \in Ids |-> {}]
  BY <1>3 DEF Heard
<1>. QED
  BY <1>1, <1>2, <1>4 DEF MB!Init

(* INSERT is Store, a push with its answer is NotifyAndReply, any other     *)
(* answer is Reply, and everything else is invisible to the mailbox.        *)
LEMMA MailboxStep ==
    ASSUME IInv, [Next]_vars
    PROVE  [MB!Next]_(MB!vars)
<1>. USE RelayAssumption DEF InFlight
<1>. DEFINE Quiet == messages' = messages /\ Created' = Created
<1>1. ASSUME Quiet, ~ \E h \in Requests : Send(h)
      PROVE  UNCHANGED MB!vars
  BY <1>1, AddresseeFrame, HeardFrame DEF IInv, MB!vars
<1>2. ASSUME NEW h \in Requests, Send(h)
      PROVE  MB!NotifyAndReply(h)
  <2>1. PICK c \in Conns : target[h] = c
    BY <1>2 DEF IInv, Addressed, Send, TypeOK
  <2>2. /\ stage[h] = "sending" /\ stage' = [stage EXCEPT ![h] = "created"]
        /\ pushed' = [pushed EXCEPT ![c] = Append(@, h)]
        /\ UNCHANGED <<messages, owner>>
    BY <1>2, <2>1 DEF Send
  <2>3. h \in messages \ Created /\ Created' = Created \cup {h}
    BY <2>2 DEF IInv, TypeOK, RowFirst, Created
  <2>4. owner[c] = to[h] /\ to[h] \in Ids /\ Addressee[h] = to[h]
    BY <2>1, <2>2, <2>3 DEF IInv, TargetSound, Addressed, Addressee
  <2>5. Pushed(c)' = Pushed(c) \cup {h} /\ \A d \in Conns \ {c} : Pushed(d)' = Pushed(d)
    BY <2>2, PushedAppend DEF IInv
  <2>6. h \notin Heard[to[h]]
    BY <2>2, <2>4 DEF Heard, IInv, PushedSound
  <2>7. ASSUME NEW v \in Ids
        PROVE  Heard'[v] = IF v = to[h] THEN Heard[v] \cup {h} ELSE Heard[v]
    <3>1. Heard'[v] = {g \in Requests : \E d \in Conns : owner[d] = v /\ g \in Pushed(d)'}
      BY <2>2 DEF Heard
    <3>2. Heard[v] = {g \in Requests : \E d \in Conns : owner[d] = v /\ g \in Pushed(d)}
      BY DEF Heard
    <3>. QED
      BY <2>4, <2>5, <3>1, <3>2
  <2>8. Heard' = [Heard EXCEPT ![to[h]] = @ \cup {h}]
    BY <2>4, <2>7 DEF Heard
  <2>9. Addressee' = Addressee
    BY <2>2, AddresseeFrame DEF IInv
  <2>. QED
    BY <2>2, <2>3, <2>4, <2>6, <2>8, <2>9 DEF MB!NotifyAndReply
<1>3. ASSUME NEW h \in Requests, HandlerStep(h), ~ \E g \in Requests : Send(g)
      PROVE  MB!Next \/ Quiet
  <2>1. Heard' = Heard
    BY <1>3, HeardFrame DEF IInv
  <2>2. ASSUME stage[h] = "insert", messages' = messages \cup {h}, to' = to,
               \E n \in {"lookup", "failed"} : stage' = [stage EXCEPT ![h] = n]
        PROVE  MB!Store(h, to[h])
    <3>1. h \notin messages /\ to[h] \in Ids
      BY <2>2 DEF IInv, RowFirst, Addressed
    <3>2. Created' = Created
      BY <2>2 DEF IInv, TypeOK, Created
    <3>3. Addressee' = [Addressee EXCEPT ![h] = to[h]]
      BY <2>2, <3>1 DEF Addressee
    <3>. QED
      BY <2>1, <2>2, <3>1, <3>2, <3>3 DEF MB!Store
  <2>3. ASSUME stage[h] \in {"lookup", "precheck", "sending"}, messages' = messages,
               stage' = [stage EXCEPT ![h] = "created"]
        PROVE  MB!Reply(h)
    <3>1. h \in messages \ Created /\ Created' = Created \cup {h}
      BY <2>3 DEF IInv, TypeOK, RowFirst, Created
    <3>2. Addressee' = Addressee
      BY <2>3, AddresseeFrame DEF IInv
    <3>. QED
      BY <2>1, <2>3, <3>1, <3>2 DEF MB!Reply
  <2>4. ASSUME stage[h] # "created", messages' = messages,
               \E n \in Stages \ {"created"} : stage' = [stage EXCEPT ![h] = n]
        PROVE  Quiet
    BY <2>4 DEF IInv, TypeOK, Created
  <2>5. CASE CheckReceiver(h)
    BY <2>4, <2>5 DEF CheckReceiver, Stages
  <2>6. CASE Insert(h)
    BY <1>3, <2>2, <2>6 DEF Insert, MB!Next, IInv, Addressed
  <2>7. CASE QueryFails(h)
    <3>1. CASE messages' = messages
      BY <2>4, <2>7, <3>1 DEF QueryFails, Stages
    <3>2. CASE stage[h] = "insert" /\ messages' = messages \cup {h}
      BY <2>2, <2>7, <3>2 DEF QueryFails, MB!Next, IInv, Addressed
    <3>. QED
      BY <2>7, <3>1, <3>2 DEF QueryFails
  <2>8. CASE Lookup(h)
    BY <2>3, <2>4, <2>8 DEF Lookup, Stages, MB!Next
  <2>9. CASE PreCheck(h)
    BY <2>3, <2>4, <2>9 DEF PreCheck, Stages, MB!Next
  <2>10. CASE SendFails(h)
    BY <2>3, <2>10 DEF SendFails, MB!Next
  <2>11. CASE Dropped(h)
    BY <2>4, <2>11 DEF Dropped, Stages
  <2>. QED
    BY <1>3, <2>5, <2>6, <2>7, <2>8, <2>9, <2>10, <2>11 DEF HandlerStep
<1>4. ASSUME NEW h \in Requests, NEW s \in Accounts, NEW r \in Ids,
             NEW b \in BOOLEAN, Submit(h, s, r, b)
      PROVE  Quiet
  <2>1. /\ messages' = messages /\ stage[h] = "idle"
        /\ \E n \in {"check", "failed"} : stage' = [stage EXCEPT ![h] = n]
    BY <1>4 DEF Submit
  <2>. QED
    BY <2>1 DEF IInv, TypeOK, Created
<1>5. ASSUME NEW c \in Conns, NEW u \in Accounts, Connect(c, u)
      PROVE  Quiet
  BY <1>5 DEF Connect, requestVars, Created
<1>6. ASSUME NEW c \in Conns,
             \/ TaskStep(c)
             \/ \E f \in Frames : ClientFrame(c, f)
             \/ Drain(c)
             \/ Disconnect(c)
      PROVE  Quiet
  BY <1>6, ConnFrame DEF Created
<1>7. ASSUME Restart
      PROVE  Quiet
  BY <1>7 DEF IInv, TypeOK, Created, Restart
<1>8. ASSUME UNCHANGED vars
      PROVE  Quiet
  BY <1>8 DEF vars, requestVars, Created
<1>9. CASE \E h \in Requests : Send(h)
  BY <1>2, <1>9 DEF MB!Next
<1>10. CASE ~ \E h \in Requests : Send(h)
  <2>1. MB!Next \/ Quiet
    BY <1>3, <1>4, <1>5, <1>6, <1>7, <1>8, <1>10, StepCases
  <2>. QED
    BY <1>1, <1>10, <2>1
<1>. QED
  BY <1>9, <1>10

(* send_message, ws_handler and a restart together keep what Mailbox        *)
(* promises the sender and the receiver.                                    *)
THEOREM MailboxImplemented == Spec => ImplementsMailbox
<1>1. Init => MB!Init
  BY MailboxInit
<1>2. IInv /\ [Next]_vars => [MB!Next]_(MB!vars)
  BY MailboxStep
<1>. QED
  BY <1>1, <1>2, Invariance, PTL DEF Spec, ImplementsMailbox, MB!Spec

=============================================================================
