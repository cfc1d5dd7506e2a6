----------------------------- MODULE ChatRelay -----------------------------
(***************************************************************************)
(* Message sending and live delivery of the chat server:                   *)
(*   src/src/handlers/message.rs     send_message                          *)
(*   src/src/handlers/ws_handler.rs  ws_handler and the task it spawns     *)
(*                                                                         *)
(* A request h is one run of send_message; it is cut at every point where  *)
(* other workers can run (.await, the RwLock).  A connection c is one      *)
(* WebSocket: the task that reads its frames, the Session whose clones     *)
(* write into its bounded channel, and the socket itself.  A user's        *)
(* uuid is all that is left of the User that the auth middleware puts into *)
(* the request: senders and connecting users are rows of the users table.  *)
(***************************************************************************)
EXTENDS Naturals, Sequences

CONSTANTS
    Ids,          \* uuids that requests carry
    Accounts,     \* the uuids that are rows of the users table
    Conns,        \* WebSocket connections, each used once
    Requests,     \* runs of send_message, each used once
    OutboxCap,    \* capacity of the channel behind a Session
    MaxIncoming,  \* bound: frames a client has sent and the task not yet read
    NoConn,       \* no entry in the WsSessions map
    NoUser        \* no user yet

ASSUME RelayAssumption ==
    /\ Accounts \subseteq Ids
    /\ OutboxCap \in Nat \ {0}
    /\ MaxIncoming \in Nat
    /\ NoConn \notin Conns
    /\ NoUser \notin Ids

VARIABLES
    messages,  \* requests whose row is in the messages table
    stage,     \* stage[h]: where the handler of h is
    from, to,  \* sender_id and receiver_id of h
    stamp,     \* created_at of h
    clock,     \* the server's clock, one tick per created_at
    target,    \* target[h]: the connection whose Session h cloned
    sessions,  \* the WsSessions map
    owner,     \* owner[c]: user_id the connection was opened for
    task,      \* task[c]: where the connection's task is
    link,      \* link[c]: the socket
    closed,    \* closed[c]: Session.closed, shared by all its clones
    incoming,  \* incoming[c]: control frames the task has not read yet
    backlog,   \* backlog[c]: frames in the channel, not yet on the socket
    pushed,    \* pushed[c]: messages put into the channel, in order
    newest,    \* history: newest[u] is the connection u opened last
    snapshot,  \* history: snapshot[c] are the messages a fetch of the
               \* owner's conversations made when c opened must contain
    before     \* history: before[h] are the requests answered 201 when h came

requestVars == <<stage, from, to, stamp, clock, target>>
connVars    == <<owner, task, link, closed, incoming, backlog, pushed>>
historyVars == <<newest, snapshot, before>>
vars == <<messages, requestVars, sessions, connVars, historyVars>>

InFlight    == {"check", "insert", "lookup", "precheck", "sending"}
Stages      == InFlight \cup {"idle", "created", "failed"}
Running     == {"loop", "closing", "exit"}
TaskStates  == Running \cup {"idle", "done", "panicked", "killed"}
Frames      == {"ping", "close", "eof"}

Created     == {h \in Requests : stage[h] = "created"}
Pushed(c)   == {pushed[c][i] : i \in 1..Len(pushed[c])}
HasRoom(c)  == backlog[c] < OutboxCap

Init ==
    /\ messages = {}
    /\ stage = [h \in Requests |-> "idle"]
    /\ from = [h \in Requests |-> NoUser]
    /\ to = [h \in Requests |-> NoUser]
    /\ stamp = [h \in Requests |-> 0]
    /\ clock = 1
    /\ target = [h \in Requests |-> NoConn]
    /\ sessions = [u \in Ids |-> NoConn]
    /\ owner = [c \in Conns |-> NoUser]
    /\ task = [c \in Conns |-> "idle"]
    /\ link = [c \in Conns |-> "none"]
    /\ closed = [c \in Conns |-> FALSE]
    /\ incoming = [c \in Conns |-> <<>>]
    /\ backlog = [c \in Conns |-> 0]
    /\ pushed = [c \in Conns |-> <<>>]
    /\ newest = [u \in Ids |-> NoConn]
    /\ snapshot = [c \in Conns |-> {}]
    /\ before = [h \in Requests |-> {}]

-----------------------------------------------------------------------------
(* Faulty variants: what these operations would be with a plausible bug.   *)
(* No action uses them; each breaks one of the properties at the end.      *)

\* Looks the sender up instead of the receiver.
Lookup_BySender(h) ==
    /\ stage[h] = "lookup"
    /\ target' = [target EXCEPT ![h] = sessions[from[h]]]
    /\ stage' = [stage EXCEPT ![h] =
                    IF sessions[from[h]] = NoConn THEN "created" ELSE "precheck"]
    /\ UNCHANGED <<messages, from, to, stamp, clock, sessions, connVars, historyVars>>

\* Answers 201 first and leaves the push to a task of its own.
Send_Detached(h) ==
    /\ \/ /\ stage[h] = "sending"
          /\ stage' = [stage EXCEPT ![h] = "created"]
          /\ UNCHANGED <<backlog, pushed>>
       \/ /\ stage[h] = "created" /\ target[h] # NoConn /\ h \notin Pushed(target[h])
          /\ link[target[h]] = "up" /\ HasRoom(target[h])
          /\ backlog' = [backlog EXCEPT ![target[h]] = @ + 1]
          /\ pushed' = [pushed EXCEPT ![target[h]] = Append(@, h)]
          /\ UNCHANGED stage
    /\ UNCHANGED <<messages, from, to, stamp, clock, target, sessions,
                   owner, task, link, closed, incoming, historyVars>>

\* try_send: gives the live copy up when the channel is full.
SendFails_TrySend(h) ==
    /\ stage[h] = "sending"
    /\ link[target[h]] = "down" \/ ~HasRoom(target[h])
    /\ stage' = [stage EXCEPT ![h] = "created"]
    /\ UNCHANGED <<messages, from, to, stamp, clock, target, sessions, connVars, historyVars>>

\* Wakes up for a closed Session only, not for a broken socket.
SendFails_ClosedOnly(h) ==
    /\ stage[h] = "sending"
    /\ closed[target[h]] /\ link[target[h]] = "down"
    /\ stage' = [stage EXCEPT ![h] = "created"]
    /\ UNCHANGED <<messages, from, to, stamp, clock, target, sessions, connVars, historyVars>>

\* An unbounded channel.
TaskPing_Unbounded(c) ==
    /\ task[c] = "loop"
    /\ incoming[c] # <<>> /\ Head(incoming[c]) = "ping"
    /\ link[c] = "up"
    /\ backlog' = [backlog EXCEPT ![c] = @ + 1]
    /\ incoming' = [incoming EXCEPT ![c] = Tail(@)]
    /\ UNCHANGED <<messages, requestVars, sessions, owner, task, link, closed, pushed, historyVars>>

\* Only a client that ends its stream properly is noticed.
TaskStreamEnd_EofOnly(c) ==
    /\ task[c] = "loop"
    /\ incoming[c] # <<>> /\ Head(incoming[c]) = "eof"
    /\ task' = [task EXCEPT ![c] = "exit"]
    /\ incoming' = [incoming EXCEPT ![c] = <<>>]
    /\ UNCHANGED <<messages, requestVars, sessions, owner, link, closed, backlog, pushed,
                   historyVars>>

\* The entry stays in the map.
TaskRemove_Forgotten(c) ==
    /\ task[c] = "exit"
    /\ task' = [task EXCEPT ![c] = "done"]
    /\ UNCHANGED <<messages, requestVars, sessions, owner, link, closed, incoming, backlog,
                   pushed, historyVars>>

-----------------------------------------------------------------------------
(* send_message *)

\* The request arrives; an empty payload or a message to oneself is refused.
Submit(h, s, r, hasBody) ==
    /\ stage[h] = "idle"
    /\ \/ /\ hasBody /\ s # r
          /\ stage' = [stage EXCEPT ![h] = "check"]
          /\ from' = [from EXCEPT ![h] = s]
          /\ to' = [to EXCEPT ![h] = r]
          /\ before' = [before EXCEPT ![h] = Created]
       \/ /\ ~hasBody \/ s = r
          /\ stage' = [stage EXCEPT ![h] = "failed"]
          /\ UNCHANGED <<from, to, before>>
    /\ UNCHANGED <<messages, stamp, clock, target, sessions, connVars, newest, snapshot>>

\* SELECT EXISTS; on success created_at is taken before the INSERT is awaited.
CheckReceiver(h) ==
    /\ stage[h] = "check"
    /\ \/ /\ to[h] \in Accounts
          /\ stage' = [stage EXCEPT ![h] = "insert"]
          /\ stamp' = [stamp EXCEPT ![h] = clock]
          /\ clock' = clock + 1
       \/ /\ to[h] \notin Accounts
          /\ stage' = [stage EXCEPT ![h] = "failed"]
          /\ UNCHANGED <<stamp, clock>>
    /\ UNCHANGED <<messages, from, to, target, sessions, connVars, historyVars>>

Insert(h) ==
    /\ stage[h] = "insert"
    /\ messages' = messages \cup {h}
    /\ stage' = [stage EXCEPT ![h] = "lookup"]
    /\ UNCHANGED <<from, to, stamp, clock, target, sessions, connVars, historyVars>>

\* A query fails (the ? after its await), or the request's future is dropped
\* there.  An INSERT whose answer is lost may have been applied.
QueryFails(h) ==
    /\ stage[h] \in {"check", "insert"}
    /\ stage' = [stage EXCEPT ![h] = "failed"]
    /\ \/ UNCHANGED messages
       \/ stage[h] = "insert" /\ messages' = messages \cup {h}
    /\ UNCHANGED <<from, to, stamp, clock, target, sessions, connVars, historyVars>>

\* Under the read lock: clone the receiver's Session, if there is one.
Lookup(h) ==
    /\ stage[h] = "lookup"
    /\ target' = [target EXCEPT ![h] = sessions[to[h]]]
    /\ stage' = [stage EXCEPT ![h] =
                    IF sessions[to[h]] = NoConn THEN "created" ELSE "precheck"]
    /\ UNCHANGED <<messages, from, to, stamp, clock, sessions, connVars, historyVars>>

\* Session::text looks at the shared closed flag, then waits for the channel.
\* A failed push is only logged: the answer is 201 all the same.
PreCheck(h) ==
    /\ stage[h] = "precheck"
    /\ stage' = [stage EXCEPT ![h] = IF closed[target[h]] THEN "created" ELSE "sending"]
    /\ UNCHANGED <<messages, from, to, stamp, clock, target, sessions, connVars, historyVars>>

Send(h) ==
    /\ stage[h] = "sending"
    /\ link[target[h]] = "up"
    /\ HasRoom(target[h])
    /\ backlog' = [backlog EXCEPT ![target[h]] = @ + 1]
    /\ pushed' = [pushed EXCEPT ![target[h]] = Append(@, h)]
    /\ stage' = [stage EXCEPT ![h] = "created"]
    /\ UNCHANGED <<messages, from, to, stamp, clock, target, sessions,
                   owner, task, link, closed, incoming, historyVars>>

SendFails(h) ==
    /\ stage[h] = "sending"
    /\ link[target[h]] = "down"
    /\ stage' = [stage EXCEPT ![h] = "created"]
    /\ UNCHANGED <<messages, from, to, stamp, clock, target, sessions, connVars, historyVars>>

\* The sender's HTTP connection breaks and the handler's future is dropped
\* while it waits for the channel.
Dropped(h) ==
    /\ stage[h] = "sending"
    /\ stage' = [stage EXCEPT ![h] = "failed"]
    /\ UNCHANGED <<messages, from, to, stamp, clock, target, sessions, connVars, historyVars>>

-----------------------------------------------------------------------------
(* ws_handler and the task it spawns *)

\* Handshake, then the map entry under the write lock, then the task.
Connect(c, u) ==
    /\ task[c] = "idle"
    /\ owner' = [owner EXCEPT ![c] = u]
    /\ task' = [task EXCEPT ![c] = "loop"]
    /\ link' = [link EXCEPT ![c] = "up"]
    /\ sessions' = [sessions EXCEPT ![u] = c]
    /\ newest' = [newest EXCEPT ![u] = c]
    /\ snapshot' = [snapshot EXCEPT ![c] = {h \in messages : to[h] = u}]
    /\ UNCHANGED <<messages, requestVars, closed, incoming, backlog, pushed, before>>

\* Ping: session.pong(..).await.unwrap(), which waits for room in the channel
\* and panics when the receiving half is gone.
TaskPing(c) ==
    /\ task[c] = "loop"
    /\ incoming[c] # <<>> /\ Head(incoming[c]) = "ping"
    /\ \/ /\ link[c] = "up"
          /\ HasRoom(c)
          /\ backlog' = [backlog EXCEPT ![c] = @ + 1]
          /\ incoming' = [incoming EXCEPT ![c] = Tail(@)]
          /\ UNCHANGED task
       \/ /\ link[c] = "down"
          /\ task' = [task EXCEPT ![c] = "panicked"]
          /\ incoming' = [incoming EXCEPT ![c] = <<>>]
          /\ UNCHANGED backlog
    /\ UNCHANGED <<messages, requestVars, sessions, owner, link, closed, pushed, historyVars>>

\* Close: Session::close sets the flag, then waits to send the Close frame.
TaskClose(c) ==
    /\ task[c] = "loop"
    /\ incoming[c] # <<>> /\ Head(incoming[c]) = "close"
    /\ incoming' = [incoming EXCEPT ![c] = <<>>]
    /\ closed' = [closed EXCEPT ![c] = TRUE]
    /\ task' = [task EXCEPT ![c] = "closing"]
    /\ UNCHANGED <<messages, requestVars, sessions, owner, link, backlog, pushed, historyVars>>

\* The result of close is ignored (.ok()).
TaskCloseSent(c) ==
    /\ task[c] = "closing"
    /\ \/ link[c] = "up" /\ HasRoom(c) /\ backlog' = [backlog EXCEPT ![c] = @ + 1]
       \/ link[c] = "down" /\ UNCHANGED backlog
    /\ task' = [task EXCEPT ![c] = "exit"]
    /\ UNCHANGED <<messages, requestVars, sessions, owner, link, closed, incoming, pushed, historyVars>>

\* stream.next() yields None: the client ended the stream, or the socket is
\* gone and what had been read from it is consumed.
TaskStreamEnd(c) ==
    /\ task[c] = "loop"
    /\ \/ incoming[c] # <<>> /\ Head(incoming[c]) = "eof"
       \/ incoming[c] = <<>> /\ link[c] = "down"
    /\ task' = [task EXCEPT ![c] = "exit"]
    /\ incoming' = [incoming EXCEPT ![c] = <<>>]
    /\ UNCHANGED <<messages, requestVars, sessions, owner, link, closed, backlog, pushed,
                   historyVars>>

\* After the loop, under the write lock: map.remove(&user_id).
TaskRemove(c) ==
    /\ task[c] = "exit"
    /\ sessions' = [sessions EXCEPT ![owner[c]] = NoConn]
    /\ task' = [task EXCEPT ![c] = "done"]
    /\ UNCHANGED <<messages, requestVars, owner, link, closed, incoming, backlog,
                   pushed, historyVars>>

-----------------------------------------------------------------------------
(* The clients' side of a connection, and the process *)

ClientFrame(c, f) ==
    /\ link[c] = "up"
    /\ Len(incoming[c]) < MaxIncoming
    /\ \A i \in 1..Len(incoming[c]) : incoming[c][i] = "ping"
    /\ task[c] = "loop"
    /\ incoming' = [incoming EXCEPT ![c] = Append(@, f)]
    /\ UNCHANGED <<messages, requestVars, sessions, owner, task, link, closed, backlog,
                   pushed, historyVars>>

\* A frame of the channel is written to the socket.
Drain(c) ==
    /\ link[c] = "up"
    /\ backlog[c] > 0
    /\ backlog' = [backlog EXCEPT ![c] = @ - 1]
    /\ UNCHANGED <<messages, requestVars, sessions, owner, task, link, closed, incoming,
                   pushed, historyVars>>

\* The socket breaks: the channel's receiving half is dropped, with what is in
\* it.  Frames that were received may or may not have reached the task's stream.
Disconnect(c) ==
    /\ link[c] = "up"
    /\ link' = [link EXCEPT ![c] = "down"]
    /\ \/ UNCHANGED incoming
       \/ incoming' = [incoming EXCEPT ![c] = <<>>]
    /\ backlog' = [backlog EXCEPT ![c] = 0]
    /\ UNCHANGED <<messages, requestVars, sessions, owner, task, closed, pushed, historyVars>>

\* The process dies and comes back: run_server starts with an empty map, the
\* tables survive.
Restart ==
    /\ sessions' = [u \in Ids |-> NoConn]
    /\ stage' = [h \in Requests |-> IF stage[h] \in InFlight THEN "failed" ELSE stage[h]]
    /\ task' = [c \in Conns |-> IF task[c] \in Running THEN "killed" ELSE task[c]]
    /\ link' = [c \in Conns |-> IF link[c] = "none" THEN "none" ELSE "down"]
    /\ incoming' = [c \in Conns |-> <<>>]
    /\ backlog' = [c \in Conns |-> 0]
    /\ UNCHANGED <<messages, from, to, stamp, clock, target, owner, closed, pushed, historyVars>>

-----------------------------------------------------------------------------

HandlerStep(h) ==
    \/ CheckReceiver(h) \/ Insert(h) \/ QueryFails(h) \/ Lookup(h)
    \/ PreCheck(h) \/ Send(h) \/ SendFails(h) \/ Dropped(h)

TaskStep(c) ==
    \/ TaskPing(c) \/ TaskClose(c) \/ TaskCloseSent(c)
    \/ TaskStreamEnd(c) \/ TaskRemove(c)

Next ==
    \/ \E h \in Requests, s \in Accounts, r \in Ids, hasBody \in BOOLEAN :
          Submit(h, s, r, hasBody)
    \/ \E h \in Requests : HandlerStep(h)
    \/ \E c \in Conns, u \in Accounts : Connect(c, u)
    \/ \E c \in Conns : TaskStep(c)
    \/ \E c \in Conns, f \in Frames : ClientFrame(c, f)
    \/ \E c \in Conns : Drain(c) \/ Disconnect(c)
    \/ Restart

Spec == Init /\ [][Next]_vars

(***************************************************************************)
(* Queries are answered or fail, runnable tasks run, and the channel hands *)
(* its free slots out first come, first served (SF).  No fairness for the  *)
(* clients: they need not read, ping, close or connect.                    *)
(***************************************************************************)
Fairness ==
    /\ \A h \in Requests :
        /\ WF_vars(CheckReceiver(h) \/ Insert(h) \/ QueryFails(h))
        /\ WF_vars(Lookup(h))
        /\ WF_vars(PreCheck(h))
        /\ SF_vars(Send(h))
        /\ WF_vars(SendFails(h))
    /\ \A c \in Conns :
        /\ SF_vars(TaskPing(c))
        /\ SF_vars(TaskCloseSent(c))
        /\ WF_vars(TaskClose(c))
        /\ WF_vars(TaskStreamEnd(c))
        /\ WF_vars(TaskRemove(c))

FairSpec == Spec /\ Fairness

-----------------------------------------------------------------------------
(* Properties *)

TypeOK ==
    /\ messages \subseteq Requests
    /\ stage \in [Requests -> Stages]
    /\ from \in [Requests -> Accounts \cup {NoUser}]
    /\ to \in [Requests -> Ids \cup {NoUser}]
    /\ stamp \in [Requests -> Nat]
    /\ clock \in Nat
    /\ target \in [Requests -> Conns \cup {NoConn}]
    /\ sessions \in [Ids -> Conns \cup {NoConn}]
    /\ owner \in [Conns -> Accounts \cup {NoUser}]
    /\ task \in [Conns -> TaskStates]
    /\ link \in [Conns -> {"none", "up", "down"}]
    /\ closed \in [Conns -> BOOLEAN]
    /\ incoming \in [Conns -> Seq(Frames)]
    /\ backlog \in [Conns -> 0..OutboxCap]
    /\ pushed \in [Conns -> Seq(Requests)]
    /\ newest \in [Ids -> Conns \cup {NoConn}]
    /\ snapshot \in [Conns -> SUBSET Requests]
    /\ before \in [Requests -> SUBSET Requests]

(* The WsSessions map never names an older connection when the user has     *)
(* opened a newer one, nor another user's, nor one whose task has run its   *)
(* map.remove: insert and remove are keyed by the user alone, and any of    *)
(* the user's tasks may run them at any time.                               *)
RegistrySound ==
    \A u \in Ids, c \in Conns :
        sessions[u] = c =>
            /\ owner[c] = u
            /\ newest[u] = c
            /\ task[c] \in Running \cup {"panicked"}

(* A client that connects first and fetches its conversations second loses  *)
(* nothing while it stays in the map: a message answered 201 is in what the *)
(* fetch had to return or was pushed to that connection, unless the         *)
(* connection is closing or broken.  This rests on send_message inserting   *)
(* the row before it looks the receiver up.                                 *)
NoGap ==
    \A h \in Created, c \in Conns :
        sessions[to[h]] = c =>
            \/ h \in snapshot[c]
            \/ h \in Pushed(c)
            \/ closed[c]
            \/ link[c] = "down"

(* One socket never carries a message behind one that was sent only after   *)
(* the first had been answered 201: send_message answers after its push.    *)
StreamOrder ==
    \A c \in Conns : \A i, j \in 1..Len(pushed[c]) :
        i < j => pushed[c][j] \notin before[pushed[c][i]]

Addressee == [h \in Requests |-> IF h \in messages THEN to[h] ELSE NoUser]

Heard == [u \in Ids |->
            {h \in Requests : \E c \in Conns : owner[c] = u /\ h \in Pushed(c)}]

MB == INSTANCE Mailbox WITH
        stored <- messages, addressee <- Addressee, acked <- Created, heard <- Heard

(* Whatever handlers, tasks, sockets and restarts do, senders and receivers *)
(* see a Mailbox: 201 only for a stored row, live copies of stored rows     *)
(* only, to the addressee only, once, and rows stay.                        *)
ImplementsMailbox == MB!Spec

(* A send_message that has begun is answered or fails, unless from some     *)
(* point on the receiver keeps its socket up and never reads from it: the   *)
(* push waits for room in the channel inside the sender's request.          *)
Stuck(h) ==
    /\ stage[h] = "sending"
    /\ link[target[h]] = "up"
    /\ ~HasRoom(target[h])

SettlesOrStuck ==
    \A h \in Requests :
        [](stage[h] \in InFlight => <>(stage[h] \notin InFlight \/ []Stuck(h)))

(* When a socket breaks, its entry leaves the map, unless the task panicked *)
(* on a Ping it could not answer.                                           *)
BrokenIsUnregistered ==
    \A c \in Conns :
        (link[c] = "down") ~>
            (task[c] = "panicked" \/ \A u \in Ids : sessions[u] # c)

(* ws_handler's comment: "Remove the user from the active sessions when     *)
(* they disconnect".  Every broken socket's entry goes.                     *)
DisconnectUnregisters ==
    \A c \in Conns : (link[c] = "down") ~> (\A u \in Ids : sessions[u] # c)

(* ... and a user with a connection that is up and served is in the map.    *)
ConnectedIsRegistered ==
    \A c \in Conns :
        task[c] = "loop" /\ link[c] = "up" => sessions[owner[c]] # NoConn

=============================================================================
