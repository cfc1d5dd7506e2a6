------------------------------ MODULE Mailbox ------------------------------
(***************************************************************************)
(* What the chat server promises a sender and a receiver, whatever happens *)
(* to sockets, handlers and the process: a message is stored once, for one *)
(* addressee; the sender is told "created" only for a stored message; the  *)
(* live copy, if there is one, goes to the addressee, once, and only of a  *)
(* stored message.  Nothing here is volatile.  ChatRelay implements this.  *)
(***************************************************************************)
CONSTANTS Ids, Requests, NoUser

VARIABLES
    stored,     \* requests whose message is in the table
    addressee,  \* receiver of each stored message
    acked,      \* requests answered 201
    heard       \* heard[u]: messages written to a live socket of u

vars == <<stored, addressee, acked, heard>>

Init ==
    /\ stored = {}
    /\ addressee = [h \in Requests |-> NoUser]
    /\ acked = {}
    /\ heard = [u \in Ids |-> {}]

Store(h, u) ==
    /\ h \notin stored
    /\ stored' = stored \cup {h}
    /\ addressee' = [addressee EXCEPT ![h] = u]
    /\ UNCHANGED <<acked, heard>>

\* The receiver is offline, or its socket did not take the live copy.
Reply(h) ==
    /\ h \in stored \ acked
    /\ acked' = acked \cup {h}
    /\ UNCHANGED <<stored, addressee, heard>>

NotifyAndReply(h) ==
    /\ h \in stored \ acked
    /\ h \notin heard[addressee[h]]
    /\ acked' = acked \cup {h}
    /\ heard' = [heard EXCEPT ![addressee[h]] = @ \cup {h}]
    /\ UNCHANGED <<stored, addressee>>

Next ==
    \E h \in Requests :
        \/ \E u \in Ids : Store(h, u)
        \/ Reply(h)
        \/ NotifyAndReply(h)

Spec == Init /\ [][Next]_vars

=============================================================================
