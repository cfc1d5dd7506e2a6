---------------------------- MODULE ChatQueries ----------------------------
(***************************************************************************)
(* The GET handlers of src/src/handlers/message.rs as functions of the     *)
(* tables that ChatRelay's handlers write.                                 *)
(***************************************************************************)
EXTENDS ChatRelay, FiniteSets, SequencesExt

\* ORDER BY created_at ASC
Older(g, h) == stamp[g] < stamp[h]
InOrder(S)  == CHOOSE s \in SetToSeqs(S) : IsSorted(s, Older)

\* Faulty variants, as in ChatRelay: half of the conversation; always the receiver.
get_messages_OneWay(me, other) == InOrder({h \in messages : from[h] = me /\ to[h] = other})

Partner_Receiver(h, me) == to[h]

Conversation(me, other) ==
    {h \in messages : <<from[h], to[h]>> \in {<<me, other>>, <<other, me>>}}

get_messages_by_user_id(me, other) == InOrder(Conversation(me, other))

\* The other party of a message, seen from one of the two.
Partner(h, me) == IF from[h] = me THEN to[h] ELSE from[h]

get_chat_partners(me) ==
    {Partner(h, me) : h \in {g \in messages : me \in {from[g], to[g]}}} \cap Accounts

get_all_contacts(me) == Accounts \ {me}

-----------------------------------------------------------------------------

(* Both parties of a conversation read the same history; it holds every     *)
(* message that was answered 201, and lists no message behind one that was  *)
(* sent only after the first had been answered.                             *)
HistoryFaithful ==
    \A u, v \in Accounts : u # v =>
        LET H == get_messages_by_user_id(u, v)
        IN  /\ H = get_messages_by_user_id(v, u)
            /\ {h \in Created : {from[h], to[h]} = {u, v}} \subseteq ToSet(H)
            /\ \A i, j \in 1..Len(H) : i < j => H[j] \notin before[H[i]]

(* The three lists a client shows agree: somebody is a chat partner exactly *)
(* when there is a history with them, both see each other, and partners are *)
(* contacts.                                                                *)
ListsAgree ==
    \A u, v \in Accounts :
        /\ v \in get_chat_partners(u) <=> u \in get_chat_partners(v)
        /\ v \in get_chat_partners(u) <=> get_messages_by_user_id(u, v) # <<>>
        /\ get_chat_partners(u) \subseteq get_all_contacts(u)

=============================================================================
