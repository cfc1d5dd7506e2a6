---------------------------- MODULE MCChatRelay ----------------------------
(* Instances of the chat relay for TLC. *)
EXTENDS ChatQueries, TLC

\* Connections and requests are interchangeable; accounts too, but an unknown
\* uuid is not an account.
Symmetry == Permutations(Conns) \cup Permutations(Requests) \cup Permutations(Accounts)

=============================================================================
