------------------------------- MODULE SignIn -------------------------------
(***************************************************************************)
(* What signing in with Google promises, whatever pages are reloaded,      *)
(* requests lost or callbacks run side by side: a sign-in that a person    *)
(* started and agreed to opens at most one session; a Google account is    *)
(* bound to one user, who has signed up, once and for all; and a session   *)
(* is one of the user that the agreeing Google account is bound to.        *)
(* OAuthFlow implements this.                                              *)
(***************************************************************************)
CONSTANTS Flows, Subs, Emails, None

VARIABLES
    agreed,    \* <<f, s>>: in flow f somebody agreed as Google account s
    users,     \* who has signed up
    bound,     \* bound[s]: the user Google account s stands for
    sessions   \* <<f, e>>: flow f opened a session of e

vars == <<agreed, users, bound, sessions>>

Init ==
    /\ agreed = {}
    /\ users \subseteq Emails
    /\ bound = [s \in Subs |-> None]
    /\ sessions = {}

SignUp(e) == users' = users \cup {e} /\ UNCHANGED <<agreed, bound, sessions>>

Agree(f, s) == agreed' = agreed \cup {<<f, s>>} /\ UNCHANGED <<users, bound, sessions>>

Bind(s, e) ==
    /\ \E f \in Flows : <<f, s>> \in agreed
    /\ bound[s] = None
    /\ e \in users
    /\ bound' = [bound EXCEPT ![s] = e]
    /\ UNCHANGED <<agreed, users, sessions>>

Open(f, s) ==
    /\ <<f, s>> \in agreed
    /\ bound[s] # None
    /\ \A e \in Emails : <<f, e>> \notin sessions
    /\ sessions' = sessions \cup {<<f, bound[s]>>}
    /\ UNCHANGED <<agreed, users, bound>>

Next ==
    \/ \E e \in Emails : SignUp(e)
    \/ \E f \in Flows, s \in Subs : Agree(f, s) \/ Open(f, s)
    \/ \E s \in Subs, e \in Emails : Bind(s, e)

Spec == Init /\ [][Next]_vars

=============================================================================
