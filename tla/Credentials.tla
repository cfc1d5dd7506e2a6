----------------------------- MODULE Credentials -----------------------------
(***************************************************************************)
(* What sign-up, activation, reset and logout promise a user, however      *)
(* handlers overlap, wait for each other, fail or lose their answers.      *)
(*                                                                         *)
(* A credential is issued once, for one user and one scope, and is lost    *)
(* for good when it is revoked.  Whoever holds one may present it as long  *)
(* as it is valid; what was presented has its effect later, once and all   *)
(* at once, or never, and nothing else has such an effect.  An account     *)
(* comes with a credential to activate it; activation leaves none; a reset *)
(* revokes what was presented for it.  Accounts implements this.           *)
(***************************************************************************)
CONSTANTS Users, Secrets, NoSecret, Ids

VARIABLES
    account,    \* account[u]: "none", "inactive" or "active"
    secret,     \* secret[u]: what u logs in with
    valid,      \* credentials that may be presented
    held,       \* those whose plaintext left the server
    fresh,      \* ids that no credential and no use has had
    open        \* what was presented and has had no effect yet

vars == <<account, secret, valid, held, fresh, open>>

Scopes == {"activation", "password-reset", "authentication"}

Credential(i, u, scope) == [id |-> i, user |-> u, scope |-> scope]
Use(i, c, purpose)      == [by |-> i, cred |-> c, purpose |-> purpose]

\* Any credential activates; the other purposes ask for their scope.
Serves(c, purpose) ==
    \/ purpose = "activate"
    \/ purpose = "reset" /\ c.scope = "password-reset"
    \/ purpose \in {"setpw", "logout"} /\ c.scope = "authentication"

Of(u, scope) == {c \in valid : c.user = u /\ c.scope = scope}

Revoke(C) == valid' = valid \ C /\ held' = held \ C

Init ==
    /\ account \in [Users -> {"none", "active"}]
    /\ secret \in [Users -> Secrets \cup {NoSecret}]
    /\ \A u \in Users : account[u] = "none" <=> secret[u] = NoSecret
    /\ valid = {} /\ held = {} /\ open = {}
    /\ fresh = Ids

SignUp(u, s, i) ==
    /\ account[u] = "none"
    /\ i \in fresh
    /\ account' = [account EXCEPT ![u] = "inactive"]
    /\ secret' = [secret EXCEPT ![u] = s]
    /\ valid' = valid \cup {Credential(i, u, "activation")}
    /\ fresh' = fresh \ {i}
    /\ UNCHANGED <<held, open>>

\* A session is for whoever has a row, a reset for who is active.  A session
\* may be handed out with the answer, a reset goes by mail.
Issue(c) ==
    /\ c.id \in fresh
    /\ \/ c.scope = "authentication" /\ account[c.user] # "none"
       \/ c.scope = "password-reset" /\ account[c.user] = "active"
    /\ valid' = valid \cup {c}
    /\ \/ held' = held
       \/ c.scope = "authentication" /\ held' = held \cup {c}
    /\ fresh' = fresh \ {c.id}
    /\ UNCHANGED <<account, secret, open>>

Mailed(c) ==
    /\ c \in valid \ held /\ c.scope # "authentication"
    /\ held' = held \cup {c}
    /\ UNCHANGED <<account, secret, valid, fresh, open>>

Present(i, c, purpose) ==
    /\ i \in fresh
    /\ c \in held /\ Serves(c, purpose)
    /\ fresh' = fresh \ {i}
    /\ open' = open \cup {Use(i, c, purpose)}
    /\ UNCHANGED <<account, secret, valid, held>>

\* The effects of a use.
Activate(u) ==
    /\ u.purpose = "activate"
    /\ account' = [account EXCEPT ![u.cred.user] = "active"]
    /\ Revoke(Of(u.cred.user, "activation"))
    /\ UNCHANGED secret

\* Of the user's other reset credentials, some may outlive it.
Reset(u) ==
    /\ u.purpose = "reset"
    /\ \E s \in Secrets : secret' = [secret EXCEPT ![u.cred.user] = s]
    /\ \E C \in SUBSET Of(u.cred.user, "password-reset") :
          u.cred \notin valid \ C /\ Revoke(C)
    /\ UNCHANGED account

SetPassword(u) ==
    /\ u.purpose = "setpw"
    /\ \E s \in Secrets : secret' = [secret EXCEPT ![u.cred.user] = s]
    /\ UNCHANGED <<account, valid, held>>

Logout(u) ==
    /\ u.purpose = "logout"
    /\ Revoke({u.cred})
    /\ UNCHANGED <<account, secret>>

Perform(u) ==
    /\ account[u.cred.user] # "none"
    /\ Activate(u) \/ Reset(u) \/ SetPassword(u) \/ Logout(u)
    /\ open' = open \ {u}
    /\ UNCHANGED fresh

Abandon(u) == open' = open \ {u} /\ UNCHANGED <<account, secret, valid, held, fresh>>

Discard(i) == fresh' = fresh \ {i} /\ UNCHANGED <<account, secret, valid, held, open>>

Next ==
    \/ \E u \in Users, s \in Secrets, i \in fresh : SignUp(u, s, i)
    \/ \E i \in fresh, u \in Users, scope \in Scopes : Issue(Credential(i, u, scope))
    \/ \E c \in valid : Mailed(c)
    \/ \E i \in fresh, c \in held, purpose \in {"activate", "reset", "setpw", "logout"} :
          Present(i, c, purpose)
    \/ \E u \in open : Perform(u) \/ Abandon(u)
    \/ \E i \in fresh : Discard(i)

Spec == Init /\ [][Next]_vars

=============================================================================
