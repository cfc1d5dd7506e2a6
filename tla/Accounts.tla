------------------------------ MODULE Accounts ------------------------------
(***************************************************************************)
(* The users and tokens tables and the handlers that write them:           *)
(*   src/src/routes/signup.rs    signup, activate_user_handler             *)
(*   src/src/routes/login.rs     login                                     *)
(*   src/src/routes/password.rs  reset_password, handle_password_reset,    *)
(*                               set_password_account                      *)
(*   src/src/routes/logout.rs    logout                                    *)
(*   src/src/oauth/oauth.rs      redirect_uri, from the user info on       *)
(*                                                                         *)
(* An operation o is one run of a handler, cut where it awaits the         *)
(* database or a blocking thread.  PostgreSQL runs READ COMMITTED: a       *)
(* statement sees what is committed when it starts, a row that an open     *)
(* transaction wrote is locked, and a transaction's writes appear at its   *)
(* commit.  E-mail addresses (CITEXT UNIQUE) stand for the users, which    *)
(* are never deleted; a token stands for its 25 random characters and is   *)
(* named by the operation that drew it.                                    *)
(***************************************************************************)
EXTENDS Naturals

CONSTANTS
    Emails, Passwords,
    Ops,            \* runs of handlers, each used once
    Kinds,          \* the handlers that are called
    ActivationTTL,  \* 24 hours
    ResetTTL,       \* 30 minutes
    SessionTTL,     \* 24 hours
    MaxTime,        \* bound: how far the clock goes
    NoOp, NoPassword,
    Garbage         \* a password_hash that no password verifies against

AllKinds == {"signup", "activate", "login", "request", "reset", "setpw", "logout", "google"}

ASSUME AccountsAssumption ==
    /\ Kinds \subseteq AllKinds
    /\ {ActivationTTL, ResetTTL, SessionTTL} \subseteq Nat \ {0}
    /\ MaxTime \in Nat
    /\ NoOp \notin Ops
    /\ NoPassword \notin Passwords /\ Garbage \notin Passwords /\ Garbage # NoPassword

VARIABLES
    call,     \* call[o]: the handler, its input and what was over when it was called
    stage,    \* stage[o]: where it is
    seen,     \* seen[o]: the hash a login has read
    expiry,   \* expiry[o]: the expiry of the token it has drawn
    drops,    \* drops[o]: the tokens its transaction deletes
    account,  \* account[e]: no row, or a row with is_activated false or true
    hash,     \* hash[e]: the password whose Argon2 hash the row holds
    tokens,   \* rows of the tokens table
    known,    \* tokens whose plaintext left the server
    lock,     \* lock[e]: the open transaction that wrote e's row
    now       \* the clock

locals == <<call, seen, expiry, drops>>
vars == <<stage, locals, account, hash, tokens, known, lock, now>>
tables == <<account, hash, tokens>>

Ended    == {"done", "refused", "error"}
InFlight == {"insert", "find", "read", "verify", "update", "commit", "store", "mail"}

NotCalled == [kind |-> "none", email |-> NoOp, pwd |-> NoPassword, tok |-> NoOp, after |-> {}]

Init ==
    /\ call = [o \in Ops |-> NotCalled]
    /\ stage = [o \in Ops |-> "idle"]
    /\ seen = [o \in Ops |-> NoPassword]
    /\ expiry = [o \in Ops |-> 0]
    /\ drops = [o \in Ops |-> {}]
    /\ account \in [Emails -> {"none", "active"}]
    /\ hash \in [Emails -> Passwords \cup {NoPassword}]
    /\ \A e \in Emails : account[e] = "none" <=> hash[e] = NoPassword
    /\ tokens = {}
    /\ known = {}
    /\ lock = [e \in Emails |-> NoOp]
    /\ now = 0

At(o, kind, st) == call[o].kind = kind /\ stage[o] = st

\* o goes on and keeps its locals.
Goto(o, st) == stage' = [stage EXCEPT ![o] = st] /\ UNCHANGED locals

-----------------------------------------------------------------------------
(* Tokens *)

Scope(t) ==
    CASE call[t].kind = "signup"              -> "activation"
      [] call[t].kind = "request"             -> "password-reset"
      [] call[t].kind \in {"login", "google"} -> "authentication"
      [] OTHER                              -> "none"

Lifetime(t) ==
    CASE Scope(t) = "activation"     -> ActivationTTL
      [] Scope(t) = "password-reset" -> ResetTTL
      [] OTHER                       -> SessionTTL

TokensOf(e, scope) == {t \in tokens : call[t].email = e /\ Scope(t) = scope}

\* get_user_from_token, what the middlewares are written to ask for
HasSession(t) == t \in tokens /\ Scope(t) = "authentication" /\ expiry[t] > now

-----------------------------------------------------------------------------
(* Faulty variants of operations below; nothing uses them. *)

\* No waiting and no UNIQUE index: the handler looks first and inserts later.
SignupInsert_NoIndex(o) ==
    LET e == call[o].email IN
    /\ At(o, "signup", "insert")
    /\ account[e] = "none"
    /\ lock' = [lock EXCEPT ![e] = o]
    /\ stage' = [stage EXCEPT ![o] = "commit"]
    /\ expiry' = [expiry EXCEPT ![o] = now + ActivationTTL]
    /\ UNCHANGED <<call, seen, drops, tables, known, now>>

\* Utc::now() - Duration::hours(24)
SignupInsert_Backdated(o) ==
    LET e == call[o].email IN
    /\ At(o, "signup", "insert")
    /\ lock[e] = NoOp /\ account[e] = "none"
    /\ lock' = [lock EXCEPT ![e] = o]
    /\ stage' = [stage EXCEPT ![o] = "commit"]
    /\ expiry' = [expiry EXCEPT ![o] = now - ActivationTTL]
    /\ UNCHANGED <<call, seen, drops, tables, known, now>>

\* DELETE FROM tokens WHERE hash = ..: the token that was presented only.
UpdateRow_OwnToken(o) ==
    /\ \E kind \in {"activate", "reset"} : At(o, kind, "update")
    /\ lock[call[o].email] = NoOp
    /\ lock' = [lock EXCEPT ![call[o].email] = o]
    /\ stage' = [stage EXCEPT ![o] = "commit"]
    /\ drops' = [drops EXCEPT ![o] = tokens \cap {call[o].tok}]
    /\ UNCHANGED <<call, seen, expiry, tables, known, now>>

\* DELETE FROM tokens WHERE user_id = ..: sessions and all.
UpdateRow_AllScopes(o) ==
    /\ \E kind \in {"activate", "reset"} : At(o, kind, "update")
    /\ lock[call[o].email] = NoOp
    /\ lock' = [lock EXCEPT ![call[o].email] = o]
    /\ stage' = [stage EXCEPT ![o] = "commit"]
    /\ drops' = [drops EXCEPT ![o] = {t \in tokens : call[t].email = call[o].email}]
    /\ UNCHANGED <<call, seen, expiry, tables, known, now>>

\* No AND scope = ...
ResetFind_AnyScope(o) ==
    /\ At(o, "reset", "find")
    /\ Goto(o, IF call[o].tok \in tokens THEN "update" ELSE "refused")
    /\ UNCHANGED <<tables, known, lock, now>>

\* Forgets to delete the token.
ResetCommit_KeepsToken(o) ==
    LET e == call[o].email IN
    /\ At(o, "reset", "commit")
    /\ hash' = [hash EXCEPT ![e] = call[o].pwd]
    /\ lock' = [lock EXCEPT ![e] = NoOp]
    /\ Goto(o, "done")
    /\ UNCHANGED <<account, tokens, known, now>>

\* Answers without tx.commit().
ResetCommit_NoCommit(o) ==
    /\ At(o, "reset", "commit")
    /\ lock' = [lock EXCEPT ![call[o].email] = NoOp]
    /\ Goto(o, "done")
    /\ UNCHANGED <<tables, known, now>>

\* Removes another scope than the session's.
LogoutDelete_WrongScope(o) ==
    /\ At(o, "logout", "update")
    /\ tokens' = tokens \ ({call[o].tok} \cap TokensOf(call[o].email, "activation"))
    /\ Goto(o, "done")
    /\ UNCHANGED <<account, hash, known, lock, now>>

\* delete_token runs on the pool: a rollback brings nothing back.
Fails_TokensGone(o) ==
    /\ stage[o] \in InFlight
    /\ Goto(o, "error")
    /\ tokens' = tokens \ drops[o]
    /\ lock' = [e \in Emails |-> IF lock[e] = o THEN NoOp ELSE lock[e]]
    /\ UNCHANGED <<account, hash, known, now>>

\* A transaction that fails is kept open.
Fails_KeepsLock(o) ==
    /\ stage[o] \in InFlight
    /\ Goto(o, "error")
    /\ UNCHANGED <<tables, known, lock, now>>

-----------------------------------------------------------------------------
(* Calls *)

Call(o, kind, first, e, p, t) ==
    /\ kind \in Kinds
    /\ stage[o] = "idle"
    /\ call' = [call EXCEPT ![o] = [kind |-> kind, email |-> e, pwd |-> p, tok |-> t,
                                    after |-> {q \in Ops : stage[q] = "done"}]]
    /\ stage' = [stage EXCEPT ![o] = first]
    /\ UNCHANGED <<seen, expiry, drops, tables, known, lock, now>>

\* TryFrom<FormSignUpData> may refuse the form.
Signup(o, e, p)       == \E s \in {"insert", "refused"} : Call(o, "signup", s, e, p, NoOp)
Login(o, e, p)        == Call(o, "login", "read", e, p, NoOp)
RequestReset(o, e)    == Call(o, "request", "find", e, NoPassword, NoOp)
Google(o, e)          == Call(o, "google", "find", e, NoPassword, NoOp)

\* Whoever calls these has a token's plaintext; the row tells the user.
Activate(o, t)        == t \in known /\ Call(o, "activate", "find", call[t].email, NoPassword, t)
Reset(o, t, p)        == t \in known /\ Call(o, "reset", "find", call[t].email, p, t)
SetPassword(o, t, p)  == /\ t \in known /\ HasSession(t)
                         /\ Call(o, "setpw", "update", call[t].email, p, t)
Logout(o, t)          == /\ t \in known /\ HasSession(t)
                         /\ Call(o, "logout", "update", call[t].email, NoPassword, t)

-----------------------------------------------------------------------------
(* Steps *)

\* INSERT INTO users waits for an open transaction on the same address; then
\* the UNIQUE index decides (409).  The token is drawn inside the transaction.
SignupInsert(o) ==
    LET e == call[o].email IN
    /\ At(o, "signup", "insert")
    /\ lock[e] = NoOp
    /\ \/ /\ account[e] # "none"
          /\ Goto(o, "refused")
          /\ UNCHANGED lock
       \/ /\ account[e] = "none"
          /\ lock' = [lock EXCEPT ![e] = o]
          /\ stage' = [stage EXCEPT ![o] = "commit"]
          /\ expiry' = [expiry EXCEPT ![o] = now + ActivationTTL]
          /\ UNCHANGED <<call, seen, drops>>
    /\ UNCHANGED <<tables, known, now>>

\* A commit whose answer is lost was applied all the same.
SignupCommit(o) ==
    LET e == call[o].email IN
    /\ At(o, "signup", "commit")
    /\ account' = [account EXCEPT ![e] = "inactive"]
    /\ hash' = [hash EXCEPT ![e] = call[o].pwd]
    /\ tokens' = tokens \cup {o}
    /\ lock' = [lock EXCEPT ![e] = NoOp]
    /\ \E s \in {"mail", "error"} : Goto(o, s)
    /\ UNCHANGED <<known, now>>

\* SELECT .. FROM tokens WHERE hash = .. AND expiry > NOW(): no scope.
ActivateFind(o) ==
    /\ At(o, "activate", "find")
    /\ Goto(o, IF call[o].tok \in tokens /\ expiry[call[o].tok] > now
               THEN "update" ELSE "refused")
    /\ UNCHANGED <<tables, known, lock, now>>

ActivateCommit(o) ==
    LET e == call[o].email IN
    /\ At(o, "activate", "commit")
    /\ account' = [account EXCEPT ![e] = "active"]
    /\ tokens' = tokens \ drops[o]
    /\ lock' = [lock EXCEPT ![e] = NoOp]
    /\ \E s \in {"done", "error"} : Goto(o, s)
    /\ UNCHANGED <<hash, known, now>>

\* The transactions of activate and reset.  UPDATE users waits for the row;
\* the DELETE FROM tokens behind it finds what is committed by then, and a
\* token stored after it outlives the commit.  (One step: what is committed
\* between the two statements could as well have been before the first.)
UpdateRow(o) ==
    LET e == call[o].email IN
    /\ \E kind \in {"activate", "reset"} : At(o, kind, "update")
    /\ lock[e] = NoOp
    /\ lock' = [lock EXCEPT ![e] = o]
    /\ stage' = [stage EXCEPT ![o] = "commit"]
    /\ drops' = [drops EXCEPT ![o] = TokensOf(e, IF call[o].kind = "reset" THEN "password-reset"
                                                                           ELSE "activation")]
    /\ UNCHANGED <<call, seen, expiry, tables, known, now>>

\* get_user_data; without a row a made-up hash is verified.
LoginRead(o) ==
    /\ At(o, "login", "read")
    /\ stage' = [stage EXCEPT ![o] = "verify"]
    /\ seen' = [seen EXCEPT ![o] = hash[call[o].email]]
    /\ UNCHANGED <<call, expiry, drops, tables, known, lock, now>>

LoginVerify(o) ==
    /\ At(o, "login", "verify")
    /\ Goto(o, IF seen[o] = call[o].pwd THEN "store" ELSE "refused")
    /\ UNCHANGED <<tables, known, lock, now>>

\* user_exists and user_activated: two reads, of which the second decides,
\* for rows are never deleted.
RequestFind(o) ==
    /\ At(o, "request", "find")
    /\ Goto(o, IF account[call[o].email] = "active" THEN "store" ELSE "refused")
    /\ UNCHANGED <<tables, known, lock, now>>

\* find_or_create_oauth_user: an account with that address, activated or not,
\* is linked; a new one is never created (the INSERT lacks NOT NULL columns).
GoogleFind(o) ==
    /\ At(o, "google", "find")
    /\ Goto(o, IF account[call[o].email] # "none" THEN "store" ELSE "error")
    /\ UNCHANGED <<tables, known, lock, now>>

\* insert_token and commit.  Only the Google callback hands its token out.
StoreToken(o) ==
    /\ stage[o] = "store"
    /\ tokens' = tokens \cup {o}
    /\ expiry' = [expiry EXCEPT ![o] = now + Lifetime(o)]
    /\ \E st \in {IF call[o].kind = "request" THEN "mail" ELSE "done", "error"} :
          /\ stage' = [stage EXCEPT ![o] = st]
          /\ known' = IF call[o].kind = "google" /\ st = "done" THEN known \cup {o} ELSE known
    /\ UNCHANGED <<call, seen, drops, account, hash, lock, now>>

\* EmailClient::build may fail; the transaction is already committed.
Mail(o) ==
    /\ stage[o] = "mail"
    /\ \/ Goto(o, "done")
       \/ Goto(o, IF call[o].kind = "signup" THEN "refused" ELSE "error")
    /\ UNCHANGED <<tables, known, lock, now>>

\* SELECT .. FROM tokens WHERE hash = .. AND scope = ..: no expiry.
ResetFind(o) ==
    /\ At(o, "reset", "find")
    /\ Goto(o, IF call[o].tok \in tokens /\ Scope(call[o].tok) = "password-reset"
               THEN "update" ELSE "refused")
    /\ UNCHANGED <<tables, known, lock, now>>

ResetCommit(o) ==
    LET e == call[o].email IN
    /\ At(o, "reset", "commit")
    /\ hash' = [hash EXCEPT ![e] = call[o].pwd]
    /\ tokens' = tokens \ drops[o]
    /\ lock' = [lock EXCEPT ![e] = NoOp]
    /\ \E s \in {"done", "error"} : Goto(o, s)
    /\ UNCHANGED <<account, known, now>>

\* Stores the SHA-256 digest of the Argon2 string, if that is UTF-8 at all
\* (Fails otherwise); one statement, which waits for the row.
SetPasswordUpdate(o) ==
    /\ At(o, "setpw", "update")
    /\ lock[call[o].email] = NoOp
    /\ hash' = [hash EXCEPT ![call[o].email] = Garbage]
    /\ \E s \in {"done", "error"} : Goto(o, s)
    /\ UNCHANGED <<account, tokens, known, lock, now>>

LogoutDelete(o) ==
    /\ At(o, "logout", "update")
    /\ tokens' = tokens \ ({call[o].tok} \cap TokensOf(call[o].email, "authentication"))
    /\ \E s \in {"done", "error"} : Goto(o, s)
    /\ UNCHANGED <<account, hash, known, lock, now>>

\* A query fails, a handler panics, its request is dropped, the process dies:
\* an open transaction is rolled back.
Fails(o) ==
    /\ stage[o] \in InFlight
    /\ Goto(o, "error")
    /\ lock' = [e \in Emails |-> IF lock[e] = o THEN NoOp ELSE lock[e]]
    /\ UNCHANGED <<tables, known, now>>

\* The mail arrives, sooner or later or never.
Deliver(t) ==
    /\ stage[t] = "done" /\ Scope(t) \in {"activation", "password-reset"}
    /\ t \notin known
    /\ known' = known \cup {t}
    /\ UNCHANGED <<stage, locals, tables, lock, now>>

Tick ==
    /\ now < MaxTime
    /\ now' = now + 1
    /\ UNCHANGED <<stage, locals, tables, known, lock>>

Step(o) ==
    \/ SignupInsert(o) \/ SignupCommit(o)
    \/ ActivateFind(o) \/ ActivateCommit(o) \/ UpdateRow(o)
    \/ LoginRead(o) \/ LoginVerify(o)
    \/ RequestFind(o) \/ GoogleFind(o) \/ StoreToken(o) \/ Mail(o)
    \/ ResetFind(o) \/ ResetCommit(o)
    \/ SetPasswordUpdate(o) \/ LogoutDelete(o)

Next ==
    \/ \E o \in Ops, e \in Emails :
          \/ RequestReset(o, e) \/ Google(o, e)
          \/ \E p \in Passwords : Signup(o, e, p) \/ Login(o, e, p)
    \/ \E o, t \in Ops :
          \/ Activate(o, t) \/ Logout(o, t)
          \/ \E p \in Passwords : Reset(o, t, p) \/ SetPassword(o, t, p)
    \/ \E o \in Ops : Step(o) \/ Fails(o) \/ Deliver(o)
    \/ Tick

Spec == Init /\ [][Next]_vars

\* A query that waits for no row is answered; blocking threads finish.  That a
\* query may fail instead is not relied upon.
FairSpec == Spec /\ \A o \in Ops : WF_vars(Step(o))

-----------------------------------------------------------------------------
(* Properties *)

TypeOK ==
    /\ call \in [Ops -> [kind : AllKinds \cup {"none"}, email : Emails \cup {NoOp},
                         pwd : Passwords \cup {NoPassword}, tok : Ops \cup {NoOp},
                         after : SUBSET Ops]]
    /\ stage \in [Ops -> InFlight \cup Ended \cup {"idle"}]
    /\ seen \in [Ops -> Passwords \cup {NoPassword, Garbage}]
    /\ expiry \in [Ops -> Nat]
    /\ drops \in [Ops -> SUBSET Ops]
    /\ account \in [Emails -> {"none", "inactive", "active"}]
    /\ hash \in [Emails -> Passwords \cup {NoPassword, Garbage}]
    /\ tokens \subseteq Ops
    /\ known \subseteq Ops
    /\ lock \in [Emails -> Ops \cup {NoOp}]
    /\ now \in Nat

Did(o, kind) == At(o, kind, "done")
SameUser(a, b) == call[a].email = call[b].email

(* Nobody is locked out: whoever comes with the token of his activation     *)
(* mail before it expires is let in, unless the account is active already.  *)
(* Nothing else takes that token away: no activation that was rolled back,  *)
(* nor another user's, no reset and no logout (delete_token, tx.commit).    *)
ActivationHonoured ==
    [][\A o \in Ops :
        LET t == call[o].tok IN
        At(o, "activate", "find") /\ Scope(t) = "activation" /\ stage'[o] = "refused"
        => account[call[o].email] = "active" \/ expiry[t] <= now]_vars

(* Once an account is active no activation token is left, whichever token   *)
(* it was activated with: the DELETE of an activation is made before its    *)
(* commit, and nobody adds a token in between.                              *)
ActivationUsesTokensUp ==
    \A e \in Emails : account[e] = "active" => TokensOf(e, "activation") = {}

(* Of the sign-ups that race for an address one is answered 201, and the    *)
(* account keeps the password it was answered for until a reset or          *)
(* set_password of its user writes another.                                 *)
OneWinner ==
    \A a \in Ops : Did(a, "signup") =>
        /\ \A b \in Ops : Did(b, "signup") /\ SameUser(a, b) => a = b
        /\ \/ hash[call[a].email] = call[a].pwd
           \/ \E r \in Ops : /\ SameUser(a, r)
                             /\ call[r].kind \in {"reset", "setpw"}
                             /\ stage[r] \in {"done", "error"}

(* A reset uses its token up: one that starts after a reset of the same     *)
(* user was answered 200 cannot succeed with the same token.  (Two that     *)
(* overlap can: both may validate it before either deletes it.)             *)
ResetUsesTokenUp ==
    \A a, b \in Ops :
        Did(a, "reset") /\ Did(b, "reset") /\ a \in call[b].after => call[a].tok # call[b].tok

(* Once a reset was answered 200, a login that starts later needs the new   *)
(* password, unless another reset of that user was not over before.         *)
ResetTakesEffect ==
    \A r, l \in Ops :
        /\ Did(r, "reset") /\ Did(l, "login") /\ SameUser(r, l) /\ r \in call[l].after
        /\ \A q \in Ops \ {r} : call[q].kind \in {"reset", "setpw"} /\ SameUser(q, r) =>
                \/ q \in call[r].after
                \/ stage[q] \notin {"done", "error"}
        => call[l].pwd = call[r].pwd

(* The step that changes an account's password is one of a handler that was *)
(* called with a token mailed to that address on a reset request, and       *)
(* writes the password it was called with, or with one of the account's     *)
(* sessions (handle_password_reset, set_password_account).                  *)
PasswordByOwner ==
    [][\A e \in Emails : hash'[e] # hash[e] /\ account[e] # "none" =>
        \E o \in Ops :
            /\ stage'[o] \in {"done", "error"}
            /\ call[o].tok \in known /\ call[call[o].tok].email = e
            /\ \/ /\ At(o, "reset", "commit")
                  /\ Scope(call[o].tok) = "password-reset"
                  /\ hash'[e] = call[o].pwd
               \/ /\ At(o, "setpw", "update")
                  /\ Scope(call[o].tok) = "authentication"]_vars

\* What Credentials calls a credential, a use, and the state of both.
Cred(t)  == [id |-> t, user |-> call[t].email, scope |-> Scope(t)]
UseOf(o) == [by |-> o, cred |-> Cred(call[o].tok), purpose |-> call[o].kind]

Valid  == {Cred(t) : t \in tokens}
Held   == {Cred(t) : t \in tokens \cap known}
Fresh  == {o \in Ops : \/ stage[o] \in {"idle", "insert", "find", "read", "verify", "store"}
                       \/ At(o, "signup", "commit")}
Opened == {o \in Ops : /\ call[o].kind \in {"activate", "reset", "setpw", "logout"}
                       /\ stage[o] \in {"update", "commit"}}
Uses   == {UseOf(o) : o \in Opened}

CR == INSTANCE Credentials WITH
        Users <- Emails, Secrets <- Passwords \cup {Garbage}, NoSecret <- NoPassword, Ids <- Ops,
        secret <- hash, valid <- Valid, held <- Held, fresh <- Fresh, open <- Uses

(* The handlers, cut at their awaits, with their transactions, locks and    *)
(* lost answers, do what Credentials promises: a token is looked up when it *)
(* is valid and works at once and as a whole, or not at all.                *)
ImplementsCredentials == CR!Spec

(* A session that was logged out never comes back. *)
LogoutFinal == \A o \in Ops : Did(o, "logout") => call[o].tok \notin tokens

(* The statements that write a row of users wait for whoever holds it.      *)
WaitsFor(o, q) ==
    /\ \/ stage[o] = "insert"
       \/ stage[o] = "update" /\ call[o].kind \in {"activate", "reset", "setpw"}
    /\ lock[call[o].email] = q

(* Transactions do not wait for each other in a circle, nor for one that    *)
(* has ended: who is waited for is about to commit, waits for nobody, and   *)
(* holds no other row (activate_user_handler, handle_password_reset and     *)
(* signup write one row of users each).                                     *)
WaitsAreShort ==
    \A o, q \in Ops : WaitsFor(o, q) =>
        /\ q # o /\ stage[q] \in InFlight
        /\ \A r \in Ops : ~WaitsFor(q, r)
        /\ \A e \in Emails : lock[e] = q => e = call[o].email

(* Every handler answers: nobody waits for a row whose transaction never    *)
(* ends.                                                                    *)
Answers == \A o \in Ops : (stage[o] \in InFlight) ~> (stage[o] \in Ended)

(* password.rs says of a token that validate_token found: "Token is valid   *)
(* and not expired".                                                        *)
ResetTokenNotExpired ==
    [][\A o \in Ops : ResetFind(o) /\ stage'[o] = "update" =>
            expiry[call[o].tok] > now]_vars

(* set_password_account answers "Password set successfully": the account    *)
(* then has that password, unless a later write of another is possible.     *)
SetPasswordWorks ==
    \A o \in Ops : Did(o, "setpw") =>
        \/ hash[call[o].email] = call[o].pwd
        \/ \E r \in Ops \ {o} : /\ SameUser(o, r)
                                /\ call[r].kind \in {"reset", "setpw"}
                                /\ stage[r] \in {"done", "error"}

=============================================================================
