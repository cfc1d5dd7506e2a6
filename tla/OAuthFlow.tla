------------------------------ MODULE OAuthFlow ------------------------------
(***************************************************************************)
(* Signing in with Google, src/src/oauth/oauth.rs and utils/oauth_utils.rs *)
(*                                                                         *)
(* A flow f is one run of oauth: a state row with its PKCE verifier and    *)
(* the redirect to Google.  A code k is what Google issues when somebody   *)
(* agrees; going back and agreeing again gives another code of the same    *)
(* flow.  A callback c is one run of redirect_uri, cut at its awaits.  Its *)
(* code and its state are two parameters of a URL that anybody may write:  *)
(* a page that is reloaded brings the same ones again, a link from another *)
(* person the code of one flow with the state of another.  Users are named *)
(* by their e-mail address, as in Accounts.  Every statement is committed  *)
(* by itself; one whose answer is lost was applied all the same.           *)
(***************************************************************************)
EXTENDS Integers

CONSTANTS
    Flows, Codes, Callbacks,
    Subs,           \* Google accounts (the field sub)
    Emails,
    None,           \* no row, no code, no address
    StateTTL,       \* 10 minutes, in store_oauth_state
    Grace,          \* 10 minutes, in verify_and_delete_oauth_state
    MaxTime         \* bound: how far the clock goes

(* PKCE.  A verifier is named by its flow, its SHA-256 by a term. *)

\* Faulty variant of the next definition; nothing uses it: all flows share one.
Verifier_Shared(f) == None

Verifier(f)  == f
Derive(v)    == <<"sha256", v>>
Challenge(f) == Derive(Verifier(f))

\* PkceChallenge has a code_challenge_method; the URL has none.
UrlMethod == None

ASSUME OAuthAssumption ==
    /\ None \notin Flows \cup Codes \cup Subs \cup Emails \cup {"S256"}
    /\ {StateTTL, Grace} \subseteq Nat \ {0}
    /\ MaxTime \in Nat
    /\ \A f, g \in Flows : Challenge(f) # Verifier(g)

VARIABLES
    states,     \* flows whose row is in oauth_states
    expires,    \* expires[f]: expires_at of that row
    started,    \* when a flow was started; -1 if it was not
    urls,       \* flows whose redirect reached the browser
    reads,      \* how Google reads a challenge without a method
    flowOf,     \* flowOf[k]: the flow a code was issued in
    subOf,      \* subOf[k]: the Google account that agreed
    spent,      \* codes that were exchanged
    address,    \* address[s]: the address Google reports for s
    users,      \* addresses with a row in users
    links,      \* links[s]: the user in the row of s in oauth_accounts
    stage,      \* stage[c]: where a callback is
    code,       \* code[c]: its parameter code
    state,      \* state[c]: its parameter state, by the flow that drew it
    email,      \* email[c]: the address it was told
    user,       \* user[c]: the user it issues a token for
    passed,     \* callbacks that got past the state check
    sessions,   \* callbacks whose token is in tokens
    now

flowVars == <<states, expires, started, urls>>
googleVars == <<reads, flowOf, subOf, spent, address>>
accountVars == <<users, links>>
locals == <<code, state, email, user>>
vars == <<flowVars, googleVars, accountVars, stage, locals, passed, sessions, now>>

AtDatabase == {"verify", "findlink", "finduser", "link", "create", "store"}
AtGoogle   == {"exchange", "userinfo"}
Ended      == {"done", "refused", "error"}

Sub(c) == subOf[code[c]]

Init ==
    /\ states = {}
    /\ expires = [f \in Flows |-> 0]
    /\ started = [f \in Flows |-> -1]
    /\ urls = {}
    /\ reads \in {"plain", "S256"}
    /\ flowOf = [k \in Codes |-> None]
    /\ subOf = [k \in Codes |-> None]
    /\ spent = {}
    /\ address \in [Subs -> Emails \cup {None}]
    /\ users \in SUBSET Emails
    /\ links = [s \in Subs |-> None]
    /\ stage = [c \in Callbacks |-> "idle"]
    /\ code = [c \in Callbacks |-> None]
    /\ state = [c \in Callbacks |-> None]
    /\ email = [c \in Callbacks |-> None]
    /\ user = [c \in Callbacks |-> None]
    /\ passed = {}
    /\ sessions = {}
    /\ now = 0

\* The row of c's state is there and its expires_at > NOW() - '10 minutes'.
Valid(c) == state[c] \in states /\ expires[state[c]] > now - Grace

\* Without a method Google takes its default; RFC 7636, 4.3, has "plain".
ReadsS256 == UrlMethod = "S256" \/ (UrlMethod = None /\ reads = "S256")

\* What Google compares a challenge with, given the verifier v.
Compared(v) == IF ReadsS256 THEN Derive(v) ELSE v

\* Google takes a code once, and only with the verifier of its challenge: the
\* challenge is of the flow of the code, the verifier of the flow of the state.
Accepts(c) ==
    /\ code[c] \notin spent
    /\ Challenge(flowOf[code[c]]) = Compared(Verifier(state[c]))

Goto(c, st) == stage' = [stage EXCEPT ![c] = st]

-----------------------------------------------------------------------------
(* Faulty variants of steps below; nothing uses them. *)

\* SELECT code_verifier instead of DELETE .. RETURNING.
VerifyState_Selects(c) ==
    /\ stage[c] = "verify"
    /\ Goto(c, IF Valid(c) THEN "exchange" ELSE "refused")
    /\ passed' = IF Valid(c) THEN passed \cup {c} ELSE passed
    /\ UNCHANGED <<flowVars, googleVars, accountVars, locals, sessions, now>>

\* No comparison with expires_at.
VerifyState_NoExpiry(c) ==
    /\ stage[c] = "verify"
    /\ Goto(c, IF state[c] \in states THEN "exchange" ELSE "refused")
    /\ states' = states \ {state[c]}
    /\ passed' = IF state[c] \in states THEN passed \cup {c} ELSE passed
    /\ UNCHANGED <<expires, started, urls, googleVars, accountVars, locals, sessions, now>>

\* The DELETE belongs to a transaction that is committed after the exchange:
\* another callback with that state waits for the row.
VerifyState_InTransaction(c) ==
    /\ stage[c] = "verify"
    /\ \A d \in Callbacks : stage[d] \in AtGoogle => state[d] # state[c]
    /\ Goto(c, IF Valid(c) THEN "exchange" ELSE "refused")
    /\ states' = states \ {state[c]}
    /\ passed' = IF Valid(c) THEN passed \cup {c} ELSE passed
    /\ UNCHANGED <<expires, started, urls, googleVars, accountVars, locals, sessions, now>>

\* No ok_or_else on the address.
UserInfo_AnyAddress(c) ==
    /\ stage[c] = "userinfo"
    /\ Goto(c, "findlink")
    /\ email' = [email EXCEPT ![c] = address[Sub(c)]]
    /\ UNCHANGED <<flowVars, googleVars, accountVars, code, state, user, passed, sessions, now>>

\* ON CONFLICT DO UPDATE.
InsertLink_Replaces(c) ==
    /\ stage[c] = "link"
    /\ links' = [links EXCEPT ![Sub(c)] = user[c]]
    /\ Goto(c, "store")
    /\ UNCHANGED <<flowVars, googleVars, users, locals, passed, sessions, now>>

-----------------------------------------------------------------------------
(* Starting a flow.  Flows, codes and callbacks of one stage are alike, so  *)
(* the next one is always the same of those not yet used.                   *)

NextFlow     == CHOOSE f \in Flows : started[f] = -1
NextCode     == CHOOSE k \in Codes : flowOf[k] = None
NextCallback == CHOOSE c \in Callbacks : stage[c] = "idle"

\* oauth: the row is stored; then the answer redirects the browser, or is lost.
Start(f) ==
    /\ started[f] = -1 /\ f = NextFlow
    /\ states' = states \cup {f}
    /\ expires' = [expires EXCEPT ![f] = now + StateTTL]
    /\ started' = [started EXCEPT ![f] = now]
    /\ urls' \in {urls, urls \cup {f}}
    /\ UNCHANGED <<googleVars, accountVars, stage, locals, passed, sessions, now>>

\* Somebody agrees on Google's page, perhaps once more for the same redirect.
Agree(k, f, s) ==
    /\ f \in urls
    /\ flowOf[k] = None /\ k = NextCode
    /\ flowOf' = [flowOf EXCEPT ![k] = f]
    /\ subOf' = [subOf EXCEPT ![k] = s]
    /\ UNCHANGED <<flowVars, reads, spent, address, accountVars, stage, locals,
                   passed, sessions, now>>

\* A browser comes back from Google, reloads the page it came back to, or opens
\* a link that somebody made of any code and the state of any redirect (a code
\* that Google never issued fares as one of another flow does).
Return(c, k, f) ==
    /\ stage[c] = "idle" /\ c = NextCallback
    /\ flowOf[k] # None
    /\ f \in urls
    /\ code' = [code EXCEPT ![c] = k]
    /\ state' = [state EXCEPT ![c] = f]
    /\ Goto(c, "verify")
    /\ UNCHANGED <<flowVars, googleVars, accountVars, email, user, passed, sessions, now>>

\* With an error, without a state or with one that was never drawn: 400, and
\* every row stays.
ReturnDenied(c) ==
    /\ stage[c] = "idle" /\ c = NextCallback
    /\ Goto(c, "refused")
    /\ UNCHANGED <<flowVars, googleVars, accountVars, locals, passed, sessions, now>>

-----------------------------------------------------------------------------
(* The callback *)

\* DELETE .. WHERE state = .. AND expires_at > NOW() - '10 minutes' RETURNING ..
VerifyState(c) ==
    /\ stage[c] = "verify"
    /\ \/ /\ Valid(c)
          /\ states' = states \ {state[c]}
          /\ \/ Goto(c, "exchange") /\ passed' = passed \cup {c}
             \/ Goto(c, "error") /\ UNCHANGED passed
       \/ /\ ~Valid(c)
          /\ Goto(c, "refused")
          /\ UNCHANGED <<states, passed>>
    /\ UNCHANGED <<expires, started, urls, googleVars, accountVars, locals, sessions, now>>

\* A refusal of Google's has no access_token and fails to parse (500).
Exchange(c) ==
    /\ stage[c] = "exchange"
    /\ \/ /\ Accepts(c)
          /\ spent' = spent \cup {code[c]}
          /\ \E st \in {"userinfo", "error"} : Goto(c, st)
       \/ /\ ~Accepts(c)
          /\ Goto(c, "error")
          /\ UNCHANGED spent
    /\ UNCHANGED <<flowVars, reads, flowOf, subOf, address, accountVars, locals,
                   passed, sessions, now>>

\* A Google account without an address is refused (400).
UserInfo(c) ==
    /\ stage[c] = "userinfo"
    /\ Goto(c, IF address[Sub(c)] = None THEN "refused" ELSE "findlink")
    /\ email' = [email EXCEPT ![c] = address[Sub(c)]]
    /\ UNCHANGED <<flowVars, googleVars, accountVars, code, state, user, passed, sessions, now>>

\* find_or_create_oauth_user: case 1, the account is linked ..
FindLink(c) ==
    /\ stage[c] = "findlink"
    /\ Goto(c, IF links[Sub(c)] # None THEN "store" ELSE "finduser")
    /\ user' = [user EXCEPT ![c] = links[Sub(c)]]
    /\ UNCHANGED <<flowVars, googleVars, accountVars, code, state, email, passed, sessions, now>>

\* .. case 2, the address has a user ..
FindUser(c) ==
    /\ stage[c] = "finduser"
    /\ \/ email[c] \in users /\ Goto(c, "link") /\ user' = [user EXCEPT ![c] = email[c]]
       \/ email[c] \notin users /\ Goto(c, "create") /\ UNCHANGED user
    /\ UNCHANGED <<flowVars, googleVars, accountVars, code, state, email, passed, sessions, now>>

\* .. who is linked: UNIQUE (provider, provider_user_id) ..
InsertLink(c) ==
    /\ stage[c] = "link"
    /\ \/ /\ links[Sub(c)] = None
          /\ links' = [links EXCEPT ![Sub(c)] = user[c]]
          /\ \E st \in {"store", "error"} : Goto(c, st)
       \/ /\ links[Sub(c)] # None
          /\ Goto(c, "error")
          /\ UNCHANGED links
    /\ UNCHANGED <<flowVars, googleVars, users, locals, passed, sessions, now>>

\* .. and a new user, whose row lacks id, last_name and password_hash.
CreateUser(c) ==
    /\ stage[c] = "create"
    /\ Goto(c, "error")
    /\ UNCHANGED <<flowVars, googleVars, accountVars, locals, passed, sessions, now>>

StoreToken(c) ==
    /\ stage[c] = "store"
    /\ sessions' = sessions \cup {c}
    /\ \E st \in {"done", "error"} : Goto(c, st)
    /\ UNCHANGED <<flowVars, googleVars, accountVars, locals, passed, now>>

\* A query or a call of Google fails, the request is dropped, the process dies.
Fails(c) ==
    /\ stage[c] \in AtDatabase \cup AtGoogle
    /\ Goto(c, "error")
    /\ UNCHANGED <<flowVars, googleVars, accountVars, locals, passed, sessions, now>>

-----------------------------------------------------------------------------
(* Beside it *)

\* signup, as far as it matters here.
SignUp(e) ==
    /\ e \notin users
    /\ users' = users \cup {e}
    /\ UNCHANGED <<flowVars, googleVars, links, stage, locals, passed, sessions, now>>

\* The owner of a Google account changes its address.
ChangeAddress(s, e) ==
    /\ address' = [address EXCEPT ![s] = e]
    /\ UNCHANGED <<flowVars, reads, flowOf, subOf, spent, accountVars, stage, locals,
                   passed, sessions, now>>

Tick ==
    /\ now < MaxTime
    /\ now' = now + 1
    /\ UNCHANGED <<flowVars, googleVars, accountVars, stage, locals, passed, sessions>>

Database(c) ==
    VerifyState(c) \/ FindLink(c) \/ FindUser(c) \/ InsertLink(c) \/ CreateUser(c) \/ StoreToken(c)

Google(c) == Exchange(c) \/ UserInfo(c)

Next ==
    \/ \E f \in Flows : Start(f)
    \/ \E k \in Codes, f \in Flows, s \in Subs : Agree(k, f, s)
    \/ \E c \in Callbacks, k \in Codes, f \in Flows : Return(c, k, f)
    \/ \E c \in Callbacks : ReturnDenied(c) \/ Database(c) \/ Google(c) \/ Fails(c)
    \/ \E e \in Emails : SignUp(e)
    \/ \E s \in Subs, e \in Emails : ChangeAddress(s, e)
    \/ Tick

Spec == Init /\ [][Next]_vars

\* The database answers or fails.  reqwest::Client::new() has no timeout, so
\* nothing is asked of Google.
FairSpec == Spec /\ \A c \in Callbacks : WF_vars(Database(c))

-----------------------------------------------------------------------------
(* Properties *)

AfterUserInfo == {"findlink", "finduser", "link", "create", "store"}

TypeOK ==
    /\ states \subseteq Flows
    /\ urls \subseteq Flows
    /\ expires \in [Flows -> Nat]
    /\ started \in [Flows -> Nat \cup {-1}]
    /\ reads \in {"plain", "S256"}
    /\ flowOf \in [Codes -> Flows \cup {None}]
    /\ subOf \in [Codes -> Subs \cup {None}]
    /\ spent \subseteq Codes
    /\ address \in [Subs -> Emails \cup {None}]
    /\ users \subseteq Emails
    /\ links \in [Subs -> Emails \cup {None}]
    /\ stage \in [Callbacks -> AtDatabase \cup AtGoogle \cup Ended \cup {"idle"}]
    /\ code \in [Callbacks -> Codes \cup {None}]
    /\ state \in [Callbacks -> Flows \cup {None}]
    /\ email \in [Callbacks -> Emails \cup {None}]
    /\ user \in [Callbacks -> Emails \cup {None}]
    /\ passed \subseteq Callbacks
    /\ sessions \subseteq Callbacks
    /\ now \in Nat
    /\ \A c \in Callbacks : stage[c] \in AfterUserInfo => email[c] # None

(* A state is used once: of all the callbacks that come with it, reloaded   *)
(* or with a second code, side by side or after an exchange that failed,    *)
(* one at most gets past verify_and_delete_oauth_state.                     *)
OneTimeUse ==
    \A c, d \in passed : c # d => state[c] # state[d]

(* state and code_verifier are there for this: whatever code is put beside  *)
(* whatever state, redirect_uri asks who agreed, links an account or opens  *)
(* a session only with a code issued for the redirect of that very state.   *)
OwnFlow ==
    \A c \in Callbacks : c \in sessions \/ stage[c] \in {"userinfo", "done"} \cup AfterUserInfo
        => flowOf[code[c]] = state[c]

(* Whoever gets past the check has started within the two ten minutes that  *)
(* store_oauth_state and verify_and_delete_oauth_state grant.               *)
StaleStatesRefused ==
    [][\A c \in passed' \ passed : now - started[state[c]] < StateTTL + Grace]_vars

(* Whatever overlaps or fails, a flow opens one session at most, of the     *)
(* user its Google account was linked with first; a user who has a row.     *)
SI == INSTANCE SignIn WITH
    agreed   <- {<<flowOf[k], subOf[k]>> : k \in {i \in Codes : flowOf[i] # None}},
    bound    <- links,
    sessions <- {<<state[c], user[c]>> : c \in sessions}

ImplementsSignIn == SI!Spec

(* A callback ends, or Google keeps it: no callback waits for another.      *)
OnlyGoogleKeepsWaiting ==
    \A c \in Callbacks : <>[](stage[c] \in {"idle"} \cup AtGoogle \cup Ended)

=============================================================================
