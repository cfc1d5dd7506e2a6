------------------------------ MODULE AuthGate ------------------------------
(***************************************************************************)
(* The way of a request to its handler:                                    *)
(*   src/src/server.rs                    run_server: scopes and routes    *)
(*   src/src/middlewares/auth.rs          auth_middleware                  *)
(*   src/src/middlewares/socket_auth.rs   socket_auth_middleware           *)
(*   src/src/utils/user_utils.rs          get_user_from_token              *)
(*                                                                         *)
(* A string is a model value, its SHA-256 digest a term over it.  The row  *)
(* of a token holds the digest of its plaintext.  Sessions come and go and *)
(* the clock advances between any two steps of a request.                  *)
(***************************************************************************)
EXTENDS Naturals, Sequences, SequencesExt

CONSTANTS
    Users, Requests,
    Tokens,     \* plaintexts the server draws
    Strings,    \* what clients can present
    Utf8,       \* the strings whose digest happens to be UTF-8
    Empty,      \* the string ""
    NoToken,    \* no usable token in the request
    NoUser, NoKey,
    Paths,      \* paths that are requested, in segments
    Orders,     \* orders of registration looked at
    SessionTTL,
    MaxTime     \* bound: how far the clock goes

Digest(s) == <<"sha256", s>>

\* A digest has 32 bytes; a token has 25 characters.
ASSUME AuthGateAssumption ==
    /\ Tokens \subseteq Strings /\ Empty \in Strings \ Tokens
    /\ Utf8 \subseteq Strings
    /\ NoToken \notin Strings
    /\ \A s \in Strings : Digest(s) \notin Tokens
    /\ Paths \subseteq Seq(STRING)
    /\ SessionTTL \in Nat \ {0} /\ MaxTime \in Nat

VARIABLES
    order,      \* the scopes in the order of registration
    sessions,   \* rows of the tokens table
    now,
    call,       \* call[r]: method, path and token of a request
    stage,      \* stage[r]: how far it is, or the status it was answered with
    scope,      \* scope[r]: the scope that took it
    key,        \* key[r]: the string its middleware passes to get_user_from_token
    user        \* user[r]: the User in its extensions

env == <<order, sessions, now>>
requests == <<call, stage, scope, key, user>>
vars == <<env, requests>>

-----------------------------------------------------------------------------
(* The application: scopes, their prefixes, middlewares and resources. *)

Registered == <<"api", "messages", "account", "ws">>

Prefix == [api      |-> <<"v1", "api">>,
           messages |-> <<"v1", "api", "messages">>,
           account  |-> <<"v1", "api", "account">>,
           ws       |-> <<"ws">>]

Guard == [api |-> "none", messages |-> "auth_middleware",
          account |-> "auth_middleware", ws |-> "socket_auth_middleware"]

\* "*" is a path parameter, which is one non-empty segment.
Resources ==
    [api      |-> {<<"GET", <<"">> >>, <<"POST", <<"signup">> >>, <<"POST", <<"login">> >>,
                   <<"POST", <<"google_login">> >>, <<"POST", <<"oauth", "callback">> >>,
                   <<"GET", <<"*">> >>},
     messages |-> {<<"GET", <<"contacts">> >>, <<"GET", <<"chats">> >>, <<"GET", <<"*">> >>,
                   <<"POST", <<"send", "*">> >>},
     account  |-> {<<"POST", <<"password", "request_reset">> >>,
                   <<"POST", <<"password", "set_password">> >>, <<"POST", <<"logout">> >>},
     ws       |-> {<<"GET", << >> >>}]

Scopes == DOMAIN Prefix

Matches(pattern, path) ==
    /\ Len(pattern) = Len(path)
    /\ \A i \in 1..Len(path) : pattern[i] = path[i] \/ (pattern[i] = "*" /\ path[i] # "")

\* The first registered scope whose prefix a path has takes the request.
Recognize(s, path) == \E i \in 1..Len(order) :
    /\ s = order[i] /\ IsPrefix(Prefix[s], path)
    /\ \A j \in 1..(i - 1) : ~IsPrefix(Prefix[order[j]], path)

\* Scope::route guards each resource by its method: one that fits in path and
\* method takes the request, otherwise the scope has nothing (404, never 405).
Dispatch(s, c) ==
    LET rest == SubSeq(c.path, Len(Prefix[s]) + 1, Len(c.path))
    IN  IF \E res \in Resources[s] : res[1] = c.method /\ Matches(res[2], rest)
        THEN "handler" ELSE "404"

Calls == [method : {"GET", "POST"}, path : Paths, cred : Strings \cup {NoToken}]
Stages == {"idle", "arrived", "guard", "query", "handler", "401", "404", "500"}

Init ==
    /\ order \in Orders
    /\ sessions = {}
    /\ now = 0
    /\ call \in [Requests -> Calls]
    /\ stage = [r \in Requests |-> "idle"]
    /\ scope = [r \in Requests |-> "none"]
    /\ key = [r \in Requests |-> NoKey]
    /\ user = [r \in Requests |-> NoUser]

\* The row a token's plaintext belongs to, while it lasts.
Live(s, row) == row.hash = Digest(s) /\ row.scope = "authentication" /\ row.expiry > now

\* What a middleware hashes: socket_auth_middleware takes "" for no token.
Presented(r) == IF call[r].cred = NoToken THEN Empty ELSE call[r].cred

Goto(r, st) == stage' = [stage EXCEPT ![r] = st]

-----------------------------------------------------------------------------
(* Faulty variants of operations below; nothing uses them. *)

\* A scope without its .wrap(from_fn(..)).
Route_Unwrapped(r) ==
    /\ stage[r] = "arrived"
    /\ \/ /\ \A s \in Scopes : ~Recognize(s, call[r].path)
          /\ Goto(r, "404")
          /\ UNCHANGED scope
       \/ \E s \in Scopes :
             /\ Recognize(s, call[r].path)
             /\ scope' = [scope EXCEPT ![r] = s]
             /\ Goto(r, IF Guard[s] # "auth_middleware" THEN Dispatch(s, call[r]) ELSE "guard")
    /\ UNCHANGED <<env, call, key, user>>

\* The row holds the plaintext.
Issue_InTheClear(t, u, sc) ==
    /\ sessions' = sessions \cup {[hash |-> t, user |-> u, scope |-> sc,
                                   expiry |-> now + SessionTTL]}
    /\ UNCHANGED <<order, now, requests>>

-----------------------------------------------------------------------------
(* Steps *)

Arrive(r) ==
    /\ stage[r] = "idle"
    /\ Goto(r, "arrived")
    /\ UNCHANGED <<env, call, scope, key, user>>

Route(r) ==
    /\ stage[r] = "arrived"
    /\ \/ /\ \A s \in Scopes : ~Recognize(s, call[r].path)
          /\ Goto(r, "404")
          /\ UNCHANGED scope
       \/ \E s \in Scopes :
             /\ Recognize(s, call[r].path)
             /\ scope' = [scope EXCEPT ![r] = s]
             /\ Goto(r, IF Guard[s] = "none" THEN Dispatch(s, call[r]) ELSE "guard")
    /\ UNCHANGED <<env, call, key, user>>

\* auth_middleware refuses a request without a token; then both middlewares
\* hash it and want the digest to be UTF-8.
Authenticate(r) ==
    LET missing == call[r].cred = NoToken /\ Guard[scope[r]] = "auth_middleware" IN
    /\ stage[r] = "guard"
    /\ \/ missing /\ Goto(r, "401") /\ UNCHANGED key
       \/ ~missing /\ Presented(r) \notin Utf8 /\ Goto(r, "500") /\ UNCHANGED key
       \/ /\ ~missing /\ Presented(r) \in Utf8
          /\ Goto(r, "query")
          /\ key' = [key EXCEPT ![r] = Digest(Presented(r))]
    /\ UNCHANGED <<env, call, scope, user>>

\* get_user_from_token hashes the key it is given.
Query(r) ==
    LET Found == {row \in sessions : Live(key[r], row)} IN
    /\ stage[r] = "query"
    /\ \/ Found = {} /\ Goto(r, "401") /\ UNCHANGED user
       \/ \E row \in Found :
             /\ user' = [user EXCEPT ![r] = row.user]
             /\ Goto(r, Dispatch(scope[r], call[r]))
    /\ UNCHANGED <<env, call, scope, key>>

QueryFails(r) ==
    /\ stage[r] = "query"
    /\ Goto(r, IF Guard[scope[r]] = "auth_middleware" THEN "500" ELSE "401")
    /\ UNCHANGED <<env, call, scope, key, user>>

\* A handler stores a token; no two rows have one hash (PRIMARY KEY).
Issue(t, u, sc) ==
    /\ \A row \in sessions : row.hash # Digest(t)
    /\ sessions' = sessions \cup {[hash |-> Digest(t), user |-> u, scope |-> sc,
                                   expiry |-> now + SessionTTL]}
    /\ UNCHANGED <<order, now, requests>>

Revoke(row) ==
    /\ sessions' = sessions \ {row}
    /\ UNCHANGED <<order, now, requests>>

Tick ==
    /\ now < MaxTime
    /\ now' = now + 1
    /\ UNCHANGED <<order, sessions, requests>>

TokenScopes == {"activation", "authentication", "password-reset"}

Next ==
    \/ \E r \in Requests :
          Arrive(r) \/ Route(r) \/ Authenticate(r) \/ Query(r) \/ QueryFails(r)
    \/ \E t \in Tokens, u \in Users, sc \in TokenScopes : Issue(t, u, sc)
    \/ \E row \in sessions : Revoke(row)
    \/ Tick

Spec == Init /\ [][Next]_vars

-----------------------------------------------------------------------------
(* Properties *)

Keys == {Digest(s) : s \in Strings}

(* Types; in particular no row holds a plaintext, and no key is one. *)
TypeOK ==
    /\ order \in Orders
    /\ sessions \subseteq [hash : {Digest(t) : t \in Tokens}, user : Users,
                           scope : TokenScopes, expiry : Nat]
    /\ call \in [Requests -> Calls]
    /\ stage \in [Requests -> Stages]
    /\ scope \in [Requests -> Scopes \cup {"none"}]
    /\ key \in [Requests -> Keys \cup {NoKey}]
    /\ user \in [Requests -> Users \cup {NoUser}]
    /\ now \in Nat

(* No request passes a middleware, whoever sends it and whatever sessions   *)
(* there are: the middlewares hand a digest to get_user_from_token, which   *)
(* digests it again, and no row holds the digest of a digest.               *)
PublicOnly == \A r \in Requests :
    stage[r] = "handler" => scope[r] \in Scopes /\ Guard[scope[r]] = "none"

(* A request with the token of a live session passes: auth.rs, "validate    *)
(* the token here, if valid continue to next middleware, if not return      *)
(* unauthorized"; server.rs of /ws, "also auth-protected".                  *)
ValidAdmitted ==
    [][\A r \in Requests :
        /\ Authenticate(r) \/ Query(r)
        /\ \E row \in sessions : Live(call[r].cred, row)
        => stage'[r] \notin {"401", "500"}]_vars

=============================================================================
