--------------------------- MODULE AuthGate_proofs ---------------------------
(* Proofs about AuthGate, for any users, tokens, clients and paths. *)
EXTENDS AuthGate, TLAPS

(* A request that a middleware has sent to the database carries a key, the  *)
(* digest of what its client presented.                                     *)
Keyed == \A r \in Requests : stage[r] = "query" => key[r] \in Keys

(* PublicOnly alone says nothing of a lookup under way; with Keyed and the  *)
(* types of the rows it is inductive.                                       *)
IInv == TypeOK /\ Keyed /\ PublicOnly

(* The application's scopes are the four that run_server registers. *)
LEMMA ScopesAre == Scopes = {"api", "messages", "account", "ws"}
BY DEF Scopes, Prefix

(* Inside a scope a request comes to a handler or is answered. *)
LEMMA DispatchType == ASSUME NEW s, NEW c PROVE Dispatch(s, c) \in {"404", "handler"}
BY DEF Dispatch

(* The digest of a key is the hash of no row: a key is a digest already.    *)
LEMMA NoRow == ASSUME TypeOK, NEW k \in Keys, NEW row \in sessions
               PROVE  ~Live(k, row)
<1>1. PICK s \in Strings : k = Digest(s)
  BY DEF Keys
<1>2. PICK t \in Tokens : row.hash = Digest(t)
  BY DEF TypeOK
<1>3. Digest(s) # t
  BY AuthGateAssumption
<1> QED BY <1>1, <1>2, <1>3 DEF Live, Digest

(* At the start no request has come and no token is stored. *)
LEMMA InitInv == Init => IInv
BY ScopesAre DEF Init, IInv, TypeOK, Keyed, PublicOnly, Stages

(* The application's router picks a scope: without a middleware its         *)
(* handlers are public, otherwise the request is at the guard.              *)
LEMMA RouteInv == ASSUME IInv, NEW r \in Requests, Route(r) PROVE IInv'
<1>1. CASE Goto(r, "404") /\ UNCHANGED scope
  BY <1>1 DEF IInv, TypeOK, Keyed, PublicOnly, Route, Goto, Stages, env
<1>2. ASSUME NEW s \in Scopes, scope' = [scope EXCEPT ![r] = s],
             Goto(r, IF Guard[s] = "none" THEN Dispatch(s, call[r]) ELSE "guard")
      PROVE  IInv'
  <2> DEFINE st == IF Guard[s] = "none" THEN Dispatch(s, call[r]) ELSE "guard"
  <2>1. st \in {"404", "handler", "guard"} /\ (st = "handler" => Guard[s] = "none")
    BY DispatchType
  <2>2. stage' = [stage EXCEPT ![r] = st]
    BY <1>2 DEF Goto
  <2> HIDE DEF st
  <2> QED BY <1>2, <2>1, <2>2 DEF IInv, TypeOK, Keyed, PublicOnly, Route, Stages, env
<1> QED BY <1>1, <1>2 DEF Route

(* A middleware refuses the request or digests what it carries. *)
LEMMA AuthenticateInv == ASSUME IInv, NEW r \in Requests, Authenticate(r) PROVE IInv'
<1>1. Presented(r) \in Strings
  BY AuthGateAssumption DEF IInv, TypeOK, Calls, Presented
<1>2. Digest(Presented(r)) \in Keys
  BY <1>1 DEF Keys
<1>3. CASE UNCHANGED key /\ (Goto(r, "401") \/ Goto(r, "500"))
  BY <1>3 DEF IInv, TypeOK, Keyed, PublicOnly, Authenticate, Goto, Stages, env
<1>4. CASE Goto(r, "query") /\ key' = [key EXCEPT ![r] = Digest(Presented(r))]
  BY <1>2, <1>4 DEF IInv, TypeOK, Keyed, PublicOnly, Authenticate, Goto, Stages, env
<1> QED BY <1>3, <1>4 DEF Authenticate

(* The lookup finds no row, so it never hands a user over. *)
LEMMA QueryInv == ASSUME IInv, NEW r \in Requests, Query(r) PROVE IInv'
<1>1. key[r] \in Keys
  BY DEF IInv, Keyed, Query
<1>2. \A row \in sessions : ~Live(key[r], row)
  BY <1>1, NoRow DEF IInv
<1>3. Goto(r, "401") /\ UNCHANGED <<user, env, call, scope, key>>
  BY <1>2 DEF Query
<1> QED BY <1>3 DEF IInv, TypeOK, Keyed, PublicOnly, Goto, Stages, env

(* A token is stored: its row holds the digest of the plaintext. *)
LEMMA IssueInv == ASSUME IInv, NEW t \in Tokens, NEW u \in Users, NEW sc \in TokenScopes,
                         Issue(t, u, sc)
                  PROVE  IInv'
<1>1. now + SessionTTL \in Nat
  BY AuthGateAssumption DEF IInv, TypeOK
<1>2. TypeOK'
  BY <1>1 DEF IInv, TypeOK, Issue, requests
<1> QED BY <1>2 DEF IInv, Keyed, PublicOnly, Issue, requests

(* Every step keeps the invariant. *)
LEMMA StepInv == IInv /\ [Next]_vars => IInv'
<1> SUFFICES ASSUME IInv, [Next]_vars PROVE IInv'
  OBVIOUS
<1>1. ASSUME NEW r \in Requests, Arrive(r) PROVE IInv'
  BY <1>1 DEF IInv, TypeOK, Keyed, PublicOnly, Arrive, Goto, Stages, env
<1>2. ASSUME NEW r \in Requests, QueryFails(r) PROVE IInv'
  BY <1>2 DEF IInv, TypeOK, Keyed, PublicOnly, QueryFails, Goto, Stages, env
<1>3. ASSUME NEW row \in sessions, Revoke(row) PROVE IInv'
  BY <1>3 DEF IInv, TypeOK, Keyed, PublicOnly, Revoke, requests
<1>4. CASE Tick
  BY <1>4 DEF IInv, TypeOK, Keyed, PublicOnly, Tick, requests
<1>5. CASE UNCHANGED vars
  BY <1>5 DEF IInv, TypeOK, Keyed, PublicOnly, vars, env, requests
<1> QED BY <1>1, <1>2, <1>3, <1>4, <1>5, RouteInv, AuthenticateInv, QueryInv, IssueInv DEF Next

(* Whatever is requested, in whatever order the scopes are registered: the  *)
(* gate keeps its types and no request ever passes a middleware.            *)
THEOREM GateCorrect == Spec => [](TypeOK /\ PublicOnly)
<1>1. IInv => TypeOK /\ PublicOnly
  BY DEF IInv
<1> QED BY <1>1, InitInv, StepInv, PTL DEF Spec

(* What run gate_all checks of the types, for every instance: above all, no *)
(* row of tokens ever holds the plaintext of a token.                       *)
THEOREM GateTypes == Spec => []TypeOK
<1>1. IInv => TypeOK
  BY DEF IInv
<1> QED BY <1>1, InitInv, StepInv, PTL DEF Spec

=============================================================================
