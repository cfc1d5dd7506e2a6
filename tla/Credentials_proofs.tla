------------------------- MODULE Credentials_proofs -------------------------
(***************************************************************************)
(* Proof that Accounts implements Credentials, for any number of addresses *)
(* and operations.                                                         *)
(***************************************************************************)
EXTENDS Accounts_proofs

(* What a handler writes as a password was handed to it. *)
Given ==
    \A o \in Ops : call[o].kind \in {"signup", "login", "reset", "setpw"} => call[o].pwd \in Passwords

(* Where there is a token there is a row, and who stores one has found it.  *)
RowFor ==
    /\ \A e \in Emails : account[e] = "none" => hash[e] = NoPassword
    /\ \A t \in tokens \cup known : account[call[t].email] # "none"
    /\ \A o \in Ops :
          /\ stage[o] = "store" => account[call[o].email] # "none"
          /\ At(o, "login", "verify") => seen[o] = NoPassword \/ account[call[o].email] # "none"
          /\ At(o, "request", "store") => account[call[o].email] = "active"

(* An activation deletes all activation tokens there are: no sign-up can    *)
(* add one between its DELETE and its commit.                               *)
DropsAll ==
    \A o \in Ops : At(o, "activate", "commit") => TokensOf(call[o].email, "activation") \subseteq drops[o]

CInv == IInv /\ Given /\ RowFor /\ DropsAll /\ ActivationUsesTokensUp

-----------------------------------------------------------------------------
(* The invariant *)

LEMMA InitCInv == Init => CInv
<1> SUFFICES ASSUME Init PROVE CInv
  OBVIOUS
<1>1. \A o \in Ops : stage[o] = "idle" /\ call[o] = NotCalled
  BY DEF Init
<1>2. NotCalled.kind = "none"
  BY DEF NotCalled
<1>3. Given /\ DropsAll
  BY <1>1, <1>2 DEF Given, DropsAll, At
<1>4. RowFor
  BY <1>1 DEF RowFor, At, Init
<1>5. ActivationUsesTokensUp
  BY DEF ActivationUsesTokensUp, TokensOf, Init
<1> QED BY <1>3, <1>4, <1>5, InitInv DEF CInv

(* A call hands a password over. *)
LEMMA GivenStep == ASSUME TypeOK, Called, Given, [Next]_vars PROVE Given'
<1>1. ASSUME NEW o \in Ops, Opens(o) PROVE Given'
  BY <1>1, OpenFrame DEF Given, Handed
<1>2. ASSUME NEW o \in Ops, Step(o) \/ Fails(o) PROVE Given'
  BY <1>2, StepFrame DEF Given
<1>3. ASSUME Beside PROVE Given'
  BY <1>3, BesideFrame DEF Given
<1> QED BY <1>1, <1>2, <1>3, NextCases

(* Rows are never deleted, nor made inactive again. *)
LEMMA RowsStay ==
    ASSUME TypeOK, Called, RowThere, [Next]_vars, NEW e \in Emails
    PROVE  /\ account[e] # "none" => account'[e] # "none"
           /\ account[e] = "active" => account'[e] = "active"
<1>1. ASSUME NEW o \in Ops, Step(o) \/ Fails(o), account'[e] # account[e]
      PROVE  account[e] # "active" /\ account'[e] # "none"
  <2>1. e = call[o].email /\ account'[e] # "none" /\ (SignupCommit(o) \/ ActivateCommit(o))
    BY <1>1, RowWrites
  <2>2. CASE SignupCommit(o)
    BY <2>1, <2>2 DEF SignupCommit, RowThere
  <2>3. CASE ActivateCommit(o)
    BY <1>1, <2>1, <2>3 DEF ActivateCommit, TypeOK
  <2> QED BY <2>1, <2>2, <2>3
<1> QED BY <1>1, NextCases, OpenFrame, BesideFrame

LEMMA RowForStep ==
    ASSUME TypeOK, Called, Storing, RowThere, Presented, Given, RowFor, [Next]_vars
    PROVE  RowFor'
<1> USE DEF At
<1>1. ASSUME NEW o \in Ops, Opens(o) PROVE RowFor'
  <2>1. /\ stage[o] = "idle" /\ stage'[o] \notin {"verify", "store"}
        /\ UNCHANGED <<account, hash, tokens, known, seen>>
        /\ \A q \in Ops : q # o => call'[q] = call[q] /\ stage'[q] = stage[q]
    BY <1>1, OpenFrame DEF Handed
  <2>2. \A t \in tokens \cup known : t \in Ops /\ t # o
    BY <2>1 DEF Called, TypeOK
  <2> QED BY <2>1, <2>2 DEF RowFor
<1>2. ASSUME NEW o \in Ops, Step(o) \/ Fails(o) PROVE RowFor'
  <2>1. /\ call' = call /\ call[o].email \in Emails
        /\ \A q \in Ops : q # o => stage'[q] = stage[q] /\ seen'[q] = seen[q]
        /\ \A q \in Ops : stage[q] # "idle" => call[q].email \in Emails
    BY <1>2, StepFrame DEF Called, InFlight
  <2>2. \A e \in Emails : /\ account[e] # "none" => account'[e] # "none"
                          /\ account[e] = "active" => account'[e] = "active"
    BY RowsStay
  <2>3. ASSUME NEW e \in Emails, account'[e] = "none" PROVE hash'[e] = NoPassword
    <3>1. account[e] = "none" /\ hash[e] = NoPassword
      BY <2>2, <2>3 DEF RowFor
    <3>2. SUFFICES ASSUME hash'[e] # hash[e] PROVE FALSE
      BY <3>1
    <3>3. e = call[o].email /\ (SignupCommit(o) \/ ResetCommit(o) \/ SetPasswordUpdate(o))
      BY <1>2, <3>2, RowWrites
    <3>4. CASE SignupCommit(o)
      BY <2>3, <3>3, <3>4 DEF SignupCommit, TypeOK
    <3>5. CASE ResetCommit(o) \/ SetPasswordUpdate(o)
      <4>1. call[o].tok \in known /\ call[call[o].tok].email = call[o].email
        BY <3>5 DEF ResetCommit, SetPasswordUpdate, Presented
      <4> QED BY <3>1, <3>3, <4>1 DEF RowFor
    <3> QED BY <3>3, <3>4, <3>5
  <2>4. ASSUME NEW t \in tokens' \cup known' PROVE account'[call[t].email] # "none"
    <3>1. CASE t \in tokens \cup known
      BY <2>1, <2>2, <3>1 DEF RowFor, Called, TypeOK
    <3>2. CASE t \notin tokens \cup known
      <4>0. /\ tokens' \subseteq tokens \cup {o} /\ known' \subseteq known \cup {o}
            /\ o \in tokens' /\ o \notin tokens => StoreToken(o) \/ SignupCommit(o)
            /\ o \in known' /\ o \notin known => stage'[o] = "done"
        BY <1>2, TokenWrites
      <4>1. t = o /\ (StoreToken(o) \/ SignupCommit(o) \/ (stage'[o] = "done" /\ o \in known'))
        BY <2>4, <3>2, <4>0
      <4>2. CASE StoreToken(o)
        BY <2>1, <2>2, <4>1, <4>2 DEF StoreToken, RowFor
      <4>3. CASE SignupCommit(o)
        BY <2>1, <4>1, <4>3 DEF SignupCommit, TypeOK
      <4>4. CASE stage'[o] = "done" /\ o \in known' /\ ~StoreToken(o)
        <5>1. known' = known
          BY <1>2, <4>4, Moves DEF ActivateCommit, Mail, ResetCommit, SetPasswordUpdate, LogoutDelete, tables
        <5> QED BY <3>2, <4>1, <4>4, <5>1
      <4> QED BY <4>1, <4>2, <4>3, <4>4
    <3> QED BY <3>1, <3>2
  <2>5. ASSUME stage'[o] = "store"
        PROVE  /\ account'[call[o].email] # "none"
               /\ call[o].kind = "request" => account'[call[o].email] = "active"
    <3>1. CASE LoginVerify(o)
      <4>1. seen[o] \in Passwords /\ call[o].kind = "login" /\ stage[o] = "verify"
        BY <2>5, <3>1 DEF LoginVerify, Goto, Given, TypeOK
      <4> QED BY <2>1, <2>2, <4>1, AccountsAssumption DEF RowFor
    <3>2. CASE RequestFind(o)
      BY <2>1, <2>2, <2>5, <3>2 DEF RequestFind, Goto, TypeOK
    <3>3. CASE GoogleFind(o)
      BY <2>1, <2>2, <2>5, <3>3 DEF GoogleFind, Goto, TypeOK
    <3> QED BY <1>2, <2>5, <3>1, <3>2, <3>3, Moves
  <2>6. ASSUME call[o].kind = "login", stage'[o] = "verify"
        PROVE  seen'[o] = NoPassword \/ account'[call[o].email] # "none"
    <3>1. LoginRead(o)
      BY <1>2, <2>6, Moves
    <3>2. seen'[o] = hash[call[o].email]
      BY <3>1 DEF LoginRead, TypeOK
    <3> QED BY <2>1, <2>2, <3>2 DEF RowFor
  <2>7. ASSUME NEW q \in Ops, q # o
        PROVE  /\ stage[q] = "store" => account'[call[q].email] # "none"
               /\ At(q, "login", "verify") => seen[q] = NoPassword \/ account'[call[q].email] # "none"
               /\ At(q, "request", "store") => account'[call[q].email] = "active"
    BY <2>1, <2>2 DEF RowFor
  <2> QED BY <2>1, <2>3, <2>4, <2>5, <2>6, <2>7 DEF RowFor
<1>3. ASSUME Beside PROVE RowFor'
  <2>1. UNCHANGED <<call, stage, seen, account, hash, tokens>>
    BY <1>3, BesideFrame
  <2>2. \A t \in known' : t \in known \/ \E d \in Ops : t = d /\ Deliver(d)
    BY <1>3 DEF Beside, Deliver, Tick, vars
  <2>3. ASSUME NEW d \in Ops, Deliver(d) PROVE account[call[d].email] # "none"
    BY <2>3 DEF Deliver, Scope, RowThere
  <2> QED BY <2>1, <2>2, <2>3 DEF RowFor
<1> QED BY <1>1, <1>2, <1>3, NextCases

LEMMA DropsAllStep ==
    ASSUME TypeOK, Called, Storing, RowThere, Presented, RowFor, DropsAll, [Next]_vars
    PROVE  DropsAll'
<1> USE DEF At
<1>1. ASSUME NEW o \in Ops, Opens(o) PROVE DropsAll'
  <2>1. /\ stage[o] = "idle" /\ stage'[o] # "commit" /\ UNCHANGED <<tokens, drops>>
        /\ \A q \in Ops : q # o => call'[q] = call[q] /\ stage'[q] = stage[q]
    BY <1>1, OpenFrame DEF Handed
  <2>2. \A t \in tokens : t \in Ops /\ t # o
    BY <2>1 DEF Called, TypeOK
  <2> QED BY <2>1, <2>2 DEF DropsAll, TokensOf, Scope
<1>2. ASSUME NEW o \in Ops, Step(o) \/ Fails(o) PROVE DropsAll'
  <2>1. /\ call' = call /\ tokens' \subseteq tokens \cup {o}
        /\ \A q \in Ops : q # o => stage'[q] = stage[q] /\ drops'[q] = drops[q]
    BY <1>2, StepFrame, TokenWrites
  <2>2. ASSUME NEW q \in Ops, q # o, At(q, "activate", "commit")
        PROVE  TokensOf(call[q].email, "activation")' \subseteq drops[q]
    <3>1. SUFFICES ASSUME o \in tokens', o \notin tokens, call[o].email = call[q].email,
                          Scope(o) = "activation"
                   PROVE  FALSE
      BY <2>1, <2>2 DEF DropsAll, TokensOf, Scope
    <3>2. StoreToken(o) \/ SignupCommit(o)
      BY <1>2, <3>1, TokenWrites
    <3>3. ~StoreToken(o)
      BY <3>1 DEF StoreToken, Scope, Storing
    <3>4. account[call[o].email] = "none"
      BY <3>2, <3>3 DEF SignupCommit, RowThere
    <3>5. call[q].tok \in known /\ call[call[q].tok].email = call[q].email
      BY <2>2 DEF Presented
    <3> QED BY <3>1, <3>4, <3>5 DEF RowFor
  <2>3. ASSUME call[o].kind = "activate", stage'[o] = "commit"
        PROVE  TokensOf(call[o].email, "activation")' \subseteq drops'[o]
    <3>1. UpdateRow(o)
      BY <1>2, <2>3, Moves DEF SignupInsert
    <3>2. drops'[o] = TokensOf(call[o].email, "activation") /\ tokens' = tokens
      BY <2>3, <3>1 DEF UpdateRow, TypeOK, tables
    <3> QED BY <2>1, <3>2 DEF TokensOf, Scope
  <2> QED BY <2>1, <2>2, <2>3 DEF DropsAll
<1>3. ASSUME Beside PROVE DropsAll'
  BY <1>3, BesideFrame DEF DropsAll, TokensOf, Scope
<1> QED BY <1>1, <1>2, <1>3, NextCases

LEMMA UsedUpStep ==
    ASSUME TypeOK, Called, Storing, DropsAll, ActivationUsesTokensUp, [Next]_vars
    PROVE  ActivationUsesTokensUp'
<1> USE DEF ActivationUsesTokensUp, TokensOf
<1>1. ASSUME NEW o \in Ops, Opens(o) PROVE ActivationUsesTokensUp'
  <2>1. /\ stage[o] = "idle" /\ UNCHANGED <<account, tokens>>
        /\ \A q \in Ops : q # o => call'[q] = call[q]
    BY <1>1, OpenFrame
  <2>2. \A t \in tokens : t \in Ops /\ t # o
    BY <2>1 DEF Called, TypeOK
  <2> QED BY <2>1, <2>2 DEF Scope
<1>2. ASSUME NEW o \in Ops, Step(o) \/ Fails(o) PROVE ActivationUsesTokensUp'
  <2>1. call' = call /\ tokens' \subseteq tokens \cup {o}
    BY <1>2, StepFrame, TokenWrites
  <2>2. ASSUME NEW e \in Emails, account'[e] = "active",
               NEW t \in tokens', call[t].email = e, Scope(t) = "activation"
        PROVE  FALSE
    <3>1. CASE account'[e] = account[e]
      <4>1. t = o /\ o \notin tokens
        BY <2>1, <2>2, <3>1
      <4>2. SignupCommit(o)
        BY <1>2, <2>2, <4>1, TokenWrites DEF StoreToken, Scope, Storing
      <4> QED BY <2>2, <4>1, <4>2 DEF SignupCommit, TypeOK
    <3>2. CASE account'[e] # account[e]
      <4>1. e = call[o].email /\ (SignupCommit(o) \/ ActivateCommit(o))
        BY <1>2, <3>2, RowWrites
      <4>2. ~SignupCommit(o)
        BY <2>2, <4>1 DEF SignupCommit, TypeOK
      <4>3. tokens' = tokens \ drops[o] /\ TokensOf(e, "activation") \subseteq drops[o]
        BY <4>1, <4>2 DEF ActivateCommit, DropsAll
      <4> QED BY <2>2, <4>3
    <3> QED BY <3>1, <3>2
  <2> QED BY <2>1, <2>2 DEF Scope
<1>3. ASSUME Beside PROVE ActivationUsesTokensUp'
  BY <1>3, BesideFrame DEF Scope
<1> QED BY <1>1, <1>2, <1>3, NextCases

(* The invariant of the mapping holds in every reachable state. *)
THEOREM CredentialsInvariant == Spec => []CInv
<1>1. CInv /\ [Next]_vars => CInv'
  BY StepInv, GivenStep, RowForStep, DropsAllStep, UsedUpStep DEF CInv, IInv
<1> QED BY <1>1, InitCInv, PTL DEF Spec

(* For any number of racing handlers: an active account has no activation   *)
(* token (update_user_activation_status, delete_token).                     *)
THEOREM ActivationTokensAreUsedUp == Spec => []ActivationUsesTokensUp
<1>1. CInv => ActivationUsesTokensUp
  BY DEF CInv
<1> QED BY <1>1, CredentialsInvariant, PTL

-----------------------------------------------------------------------------
(* The mapping *)

(* A credential is named by its id, and a use by its operation. *)
LEMMA Named ==
    /\ \A s, t : Cred(s) = Cred(t) => s = t
    /\ \A p, q : UseOf(p) = UseOf(q) => p = q
<1>1. \A t : Cred(t).id = t
  BY DEF Cred
<1>2. \A q : UseOf(q).by = q
  BY DEF UseOf
<1> QED BY <1>1, <1>2

(* What was issued and what was presented stays what it is. *)
LEMMA MapStays ==
    ASSUME IInv, [Next]_vars
    PROVE  /\ \A t \in tokens \cup known : t \in Ops /\ Cred(t)' = Cred(t)
           /\ \A q \in Opened : UseOf(q)' = UseOf(q) /\ call[q].tok \in known
<1>1. \A t \in tokens \cup known : t \in Ops /\ stage[t] # "idle"
  BY DEF IInv, TypeOK, Called
<1>2. \A q \in Ops : stage[q] # "idle" => call'[q] = call[q] /\ Scope(q)' = Scope(q)
  BY Stable DEF IInv
<1>3. \A t \in tokens \cup known : t \in Ops /\ Cred(t)' = Cred(t)
  BY <1>1, <1>2 DEF Cred
<1>4. ASSUME NEW q \in Opened PROVE UseOf(q)' = UseOf(q) /\ call[q].tok \in known
  <2>1. q \in Ops /\ stage[q] # "idle" /\ call[q].tok \in known
    BY DEF Opened, IInv, Presented
  <2>2. call'[q] = call[q] /\ Cred(call[q].tok)' = Cred(call[q].tok)
    BY <1>2, <1>3, <2>1
  <2> QED BY <2>1, <2>2 DEF UseOf
<1> QED BY <1>3, <1>4

(* A step of o uses o's id, if any, and presents or closes o's use, if any. *)
LEMMA OwnUse ==
    ASSUME IInv, [Next]_vars, NEW o \in Ops,
           \A q \in Ops : q # o => call'[q] = call[q] /\ stage'[q] = stage[q]
    PROVE  /\ (o \in Fresh <=> o \in Fresh') => Fresh' = Fresh
           /\ o \in Fresh /\ o \notin Fresh' => Fresh' = Fresh \ {o}
           /\ (o \in Opened <=> o \in Opened') => Uses' = Uses
           /\ o \in Opened /\ o \notin Opened' => Uses' = Uses \ {UseOf(o)}
           /\ o \notin Opened /\ o \in Opened' => Uses' = Uses \cup {UseOf(o)'}
<1>1. \A q \in Ops : q # o => (q \in Fresh' <=> q \in Fresh) /\ (q \in Opened' <=> q \in Opened)
  BY DEF Fresh, Opened, At
<1>2. Fresh \subseteq Ops /\ Fresh' \subseteq Ops /\ Opened \subseteq Ops /\ Opened' \subseteq Ops
  BY DEF Fresh, Opened
<1>3. \A q \in Opened : UseOf(q)' = UseOf(q)
  BY MapStays
<1>4. Uses = {UseOf(q) : q \in Opened} /\ Uses' = {UseOf(q)' : q \in Opened'}
  BY DEF Uses
<1>5. (o \in Opened <=> o \in Opened') => Uses' = Uses
  <2> SUFFICES ASSUME o \in Opened <=> o \in Opened' PROVE Uses' = Uses
    OBVIOUS
  <2>1. Opened' = Opened
    BY <1>1, <1>2
  <2> QED BY <1>3, <1>4, <2>1
<1>6. ASSUME o \in Opened, o \notin Opened' PROVE Uses' = Uses \ {UseOf(o)}
  <2>1. Opened' = Opened \ {o}
    BY <1>1, <1>2, <1>6
  <2> QED BY <1>3, <1>4, <2>1, Named
<1>7. ASSUME o \notin Opened, o \in Opened' PROVE Uses' = Uses \cup {UseOf(o)'}
  <2>1. Opened' = Opened \cup {o}
    BY <1>1, <1>2, <1>7
  <2> QED BY <1>3, <1>4, <2>1
<1> QED BY <1>1, <1>2, <1>5, <1>6, <1>7

(* Tokens and credentials come and go together. *)
LEMMA SameTokens ==
    ASSUME IInv, [Next]_vars, tokens' = tokens, known' = known
    PROVE  Valid' = Valid /\ Held' = Held
BY MapStays DEF Valid, Held

LEMMA FewerTokens ==
    ASSUME IInv, [Next]_vars, NEW D, tokens' = tokens \ D, known' = known
    PROVE  CR!Revoke({Cred(t) : t \in tokens \cap D})
<1>1. Valid = {Cred(t) : t \in tokens} /\ Held = {Cred(t) : t \in tokens \cap known}
  BY DEF Valid, Held
<1>2. Valid' = {Cred(t) : t \in tokens \ D} /\ Held' = {Cred(t) : t \in (tokens \ D) \cap known}
  BY MapStays DEF Valid, Held
<1> QED BY <1>1, <1>2, Named DEF CR!Revoke

LEMMA OneMoreToken ==
    ASSUME IInv, [Next]_vars, NEW o \in Ops, call'[o] = call[o], tokens' = tokens \cup {o}
    PROVE  /\ Valid' = Valid \cup {Cred(o)}
           /\ o \notin known /\ known' = known => Held' = Held
           /\ known' = known \cup {o} => Held' = Held \cup {Cred(o)}
<1>1. Cred(o)' = Cred(o)
  BY DEF Cred, Scope
<1> QED BY <1>1, MapStays DEF Valid, Held

-----------------------------------------------------------------------------
(* The steps *)

LEMMA InitMaps == Init => CR!Init
<1> SUFFICES ASSUME Init PROVE CR!Init
  OBVIOUS
<1>1. \A o \in Ops : stage[o] = "idle"
  BY DEF Init
<1>2. Valid = {} /\ Held = {} /\ Fresh = Ops /\ Uses = {}
  BY <1>1 DEF Init, Valid, Held, Fresh, Uses, Opened
<1> QED BY <1>2 DEF Init, CR!Init

(* A call uses its id up when it is refused at once; behind a middleware it *)
(* presents a session.                                                      *)
LEMMA OpensMap ==
    ASSUME CInv, [Next]_vars, NEW o \in Ops, Opens(o)
    PROVE  [CR!Next]_(CR!vars)
<1> USE DEF CInv
<1>1. /\ stage[o] = "idle"
      /\ \A q \in Ops : q # o => call'[q] = call[q] /\ stage'[q] = stage[q]
      /\ Handed(call'[o].kind, stage'[o], call'[o].email, call'[o].pwd, call'[o].tok)
      /\ UNCHANGED <<account, hash, tokens, known>>
  BY OpenFrame DEF IInv
<1>2. Valid' = Valid /\ Held' = Held
  BY <1>1, SameTokens
<1>3. o \in Fresh /\ o \notin Opened
  BY <1>1 DEF Fresh, Opened
<1>4. CASE stage'[o] \in {"insert", "find", "read"}
  <2>1. o \in Fresh' /\ o \notin Opened'
    BY <1>4 DEF Fresh, Opened
  <2> QED BY <1>1, <1>2, <1>3, <2>1, OwnUse DEF CR!vars
<1>5. CASE stage'[o] = "refused"
  <2>1. o \notin Fresh' /\ o \notin Opened'
    BY <1>5 DEF Fresh, Opened, At
  <2>2. Fresh' = Fresh \ {o} /\ Uses' = Uses
    BY <1>1, <1>3, <2>1, OwnUse
  <2>3. CR!Discard(o)
    BY <1>1, <1>2, <2>2 DEF CR!Discard
  <2> QED BY <1>3, <2>3 DEF CR!Next
<1>6. CASE stage'[o] = "update"
  <2>0. PICK t, kind : t = call'[o].tok /\ kind = call'[o].kind
    OBVIOUS
  <2>1. kind \in {"setpw", "logout"} /\ t \in tokens /\ t \in known /\ Scope(t) = "authentication"
    BY <1>1, <1>6, <2>0 DEF Handed
  <2>2. o \notin Fresh' /\ o \in Opened'
    BY <1>6, <2>0, <2>1 DEF Fresh, Opened, At
  <2>3. Cred(t)' = Cred(t) /\ Cred(t) \in Held /\ Cred(t).scope = "authentication"
    BY <2>1, MapStays DEF Held, Cred
  <2>4. UseOf(o)' = CR!Use(o, Cred(t), kind)
    BY <2>0, <2>3 DEF UseOf, Cred, Scope, CR!Use
  <2>5. Fresh' = Fresh \ {o} /\ Uses' = Uses \cup {UseOf(o)'}
    BY <1>1, <1>3, <2>2, OwnUse
  <2>6. CR!Present(o, Cred(t), kind)
    BY <1>1, <1>2, <1>3, <2>1, <2>3, <2>4, <2>5 DEF CR!Present, CR!Serves
  <2> QED BY <1>3, <2>1, <2>3, <2>6 DEF CR!Next
<1> QED BY <1>1, <1>4, <1>5, <1>6 DEF Handed

(* What holds of every step of a handler. *)
LEMMA StepMap ==
    ASSUME CInv, [Next]_vars, NEW o \in Ops, Step(o) \/ Fails(o)
    PROVE  /\ call' = call /\ call[o].email \in Emails /\ stage[o] \in InFlight
           /\ \A q \in Ops : q # o => call'[q] = call[q] /\ stage'[q] = stage[q]
           /\ o \in Opened => /\ call[o].tok \in known
                              /\ Cred(call[o].tok).user = call[o].email
                              /\ account[call[o].email] # "none"
                              /\ UseOf(o) \in Uses
           /\ UseOf(o)' = UseOf(o)
<1>1. /\ call' = call /\ stage[o] \in InFlight
      /\ \A q \in Ops : q # o => stage'[q] = stage[q]
  BY StepFrame DEF CInv, IInv
<1>2. call[o].email \in Emails
  BY <1>1 DEF CInv, IInv, Called, InFlight
<1>3. o \in Opened => /\ call[o].tok \in known
                     /\ Cred(call[o].tok).user = call[o].email
                     /\ account[call[o].email] # "none"
                     /\ UseOf(o) \in Uses
  BY DEF Opened, Uses, CInv, IInv, Presented, RowFor, Cred
<1>4. UseOf(o)' = UseOf(o)
  BY <1>1 DEF UseOf, Cred, Scope
<1> QED BY <1>1, <1>2, <1>3, <1>4

(* INSERT INTO users and its token, committed: SignUp. *)
LEMMA SignupCommitMaps ==
    ASSUME CInv, [Next]_vars, NEW o \in Ops, SignupCommit(o)
    PROVE  CR!Next
<1> DEFINE e == call[o].email
<1> USE DEF CInv
<1>0. Step(o)
  BY DEF Step
<1>1. /\ call[o].kind = "signup" /\ stage[o] = "commit" /\ stage'[o] \in {"mail", "error"}
      /\ account' = [account EXCEPT ![e] = "inactive"] /\ hash' = [hash EXCEPT ![e] = call[o].pwd]
      /\ tokens' = tokens \cup {o} /\ known' = known
  BY DEF SignupCommit, At, Goto, IInv, TypeOK
<1>2. e \in Emails /\ account[e] = "none" /\ call[o].pwd \in Passwords
  BY <1>0, <1>1, StepMap DEF IInv, RowThere, At, Given
<1>3. o \in Fresh /\ o \notin Fresh' /\ o \notin Opened /\ o \notin Opened'
  BY <1>0, <1>1, StepMap DEF Fresh, Opened, At
<1>4. Fresh' = Fresh \ {o} /\ Uses' = Uses
  BY <1>0, <1>3, StepMap, OwnUse
<1>5. o \notin known
  BY <1>1 DEF IInv, Called
<1>6. Valid' = Valid \cup {Cred(o)} /\ Held' = Held
  BY <1>0, <1>1, <1>5, StepMap, OneMoreToken
<1>7. Cred(o) = CR!Credential(o, e, "activation")
  BY <1>1 DEF Cred, CR!Credential, Scope
<1>8. CR!SignUp(e, call[o].pwd, o)
  BY <1>1, <1>2, <1>3, <1>4, <1>6, <1>7 DEF CR!SignUp
<1> QED BY <1>2, <1>3, <1>8 DEF CR!Next

(* insert_token, committed: Issue. *)
LEMMA StoreTokenMaps ==
    ASSUME CInv, [Next]_vars, NEW o \in Ops, StoreToken(o)
    PROVE  CR!Next
<1> DEFINE e == call[o].email
<1> USE DEF CInv
<1>0. Step(o)
  BY DEF Step
<1>1. /\ stage[o] = "store" /\ stage'[o] \in {"mail", "done", "error"}
      /\ UNCHANGED <<account, hash>> /\ tokens' = tokens \cup {o}
      /\ known' = known \/ (call[o].kind = "google" /\ known' = known \cup {o})
  BY DEF StoreToken, IInv, TypeOK
<1>2. call[o].kind \in {"login", "request", "google"}
  BY <1>1 DEF IInv, Storing
<1>3. /\ e \in Emails /\ account[e] # "none"
      /\ call[o].kind = "request" => account[e] = "active"
  BY <1>0, <1>1, StepMap DEF RowFor, At
<1>4. o \in Fresh /\ o \notin Fresh' /\ o \notin Opened /\ o \notin Opened'
  BY <1>0, <1>1, StepMap DEF Fresh, Opened, At
<1>5. Fresh' = Fresh \ {o} /\ Uses' = Uses
  BY <1>0, <1>4, StepMap, OwnUse
<1>6. o \notin known
  BY <1>1 DEF IInv, Called
<1>7. /\ Cred(o) = CR!Credential(o, e, Scope(o)) /\ Cred(o).id = o /\ Cred(o).user = e
      /\ Cred(o).scope = Scope(o)
  BY DEF Cred, CR!Credential
<1>8. /\ Scope(o) \in {"authentication", "password-reset"}
      /\ Scope(o) = "password-reset" => call[o].kind = "request"
      /\ call[o].kind = "google" => Scope(o) = "authentication"
  BY <1>2 DEF Scope
<1>9. /\ Valid' = Valid \cup {Cred(o)}
      /\ Held' = Held \/ (Scope(o) = "authentication" /\ Held' = Held \cup {Cred(o)})
  BY <1>0, <1>1, <1>6, <1>8, StepMap, OneMoreToken
<1>10. CR!Issue(Cred(o))
  BY <1>1, <1>3, <1>4, <1>5, <1>7, <1>8, <1>9 DEF CR!Issue
<1> QED BY <1>3, <1>4, <1>7, <1>8, <1>10 DEF CR!Next, CR!Scopes

(* A token that is looked up and found is presented. *)
LEMMA FindMaps ==
    ASSUME CInv, [Next]_vars, NEW o \in Ops, ActivateFind(o) \/ ResetFind(o), stage'[o] = "update"
    PROVE  CR!Next
<1> DEFINE t == call[o].tok
           kind == call[o].kind
<1> USE DEF CInv
<1>0. Step(o)
  BY DEF Step
<1>1. /\ stage[o] = "find" /\ kind \in {"activate", "reset"}
      /\ UNCHANGED <<account, hash, tokens, known>>
      /\ t \in tokens
      /\ kind = "reset" => Scope(t) = "password-reset"
  BY DEF ActivateFind, ResetFind, At, Goto, tables, IInv, TypeOK
<1>2. t \in known
  BY <1>1 DEF IInv, Presented
<1>3. o \in Fresh /\ o \notin Fresh' /\ o \notin Opened /\ o \in Opened'
  BY <1>0, <1>1, StepMap DEF Fresh, Opened, At
<1>4. Fresh' = Fresh \ {o} /\ Uses' = Uses \cup {UseOf(o)}
  BY <1>0, <1>3, StepMap, OwnUse
<1>5. Valid' = Valid /\ Held' = Held
  BY <1>1, SameTokens
<1>6. /\ UseOf(o) = CR!Use(o, Cred(t), kind) /\ Cred(t) \in Held /\ Cred(t).scope = Scope(t)
  BY <1>1, <1>2 DEF UseOf, CR!Use, Held, Cred
<1>7. CR!Present(o, Cred(t), kind)
  BY <1>1, <1>3, <1>4, <1>5, <1>6 DEF CR!Present, CR!Serves
<1> QED BY <1>1, <1>3, <1>6, <1>7 DEF CR!Next

LEMMA OfTokens ==
    ASSUME NEW e, NEW scope
    PROVE  CR!Of(e, scope) = {Cred(t) : t \in TokensOf(e, scope)}
<1>1. \A t : Cred(t).user = call[t].email /\ Cred(t).scope = Scope(t)
  BY DEF Cred
<1> QED BY <1>1 DEF CR!Of, Valid, TokensOf

(* What has its effect: o's use is closed, and its user has a row. *)
LEMMA UseEnds ==
    ASSUME CInv, [Next]_vars, NEW o \in Opened, Step(o) \/ Fails(o), stage'[o] \in Ended
    PROVE  /\ UseOf(o) \in Uses /\ Uses' = Uses \ {UseOf(o)} /\ Fresh' = Fresh
           /\ UseOf(o).purpose = call[o].kind /\ UseOf(o).cred = Cred(call[o].tok)
           /\ UseOf(o).cred.user = call[o].email /\ account[UseOf(o).cred.user] # "none"
<1>1. o \in Ops /\ stage[o] \in {"update", "commit"} /\ call[o].kind \in {"activate", "reset", "setpw", "logout"}
  BY DEF Opened
<1>2. o \notin Opened' /\ o \notin Fresh /\ o \notin Fresh'
  BY <1>1, StepMap DEF Opened, Fresh, At, Ended
<1>3. UseOf(o).purpose = call[o].kind /\ UseOf(o).cred = Cred(call[o].tok)
  BY DEF UseOf
<1> QED BY <1>1, <1>2, <1>3, StepMap, OwnUse DEF CInv

(* The commit of an activation. *)
LEMMA ActivateCommitMaps ==
    ASSUME CInv, [Next]_vars, NEW o \in Ops, ActivateCommit(o)
    PROVE  CR!Next
<1> DEFINE e == call[o].email
           u == UseOf(o)
<1> USE DEF CInv
<1>1. /\ call[o].kind = "activate" /\ stage[o] = "commit" /\ stage'[o] \in Ended
      /\ account' = [account EXCEPT ![e] = "active"] /\ tokens' = tokens \ drops[o]
      /\ UNCHANGED <<hash, known>>
  BY DEF ActivateCommit, At, Goto, IInv, TypeOK, Ended
<1>2. o \in Opened /\ Step(o)
  BY <1>1 DEF Opened, Step
<1>3. /\ u \in Uses /\ Uses' = Uses \ {u} /\ Fresh' = Fresh /\ u.purpose = "activate"
      /\ u.cred.user = e /\ account[e] # "none"
  BY <1>1, <1>2, UseEnds
<1>4. tokens \cap drops[o] = TokensOf(e, "activation")
  BY <1>1 DEF IInv, DropsSound, DropScope, DropsAll, TokensOf, At
<1>5. CR!Revoke(CR!Of(e, "activation"))
  BY <1>1, <1>4, FewerTokens, OfTokens
<1>6. CR!Activate(u)
  BY <1>1, <1>3, <1>5 DEF CR!Activate
<1> QED BY <1>3, <1>6 DEF CR!Next, CR!Perform

(* The commit of a reset. *)
LEMMA ResetCommitMaps ==
    ASSUME CInv, [Next]_vars, NEW o \in Ops, ResetCommit(o)
    PROVE  CR!Next
<1> DEFINE e == call[o].email
           u == UseOf(o)
           C == {Cred(t) : t \in tokens \cap drops[o]}
<1> USE DEF CInv
<1>1. /\ call[o].kind = "reset" /\ stage[o] = "commit" /\ stage'[o] \in Ended
      /\ hash' = [hash EXCEPT ![e] = call[o].pwd] /\ tokens' = tokens \ drops[o]
      /\ UNCHANGED <<account, known>>
  BY DEF ResetCommit, At, Goto, IInv, TypeOK, Ended
<1>2. o \in Opened /\ Step(o)
  BY <1>1 DEF Opened, Step
<1>3. /\ u \in Uses /\ Uses' = Uses \ {u} /\ Fresh' = Fresh /\ u.purpose = "reset"
      /\ u.cred = Cred(call[o].tok) /\ u.cred.user = e /\ account[e] # "none"
  BY <1>1, <1>2, UseEnds
<1>4. tokens \cap drops[o] \subseteq TokensOf(e, "password-reset")
  BY <1>1 DEF IInv, DropsSound, DropScope, TokensOf
<1>5. C \in SUBSET CR!Of(e, "password-reset")
  BY <1>4, OfTokens
<1>6. u.cred \notin Valid \ C
  BY <1>1, <1>3, Named DEF Valid, IInv, ResetGone
<1>7. CR!Revoke(C)
  BY <1>1, FewerTokens
<1>8. call[o].pwd \in Passwords \cup {Garbage}
  BY <1>1 DEF Given
<1> HIDE DEF C
<1>9. CR!Reset(u)
  BY <1>1, <1>3, <1>5, <1>6, <1>7, <1>8 DEF CR!Reset
<1> QED BY <1>3, <1>9 DEF CR!Next, CR!Perform

(* The UPDATE of set_password. *)
LEMMA SetPasswordMaps ==
    ASSUME CInv, [Next]_vars, NEW o \in Ops, SetPasswordUpdate(o)
    PROVE  CR!Next
<1> DEFINE e == call[o].email
           u == UseOf(o)
<1>1. /\ call[o].kind = "setpw" /\ stage[o] = "update" /\ stage'[o] \in Ended
      /\ hash' = [hash EXCEPT ![e] = Garbage]
      /\ UNCHANGED <<account, tokens, known>>
  BY DEF SetPasswordUpdate, At, Goto, CInv, IInv, TypeOK, Ended
<1>2. o \in Opened /\ Step(o)
  BY <1>1 DEF Opened, Step
<1>3. /\ u \in Uses /\ Uses' = Uses \ {u} /\ Fresh' = Fresh /\ u.purpose = "setpw"
      /\ u.cred.user = e /\ account[e] # "none"
  BY <1>1, <1>2, UseEnds
<1>4. Valid' = Valid /\ Held' = Held
  BY <1>1, SameTokens DEF CInv
<1>5. CR!SetPassword(u)
  BY <1>1, <1>3, <1>4 DEF CR!SetPassword
<1> QED BY <1>3, <1>5 DEF CR!Next, CR!Perform

(* The DELETE of a logout. *)
LEMMA LogoutMaps ==
    ASSUME CInv, [Next]_vars, NEW o \in Ops, LogoutDelete(o)
    PROVE  CR!Next
<1> DEFINE e == call[o].email
           t == call[o].tok
           u == UseOf(o)
<1> USE DEF CInv
<1>1. /\ call[o].kind = "logout" /\ stage[o] = "update" /\ stage'[o] \in Ended
      /\ tokens' = tokens \ ({t} \cap TokensOf(e, "authentication"))
      /\ UNCHANGED <<account, hash, known>>
  BY DEF LogoutDelete, At, Goto, IInv, TypeOK, Ended
<1>2. o \in Opened /\ Step(o)
  BY <1>1 DEF Opened, Step
<1>3. /\ u \in Uses /\ Uses' = Uses \ {u} /\ Fresh' = Fresh /\ u.purpose = "logout"
      /\ u.cred = Cred(t) /\ u.cred.user = e /\ account[e] # "none"
  BY <1>1, <1>2, UseEnds
<1>4. call[t].email = e /\ Scope(t) = "authentication"
  BY <1>1 DEF IInv, Presented
<1>5. tokens' = tokens \ {t}
  BY <1>1, <1>4 DEF TokensOf
<1>6. CR!Revoke({Cred(s) : s \in tokens \cap {t}})
  BY <1>1, <1>5, FewerTokens
<1>7. CR!Revoke({Cred(t)})
  <2>1. CASE t \in tokens
    <3>1. {Cred(s) : s \in tokens \cap {t}} = {Cred(t)}
      BY <2>1
    <3> QED BY <1>6, <3>1
  <2>2. CASE t \notin tokens
    <3>1. {Cred(s) : s \in tokens \cap {t}} = {}
      BY <2>2
    <3>2. Cred(t) \notin Valid /\ Cred(t) \notin Held
      BY <2>2, Named DEF Valid, Held
    <3> QED BY <1>6, <3>1, <3>2 DEF CR!Revoke
  <2> QED BY <2>1, <2>2
<1>8. CR!Logout(u)
  BY <1>1, <1>3, <1>7 DEF CR!Logout
<1> QED BY <1>3, <1>8 DEF CR!Next, CR!Perform

(* All other steps, and every failure: nothing happens, or an id or a use   *)
(* comes to nothing.                                                        *)
LEMMA QuietMaps ==
    ASSUME CInv, [Next]_vars, NEW o \in Ops, Step(o) \/ Fails(o),
           UNCHANGED <<account, hash, tokens, known>>,
           o \in Fresh' => o \in Fresh, o \in Opened' => o \in Opened
    PROVE  [CR!Next]_(CR!vars)
<1>1. Valid' = Valid /\ Held' = Held
  BY SameTokens DEF CInv
<1>2. ~(o \in Fresh /\ o \in Opened)
  BY DEF Fresh, Opened, At
<1>3. CASE o \in Fresh /\ o \notin Fresh'
  <2>1. Fresh' = Fresh \ {o} /\ Uses' = Uses
    BY <1>2, <1>3, StepMap, OwnUse DEF CInv
  <2> QED BY <1>1, <1>3, <2>1 DEF CR!Next, CR!Discard
<1>4. CASE o \in Opened /\ o \notin Opened'
  <2>1. Fresh' = Fresh /\ Uses' = Uses \ {UseOf(o)} /\ UseOf(o) \in Uses
    BY <1>2, <1>4, StepMap, OwnUse DEF CInv
  <2> QED BY <1>1, <2>1 DEF CR!Next, CR!Abandon
<1>5. CASE (o \in Fresh <=> o \in Fresh') /\ (o \in Opened <=> o \in Opened')
  <2>1. Fresh' = Fresh /\ Uses' = Uses
    BY <1>5, StepMap, OwnUse DEF CInv
  <2> QED BY <1>1, <2>1 DEF CR!vars
<1> QED BY <1>3, <1>4, <1>5

LEMMA StepMaps ==
    ASSUME CInv, [Next]_vars, NEW o \in Ops, Step(o) \/ Fails(o)
    PROVE  [CR!Next]_(CR!vars)
<1> USE DEF At, Goto, tables
<1>0. stage \in [Ops -> InFlight \cup Ended \cup {"idle"}] /\ call' = call
  BY StepMap DEF CInv, IInv, TypeOK
<1>1. CASE SignupCommit(o) \/ StoreToken(o) \/ ActivateCommit(o) \/ ResetCommit(o)
           \/ SetPasswordUpdate(o) \/ LogoutDelete(o)
  BY <1>1, SignupCommitMaps, StoreTokenMaps, ActivateCommitMaps, ResetCommitMaps, SetPasswordMaps, LogoutMaps
<1>2. CASE ActivateFind(o) \/ ResetFind(o)
  <2>1. CASE stage'[o] = "update"
    BY <1>2, <2>1, FindMaps
  <2>2. CASE stage'[o] # "update"
    <3>1. UNCHANGED <<account, hash, tokens, known>> /\ stage'[o] = "refused"
      BY <1>0, <1>2, <2>2 DEF ActivateFind, ResetFind
    <3>2. o \notin Fresh' /\ o \notin Opened'
      BY <3>1 DEF Fresh, Opened
    <3> QED BY <3>1, <3>2, QuietMaps
  <2> QED BY <2>1, <2>2
<1>3. CASE SignupInsert(o) \/ LoginRead(o) \/ LoginVerify(o) \/ RequestFind(o) \/ GoogleFind(o)
  <2>1. /\ UNCHANGED <<account, hash, tokens, known>>
        /\ stage[o] \in {"insert", "find", "read", "verify"}
        /\ call[o].kind \in {"signup", "login", "request", "google"}
    BY <1>3 DEF SignupInsert, LoginRead, LoginVerify, RequestFind, GoogleFind
  <2>2. o \in Fresh /\ o \notin Opened'
    BY <1>0, <2>1 DEF Fresh, Opened
  <2> QED BY <2>1, <2>2, QuietMaps
<1>4. CASE UpdateRow(o)
  <2>1. /\ UNCHANGED <<account, hash, tokens, known>>
        /\ stage[o] = "update" /\ stage'[o] = "commit" /\ call[o].kind \in {"activate", "reset"}
    BY <1>0, <1>4 DEF UpdateRow
  <2>2. o \notin Fresh' /\ o \in Opened
    BY <1>0, <2>1 DEF Fresh, Opened
  <2> QED BY <2>1, <2>2, QuietMaps
<1>5. CASE Mail(o) \/ Fails(o)
  <2>1. UNCHANGED <<account, hash, tokens, known>> /\ stage'[o] \in Ended
    BY <1>0, <1>5 DEF Mail, Fails, Ended
  <2>2. o \notin Fresh' /\ o \notin Opened'
    BY <2>1 DEF Fresh, Opened, Ended
  <2> QED BY <2>1, <2>2, QuietMaps
<1> QED BY <1>1, <1>2, <1>3, <1>4, <1>5 DEF Step

(* A mail arrives, or nothing happens to the tables. *)
LEMMA BesideMaps ==
    ASSUME CInv, [Next]_vars, Beside
    PROVE  [CR!Next]_(CR!vars)
<1>1. UNCHANGED <<call, stage, account, hash, tokens>>
  BY BesideFrame
<1>2. Fresh' = Fresh /\ Uses' = Uses
  BY <1>1 DEF Fresh, Uses, Opened, UseOf, Cred, Scope, At
<1>3. CASE known' = known
  <2>1. Valid' = Valid /\ Held' = Held
    BY <1>1, <1>3, SameTokens DEF CInv
  <2> QED BY <1>1, <1>2, <2>1 DEF CR!vars
<1>4. ASSUME NEW t \in Ops, Deliver(t) PROVE [CR!Next]_(CR!vars)
  <2>1. t \notin known /\ known' = known \cup {t} /\ Scope(t) # "authentication"
    BY <1>4 DEF Deliver
  <2>2. Valid' = Valid /\ Held' = {Cred(s) : s \in tokens \cap (known \cup {t})}
    BY <1>1, <2>1, MapStays DEF CInv, Valid, Held
  <2>3. CASE t \in tokens
    <3>1. Held' = Held \cup {Cred(t)}
      BY <2>2, <2>3 DEF Held
    <3>2. Cred(t) \in Valid \ Held /\ Cred(t).scope # "authentication"
      <4>1. Cred(t) \notin Held
        BY <2>1, Named DEF Held
      <4> QED BY <2>1, <2>3, <4>1 DEF Valid, Cred
    <3>3. CR!Mailed(Cred(t))
      BY <1>1, <1>2, <2>2, <3>1, <3>2 DEF CR!Mailed
    <3> QED BY <3>2, <3>3 DEF CR!Next
  <2>4. CASE t \notin tokens
    <3>1. Held' = Held
      BY <2>2, <2>4 DEF Held
    <3> QED BY <1>1, <1>2, <2>2, <3>1 DEF CR!vars
  <2> QED BY <2>3, <2>4
<1> QED BY <1>3, <1>4 DEF Beside, Tick, vars

(* signup, activate_user_handler, login, reset_password,                    *)
(* handle_password_reset, set_password_account, logout and the Google       *)
(* callback, with their transactions and lost answers, implement            *)
(* Credentials, for any number of users and overlapping operations.         *)
THEOREM CredentialsImplemented == Spec => ImplementsCredentials
<1>1. CInv /\ [Next]_vars => [CR!Next]_(CR!vars)
  BY OpensMap, StepMaps, BesideMaps, NextCases DEF CInv, IInv
<1> QED BY <1>1, InitMaps, CredentialsInvariant, PTL DEF Spec, ImplementsCredentials, CR!Spec

=============================================================================
