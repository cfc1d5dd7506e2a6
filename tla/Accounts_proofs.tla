--------------------------- MODULE Accounts_proofs ---------------------------
(***************************************************************************)
(* Proofs about Accounts, for any number of addresses and operations: the  *)
(* types, that a user's row has one writer at a time, and the safety       *)
(* properties of sign-up, activation, reset and logout.                    *)
(***************************************************************************)
EXTENDS Accounts, TLAPS

(* An operation that was called has an address, and only such an operation  *)
(* has a token; a plaintext leaves the server with an operation that ended. *)
Called ==
    /\ \A o \in Ops : IF stage[o] = "idle" THEN call[o].kind = "none"
                                         ELSE call[o].email \in Emails
    /\ \A t \in tokens : stage[t] # "idle"
    /\ \A t \in known : stage[t] = "done"
    /\ \A o \in Ops : call[o].after \subseteq {q \in Ops : stage[q] = "done"}

(* Only these handlers store a token after their reads or send a mail.      *)
Storing ==
    \A o \in Ops : /\ stage[o] = "store" => call[o].kind \in {"login", "request", "google"}
                   /\ stage[o] = "mail" => call[o].kind \in {"signup", "request"}

(* Row locks: who is about to commit holds the row, and nobody else does.   *)
LockSound ==
    /\ \A o \in Ops : stage[o] = "commit" => lock[call[o].email] = o
    /\ \A e \in Emails : lock[e] # NoOp => stage[lock[e]] = "commit" /\ call[lock[e]].email = e

(* A transaction deletes tokens of its own user and scope. *)
DropScope(o) == IF call[o].kind = "reset" THEN "password-reset" ELSE "activation"

DropsSound ==
    \A o \in Ops : stage[o] = "commit" /\ call[o].kind # "signup" =>
        \A t \in drops[o] :
            stage[t] # "idle" /\ call[t].email = call[o].email /\ Scope(t) = DropScope(o)

(* Before a sign-up commits there is no row; after it, and once a reset     *)
(* request has found one, there is one for good.                            *)
RowThere ==
    \A o \in Ops :
        /\ At(o, "signup", "commit") => account[call[o].email] = "none"
        /\ \/ call[o].kind \in {"signup", "request"} /\ stage[o] \in {"mail", "done"}
           \/ At(o, "request", "store")
           => account[call[o].email] # "none"

(* What a handler was handed is a known token of its user, and of the scope *)
(* the handler asks for once it has asked.                                  *)
Presented ==
    \A o \in Ops : call[o].kind \in {"activate", "reset", "setpw", "logout"} =>
        /\ call[o].tok \in known
        /\ call[call[o].tok].email = call[o].email
        /\ call[o].kind = "reset" /\ stage[o] \in {"update", "commit", "done"} =>
              Scope(call[o].tok) = "password-reset"
        /\ call[o].kind \in {"setpw", "logout"} => Scope(call[o].tok) = "authentication"

(* A sign-up whose commit was answered. *)
SignedUp(a) == call[a].kind = "signup" /\ stage[a] \in {"mail", "done"}

(* Its token is there until the account is active. *)
TokenStays ==
    \A t \in Ops : SignedUp(t) => t \in tokens \/ account[call[t].email] = "active"

(* No other one of its address is; and OneWinner, from the commit on. *)
Single == \A a, b \in Ops : SignedUp(a) /\ SignedUp(b) /\ SameUser(a, b) => a = b

Winner ==
    \A a \in Ops : SignedUp(a) =>
        \/ hash[call[a].email] = call[a].pwd
        \/ \E r \in Ops : /\ SameUser(a, r)
                          /\ call[r].kind \in {"reset", "setpw"}
                          /\ stage[r] \in {"done", "error"}

(* A reset deletes the token it was handed. *)
ResetGone ==
    \A r \in Ops : call[r].kind = "reset" =>
        /\ stage[r] = "commit" /\ call[r].tok \in tokens => call[r].tok \in drops[r]
        /\ stage[r] = "done" => call[r].tok \notin tokens

(* ResetUsesTokenUp, from the moment a reset has found its token. *)
ResetOrder ==
    \A a, b \in Ops :
        /\ Did(a, "reset") /\ a \in call[b].after
        /\ call[b].kind = "reset" /\ stage[b] \in {"update", "commit", "done"}
        => call[a].tok # call[b].tok

(* The hypothesis of ResetTakesEffect on the resets beside r. *)
Alone(r) ==
    \A q \in Ops \ {r} : call[q].kind \in {"reset", "setpw"} /\ SameUser(q, r) =>
        \/ q \in call[r].after
        \/ stage[q] \notin {"done", "error"}

(* While it is, the row holds r's password, and so does what a login that   *)
(* came after r has read from it.                                           *)
ResetHolds ==
    \A r \in Ops : Did(r, "reset") /\ Alone(r) =>
        /\ hash[call[r].email] = call[r].pwd
        /\ \A l \in Ops : call[l].kind = "login" /\ SameUser(r, l) /\ r \in call[l].after =>
              /\ stage[l] = "verify" => seen[l] = call[r].pwd
              /\ stage[l] \in {"store", "done"} => call[l].pwd = call[r].pwd

(* The properties alone are not inductive: that a commit does what it       *)
(* should rests on who holds the row, on which token a handler was handed   *)
(* and on what its transaction was told to delete.                          *)
IInv == /\ TypeOK /\ Called /\ Storing /\ LockSound /\ DropsSound /\ RowThere /\ Presented
        /\ Winner /\ ResetGone /\ ResetOrder /\ ResetHolds
        /\ Single /\ TokenStays /\ LogoutFinal

-----------------------------------------------------------------------------
(* Types *)

(* The empty tables have their types. *)
LEMMA InitType == Init => TypeOK
BY AccountsAssumption DEF Init, TypeOK, NotCalled, AllKinds

(* A call keeps the types. *)
LEMMA CallType ==
    ASSUME TypeOK, NEW o \in Ops, NEW kind \in AllKinds, NEW first \in InFlight \cup Ended,
           NEW e \in Emails \cup {NoOp}, NEW p \in Passwords \cup {NoPassword},
           NEW t \in Ops \cup {NoOp}, Call(o, kind, first, e, p, t)
    PROVE  TypeOK'
<1> DEFINE c == [kind |-> kind, email |-> e, pwd |-> p, tok |-> t,
                 after |-> {q \in Ops : stage[q] = "done"}]
<1>1. c \in [kind : AllKinds \cup {"none"}, email : Emails \cup {NoOp},
             pwd : Passwords \cup {NoPassword}, tok : Ops \cup {NoOp}, after : SUBSET Ops]
  OBVIOUS
<1> HIDE DEF c
<1>2. call' = [call EXCEPT ![o] = c] /\ stage' = [stage EXCEPT ![o] = first]
  BY DEF Call, c
<1> QED BY <1>1, <1>2 DEF Call, TypeOK, tables

(* Every step of a handler keeps the types. *)
LEMMA StepType == ASSUME TypeOK, Called, NEW o \in Ops, Step(o) PROVE TypeOK'
<1>1. CASE SignupInsert(o)
  BY <1>1, AccountsAssumption DEF SignupInsert, Goto, locals, tables, TypeOK, InFlight, Ended
<1>2. CASE SignupCommit(o)
  BY <1>2 DEF SignupCommit, Goto, locals, TypeOK, InFlight, Ended
<1>3. CASE ActivateFind(o)
  BY <1>3 DEF ActivateFind, Goto, locals, tables, TypeOK, InFlight, Ended
<1>4. CASE ActivateCommit(o)
  BY <1>4 DEF ActivateCommit, Goto, locals, TypeOK, InFlight, Ended
<1>5. CASE UpdateRow(o)
  BY <1>5 DEF UpdateRow, tables, TypeOK, InFlight, Ended, TokensOf
<1>6. CASE LoginRead(o)
  BY <1>6 DEF LoginRead, At, tables, TypeOK, InFlight, Ended, Called
<1>7. CASE LoginVerify(o)
  BY <1>7 DEF LoginVerify, Goto, locals, tables, TypeOK, InFlight, Ended
<1>8. CASE RequestFind(o)
  BY <1>8 DEF RequestFind, Goto, locals, tables, TypeOK, InFlight, Ended
<1>9. CASE GoogleFind(o)
  BY <1>9 DEF GoogleFind, Goto, locals, tables, TypeOK, InFlight, Ended
<1>10. CASE StoreToken(o)
  BY <1>10, AccountsAssumption DEF StoreToken, TypeOK, InFlight, Ended, Lifetime
<1>11. CASE Mail(o)
  BY <1>11 DEF Mail, Goto, locals, tables, TypeOK, InFlight, Ended
<1>12. CASE ResetFind(o)
  BY <1>12 DEF ResetFind, Goto, locals, tables, TypeOK, InFlight, Ended
<1>13. CASE ResetCommit(o)
  BY <1>13 DEF ResetCommit, Goto, locals, TypeOK, InFlight, Ended
<1>14. CASE SetPasswordUpdate(o)
  <2>1. hash' = [hash EXCEPT ![call[o].email] = Garbage]
    BY <1>14 DEF SetPasswordUpdate
  <2>2. hash' \in [Emails -> Passwords \cup {NoPassword, Garbage}]
    BY <2>1 DEF TypeOK
  <2> QED BY <1>14, <2>2 DEF SetPasswordUpdate, Goto, locals, TypeOK, InFlight, Ended
<1>15. CASE LogoutDelete(o)
  BY <1>15 DEF LogoutDelete, Goto, locals, TypeOK, InFlight, Ended
<1> QED BY <1>1, <1>2, <1>3, <1>4, <1>5, <1>6, <1>7, <1>8, <1>9, <1>10, <1>11, <1>12,
           <1>13, <1>14, <1>15 DEF Step

-----------------------------------------------------------------------------
(* What a step leaves alone *)

(* What a call hands the handler, and where it begins. *)
Handed(kind, first, e, p, t) ==
    /\ kind \in {"signup", "login", "reset", "setpw"} => p \in Passwords
    /\ first \in {"insert", "find", "read", "update", "refused"}
    /\ first = "update" => kind \in {"setpw", "logout"}
    /\ kind \in {"activate", "reset", "setpw", "logout"} => t \in known /\ call[t].email = e
    /\ kind \in {"setpw", "logout"} => t \in tokens /\ Scope(t) = "authentication"

Opens(o) ==
    \E kind \in AllKinds, first \in InFlight \cup Ended, e \in Emails,
       p \in Passwords \cup {NoPassword}, t \in Ops \cup {NoOp} :
          Call(o, kind, first, e, p, t) /\ Handed(kind, first, e, p, t)

(* The eight calls are of that form. *)
LEMMA CallsOpen ==
    ASSUME TypeOK, Called, NEW o \in Ops,
           \/ \E e \in Emails : \/ RequestReset(o, e) \/ Google(o, e)
                               \/ \E p \in Passwords : Signup(o, e, p) \/ Login(o, e, p)
           \/ \E t \in Ops : \/ Activate(o, t) \/ Logout(o, t)
                             \/ \E p \in Passwords : Reset(o, t, p) \/ SetPassword(o, t, p)
    PROVE  Opens(o)
<1> USE DEF AllKinds, InFlight, Ended, Handed
<1>1. ASSUME NEW e \in Emails, RequestReset(o, e) PROVE Opens(o)
  BY <1>1 DEF RequestReset, Opens
<1>2. ASSUME NEW e \in Emails, Google(o, e) PROVE Opens(o)
  BY <1>2 DEF Google, Opens
<1>3. ASSUME NEW e \in Emails, NEW p \in Passwords, Signup(o, e, p) PROVE Opens(o)
  BY <1>3 DEF Signup, Opens
<1>4. ASSUME NEW e \in Emails, NEW p \in Passwords, Login(o, e, p) PROVE Opens(o)
  BY <1>4 DEF Login, Opens
<1>5. ASSUME NEW t \in Ops, t \in known PROVE call[t].email \in Emails
  BY <1>5 DEF Called
<1>6. ASSUME NEW t \in Ops, Activate(o, t) PROVE Opens(o)
  BY <1>5, <1>6 DEF Activate, Opens
<1>7. ASSUME NEW t \in Ops, Logout(o, t) PROVE Opens(o)
  BY <1>5, <1>7 DEF Logout, Opens, HasSession
<1>8. ASSUME NEW t \in Ops, NEW p \in Passwords, Reset(o, t, p) PROVE Opens(o)
  BY <1>5, <1>8 DEF Reset, Opens
<1>9. ASSUME NEW t \in Ops, NEW p \in Passwords, SetPassword(o, t, p) PROVE Opens(o)
  BY <1>5, <1>9 DEF SetPassword, Opens, HasSession
<1> QED BY <1>1, <1>2, <1>3, <1>4, <1>6, <1>7, <1>8, <1>9

(* A call touches its operation only, and no row. *)
LEMMA OpenFrame ==
    ASSUME TypeOK, NEW o \in Ops, Opens(o)
    PROVE  /\ stage[o] = "idle"
           /\ \A q \in Ops : q # o => call'[q] = call[q] /\ stage'[q] = stage[q]
           /\ Handed(call'[o].kind, stage'[o], call'[o].email, call'[o].pwd, call'[o].tok)
           /\ call'[o].email \in Emails
           /\ call'[o].after = {q \in Ops : stage[q] = "done"}
           /\ UNCHANGED <<seen, expiry, drops, account, hash, tokens, known, lock, now>>
<1>1. PICK kind \in AllKinds, first \in InFlight \cup Ended, e \in Emails,
           p \in Passwords \cup {NoPassword}, t \in Ops \cup {NoOp} :
               Call(o, kind, first, e, p, t) /\ Handed(kind, first, e, p, t)
  BY DEF Opens
<1> DEFINE c == [kind |-> kind, email |-> e, pwd |-> p, tok |-> t,
                 after |-> {q \in Ops : stage[q] = "done"}]
<1>2. /\ c.kind = kind /\ c.email = e /\ c.pwd = p /\ c.tok = t
      /\ c.after = {q \in Ops : stage[q] = "done"}
  OBVIOUS
<1>3. call' = [call EXCEPT ![o] = c] /\ stage' = [stage EXCEPT ![o] = first] /\ stage[o] = "idle"
  BY <1>1 DEF Call, c
<1> HIDE DEF c
<1>4. call'[o] = c /\ stage'[o] = first
  BY <1>3 DEF TypeOK
<1> QED BY <1>1, <1>2, <1>3, <1>4 DEF Call, TypeOK, tables

(* A handler that is under way touches its own locals only, and stays under *)
(* way or ends.                                                             *)
LEMMA StepFrame ==
    ASSUME TypeOK, NEW o \in Ops, Step(o) \/ Fails(o)
    PROVE  /\ call' = call /\ now' = now
           /\ stage[o] \in InFlight /\ stage'[o] \in InFlight \cup Ended
           /\ \A q \in Ops : q # o => /\ stage'[q] = stage[q] /\ seen'[q] = seen[q]
                                      /\ drops'[q] = drops[q]
<1> USE DEF TypeOK, Goto, At, locals, InFlight, Ended
<1>1. CASE SignupInsert(o) \/ SignupCommit(o) \/ ActivateFind(o) \/ ActivateCommit(o)
  BY <1>1 DEF SignupInsert, SignupCommit, ActivateFind, ActivateCommit
<1>2. CASE UpdateRow(o) \/ LoginRead(o) \/ LoginVerify(o) \/ RequestFind(o) \/ GoogleFind(o)
  BY <1>2 DEF UpdateRow, LoginRead, LoginVerify, RequestFind, GoogleFind
<1>3. CASE StoreToken(o) \/ Mail(o) \/ ResetFind(o) \/ ResetCommit(o)
  BY <1>3 DEF StoreToken, Mail, ResetFind, ResetCommit
<1>4. CASE SetPasswordUpdate(o) \/ LogoutDelete(o) \/ Fails(o)
  BY <1>4 DEF SetPasswordUpdate, LogoutDelete, Fails
<1> QED BY <1>1, <1>2, <1>3, <1>4 DEF Step

(* Beside the handlers there are the mail, the clock and nothing. *)
Beside == (\E t \in Ops : Deliver(t)) \/ Tick \/ UNCHANGED vars

(* None of these writes a table. *)
LEMMA BesideFrame ==
    ASSUME Beside
    PROVE  /\ UNCHANGED <<call, stage, seen, drops, account, hash, tokens, lock>>
           /\ known \subseteq known' /\ \A t \in known' : t \in known \/ stage[t] = "done"
BY DEF Beside, Deliver, Tick, vars, locals, tables

(* Every step is one of these. *)
LEMMA NextCases ==
    ASSUME TypeOK, Called, [Next]_vars
    PROVE  (\E o \in Ops : Opens(o) \/ Step(o) \/ Fails(o)) \/ Beside
<1>1. CASE \E o \in Ops, e \in Emails :
               \/ RequestReset(o, e) \/ Google(o, e)
               \/ \E p \in Passwords : Signup(o, e, p) \/ Login(o, e, p)
  BY <1>1, CallsOpen
<1>2. CASE \E o, t \in Ops :
               \/ Activate(o, t) \/ Logout(o, t)
               \/ \E p \in Passwords : Reset(o, t, p) \/ SetPassword(o, t, p)
  BY <1>2, CallsOpen
<1>3. CASE \E o \in Ops : Step(o) \/ Fails(o) \/ Deliver(o)
  BY <1>3 DEF Beside
<1>4. CASE Tick \/ UNCHANGED vars
  BY <1>4 DEF Beside
<1> QED BY <1>1, <1>2, <1>3, <1>4 DEF Next

(* All steps keep the types. *)
LEMMA NextType == ASSUME TypeOK, Called, [Next]_vars PROVE TypeOK'
<1>1. ASSUME NEW o \in Ops, Opens(o) PROVE TypeOK'
  BY <1>1, CallType DEF Opens
<1>2. ASSUME NEW o \in Ops, Step(o) PROVE TypeOK'
  BY <1>2, StepType
<1>3. ASSUME NEW o \in Ops, Fails(o) PROVE TypeOK'
  BY <1>3 DEF Fails, Goto, locals, tables, TypeOK, InFlight, Ended
<1>4. ASSUME Beside PROVE TypeOK'
  BY <1>4 DEF Beside, Deliver, Tick, vars, locals, tables, TypeOK
<1> QED BY <1>1, <1>2, <1>3, <1>4, NextCases

-----------------------------------------------------------------------------
(* Who writes what *)

(* Tokens come from the operation they are named by, when it stores or      *)
(* commits, and go with a transaction that drops them or with a logout; a   *)
(* plaintext leaves with an operation that ends.                            *)
LEMMA TokenWrites ==
    ASSUME TypeOK, NEW o \in Ops, Step(o) \/ Fails(o)
    PROVE  /\ tokens' \subseteq tokens \cup {o}
           /\ o \in tokens' /\ o \notin tokens => StoreToken(o) \/ SignupCommit(o)
           /\ \A t \in tokens \ tokens' :
                 \/ t \in drops[o] /\ (ActivateCommit(o) \/ ResetCommit(o))
                 \/ LogoutDelete(o) /\ t = call[o].tok /\ Scope(t) = "authentication"
           /\ known \subseteq known' /\ known' \subseteq known \cup {o}
           /\ o \in known' /\ o \notin known => stage'[o] = "done"
<1> USE DEF Goto, locals, tables
<1>1. CASE SignupInsert(o) \/ SignupCommit(o) \/ ActivateFind(o) \/ ActivateCommit(o)
  BY <1>1 DEF SignupInsert, SignupCommit, ActivateFind, ActivateCommit
<1>2. CASE UpdateRow(o) \/ LoginRead(o) \/ LoginVerify(o) \/ RequestFind(o) \/ GoogleFind(o)
  BY <1>2 DEF UpdateRow, LoginRead, LoginVerify, RequestFind, GoogleFind
<1>3. CASE StoreToken(o)
  BY <1>3 DEF StoreToken, TypeOK
<1>4. CASE Mail(o) \/ ResetFind(o) \/ ResetCommit(o)
  BY <1>4 DEF Mail, ResetFind, ResetCommit
<1>5. CASE SetPasswordUpdate(o) \/ LogoutDelete(o) \/ Fails(o)
  BY <1>5 DEF SetPasswordUpdate, LogoutDelete, Fails, TokensOf
<1> QED BY <1>1, <1>2, <1>3, <1>4, <1>5 DEF Step

(* A row is written by whoever commits, and its hash by set_password too.   *)
LEMMA RowWrites ==
    ASSUME TypeOK, NEW o \in Ops, Step(o) \/ Fails(o)
    PROVE  /\ \A e \in Emails : account'[e] # account[e] =>
                 e = call[o].email /\ account'[e] # "none" /\ (SignupCommit(o) \/ ActivateCommit(o))
           /\ \A e \in Emails : hash'[e] # hash[e] =>
                 e = call[o].email /\ (SignupCommit(o) \/ ResetCommit(o) \/ SetPasswordUpdate(o))
<1> USE DEF TypeOK, tables
<1>1. CASE SignupInsert(o) \/ SignupCommit(o) \/ ActivateFind(o) \/ ActivateCommit(o)
  BY <1>1 DEF SignupInsert, SignupCommit, ActivateFind, ActivateCommit
<1>2. CASE UpdateRow(o) \/ LoginRead(o) \/ LoginVerify(o) \/ RequestFind(o) \/ GoogleFind(o)
  BY <1>2 DEF UpdateRow, LoginRead, LoginVerify, RequestFind, GoogleFind
<1>3. CASE StoreToken(o) \/ Mail(o) \/ ResetFind(o) \/ ResetCommit(o)
  BY <1>3 DEF StoreToken, Mail, ResetFind, ResetCommit
<1>4. CASE SetPasswordUpdate(o) \/ LogoutDelete(o) \/ Fails(o)
  BY <1>4 DEF SetPasswordUpdate, LogoutDelete, Fails
<1> QED BY <1>1, <1>2, <1>3, <1>4 DEF Step

(* Which step brings a handler where. *)
LEMMA Moves ==
    ASSUME TypeOK, NEW o \in Ops, Step(o) \/ Fails(o)
    PROVE  /\ stage'[o] = "commit" => SignupInsert(o) \/ UpdateRow(o)
           /\ stage'[o] = "store" => LoginVerify(o) \/ RequestFind(o) \/ GoogleFind(o)
           /\ stage'[o] = "mail" => SignupCommit(o) \/ (StoreToken(o) /\ call[o].kind = "request")
           /\ stage'[o] = "update" => ActivateFind(o) \/ ResetFind(o)
           /\ stage'[o] = "verify" => LoginRead(o)
           /\ stage'[o] = "done" => ActivateCommit(o) \/ StoreToken(o) \/ Mail(o) \/ ResetCommit(o)
                                    \/ SetPasswordUpdate(o) \/ LogoutDelete(o)
<1> USE DEF TypeOK, Goto
<1>1. CASE SignupInsert(o) \/ SignupCommit(o) \/ ActivateFind(o) \/ ActivateCommit(o)
  BY <1>1 DEF SignupInsert, SignupCommit, ActivateFind, ActivateCommit
<1>2. CASE UpdateRow(o) \/ LoginRead(o) \/ LoginVerify(o) \/ RequestFind(o) \/ GoogleFind(o)
  BY <1>2 DEF UpdateRow, LoginRead, LoginVerify, RequestFind, GoogleFind
<1>3. CASE StoreToken(o) \/ Mail(o) \/ ResetFind(o) \/ ResetCommit(o)
  BY <1>3 DEF StoreToken, Mail, ResetFind, ResetCommit
<1>4. CASE SetPasswordUpdate(o) \/ LogoutDelete(o) \/ Fails(o)
  BY <1>4 DEF SetPasswordUpdate, LogoutDelete, Fails
<1> QED BY <1>1, <1>2, <1>3, <1>4 DEF Step

(* Only its commit signs up. *)
LEMMA SignedBefore ==
    ASSUME TypeOK, Storing, NEW o \in Ops, Step(o) \/ Fails(o), NEW a \in Ops,
           call[a].kind = "signup", stage'[a] \in {"mail", "done"}, ~(SignupCommit(o) /\ a = o)
    PROVE  SignedUp(a)
<1>1. CASE a = o
  BY <1>1, Moves DEF ActivateCommit, StoreToken, Mail, ResetCommit, SetPasswordUpdate,
                     LogoutDelete, At, Storing, SignedUp
<1>2. CASE a # o
  BY <1>2, StepFrame DEF SignedUp
<1> QED BY <1>1, <1>2

(* A row is locked by who goes to commit, when nobody holds it, and         *)
(* released by who leaves.                                                  *)
LEMMA LockWrites ==
    ASSUME TypeOK, LockSound, Called, NEW o \in Ops, Step(o) \/ Fails(o)
    PROVE  /\ \A e \in Emails : lock'[e] # lock[e] =>
                 \/ e = call[o].email /\ lock[e] = NoOp /\ lock'[e] = o /\ stage'[o] = "commit"
                 \/ lock[e] = o /\ lock'[e] = NoOp
           /\ stage[o] = "commit" => stage'[o] # "commit" /\ lock'[call[o].email] = NoOp
           /\ stage[o] # "commit" /\ stage'[o] = "commit" => lock'[call[o].email] = o
<1> USE DEF TypeOK, Goto, At
<1>0. call[o].email \in Emails /\ (stage[o] = "commit" => lock[call[o].email] = o)
  BY StepFrame DEF Called, LockSound, InFlight
<1>1. CASE SignupInsert(o) \/ ActivateFind(o)
  BY <1>0, <1>1 DEF SignupInsert, ActivateFind
<1>2. CASE SignupCommit(o) \/ ActivateCommit(o) \/ ResetCommit(o)
  BY <1>0, <1>2 DEF SignupCommit, ActivateCommit, ResetCommit
<1>3. CASE UpdateRow(o) \/ LoginRead(o) \/ LoginVerify(o) \/ RequestFind(o) \/ GoogleFind(o)
  BY <1>0, <1>3 DEF UpdateRow, LoginRead, LoginVerify, RequestFind, GoogleFind
<1>4. CASE StoreToken(o) \/ Mail(o) \/ ResetFind(o)
  BY <1>0, <1>4 DEF StoreToken, Mail, ResetFind
<1>5. CASE SetPasswordUpdate(o) \/ LogoutDelete(o)
  BY <1>0, <1>5 DEF SetPasswordUpdate, LogoutDelete
<1>6. CASE Fails(o)
  BY <1>0, <1>6 DEF Fails, LockSound
<1> QED BY <1>1, <1>2, <1>3, <1>4, <1>5, <1>6 DEF Step

-----------------------------------------------------------------------------
(* The parts of the invariant, one lemma each *)

(* Operations that were called keep their address, tokens and plaintexts     *)
(* come from such operations.                                               *)
LEMMA CalledStep == ASSUME TypeOK, Called, [Next]_vars PROVE Called'
<1> USE DEF Called
<1>1. ASSUME NEW o \in Ops, Opens(o) PROVE Called'
  <2>1. /\ stage[o] = "idle" /\ stage'[o] # "idle"
        /\ \A q \in Ops : q # o => call'[q] = call[q] /\ stage'[q] = stage[q]
        /\ call'[o].email \in Emails
        /\ call'[o].after = {q \in Ops : stage[q] = "done"}
        /\ tokens' = tokens /\ known' = known /\ tokens \cup known \subseteq Ops
    BY <1>1, OpenFrame DEF Handed, TypeOK
  <2> QED BY <2>1
<1>2. ASSUME NEW o \in Ops, Step(o) \/ Fails(o) PROVE Called'
  <2>1. \A q \in Ops : /\ stage'[q] = "idle" <=> stage[q] = "idle"
                       /\ stage[q] = "done" => stage'[q] = "done"
    BY <1>2, StepFrame DEF InFlight, Ended
  <2>2. /\ tokens \cup known \subseteq Ops
        /\ \A t \in tokens' : t \in tokens \/ t = o
        /\ \A t \in known' : t \in known \/ stage'[t] = "done"
    BY <1>2, TokenWrites DEF TypeOK
  <2>3. call' = call /\ stage[o] # "idle"
    BY <1>2, StepFrame DEF InFlight
  <2>4. \A q \in Ops : IF stage'[q] = "idle" THEN call'[q].kind = "none"
                                         ELSE call'[q].email \in Emails
    BY <2>1, <2>3
  <2>5. \A t \in tokens' : stage'[t] # "idle"
    BY <2>1, <2>2, <2>3
  <2>6. \A t \in known' : stage'[t] = "done"
    BY <2>1, <2>2
  <2>7. \A q \in Ops : call'[q].after \subseteq {a \in Ops : stage'[a] = "done"}
    BY <2>1, <2>3
  <2> QED BY <2>4, <2>5, <2>6, <2>7
<1>3. ASSUME Beside PROVE Called'
  BY <1>3, BesideFrame DEF TypeOK
<1> QED BY <1>1, <1>2, <1>3, NextCases

(* Only a login, a request or a Google callback goes on to store a token.   *)
LEMMA StoringStep == ASSUME TypeOK, Called, Storing, [Next]_vars PROVE Storing'
<1> USE DEF TypeOK, Storing
<1>1. ASSUME NEW o \in Ops, Opens(o) PROVE Storing'
  BY <1>1, OpenFrame DEF Handed
<1>2. ASSUME NEW o \in Ops, Step(o) \/ Fails(o) PROVE Storing'
  BY <1>2, StepFrame, Moves DEF LoginVerify, RequestFind, GoogleFind, SignupCommit, At
<1>3. ASSUME Beside PROVE Storing'
  BY <1>3, BesideFrame
<1> QED BY <1>1, <1>2, <1>3, NextCases

(* A row changes hands only when nobody holds it, and whoever fails or      *)
(* commits lets go.                                                         *)
LEMMA LockStep == ASSUME TypeOK, Called, LockSound, [Next]_vars PROVE LockSound'
<1> USE DEF LockSound
<1>0. NoOp \notin Ops /\ \A e \in Emails : lock[e] \in Ops \cup {NoOp}
  BY AccountsAssumption DEF TypeOK
<1>1. ASSUME NEW o \in Ops, Opens(o) PROVE LockSound'
  <2>1. /\ stage[o] = "idle" /\ stage'[o] # "commit" /\ lock' = lock
        /\ \A q \in Ops : q # o => call'[q] = call[q] /\ stage'[q] = stage[q]
    BY <1>1, OpenFrame DEF Handed
  <2> QED BY <1>0, <2>1
<1>2. ASSUME NEW o \in Ops, Step(o) \/ Fails(o) PROVE LockSound'
  <2>1. /\ call' = call /\ stage[o] # "idle"
        /\ \A q \in Ops : q # o => stage'[q] = stage[q]
    BY <1>2, StepFrame DEF InFlight
  <2>2. \A q \in Ops : stage[q] # "idle" => call[q].email \in Emails
    BY DEF Called
  <2>3. \A q \in Ops : stage'[q] = "commit" => lock'[call[q].email] = q
    BY <1>0, <1>2, <2>1, <2>2, LockWrites
  <2>4. \A e \in Emails : lock'[e] # NoOp => stage'[lock'[e]] = "commit" /\ call[lock'[e]].email = e
    BY <1>0, <1>2, <2>1, <2>2, LockWrites
  <2> QED BY <2>1, <2>3, <2>4
<1>3. ASSUME Beside PROVE LockSound'
  BY <1>3, BesideFrame
<1> QED BY <1>1, <1>2, <1>3, NextCases

(* UpdateRow, which picks the tokens to delete, asks for user and scope.    *)
LEMMA DropsStep == ASSUME TypeOK, Called, DropsSound, [Next]_vars PROVE DropsSound'
<1> USE DEF TypeOK, DropsSound, Called
<1>1. ASSUME NEW o \in Ops, Opens(o) PROVE DropsSound'
  <2>1. /\ stage[o] = "idle" /\ stage'[o] # "commit" /\ drops' = drops
        /\ \A q \in Ops : q # o => call'[q] = call[q] /\ stage'[q] = stage[q]
    BY <1>1, OpenFrame DEF Handed
  <2> QED BY <2>1 DEF DropScope, Scope
<1>2. ASSUME NEW o \in Ops, Step(o) \/ Fails(o) PROVE DropsSound'
  <2>1. CASE UpdateRow(o)
    BY <2>1, StepFrame DEF UpdateRow, TokensOf, DropScope, Scope, InFlight, At
  <2>2. CASE ~UpdateRow(o)
    BY <1>2, <2>2, StepFrame, Moves DEF SignupInsert, At, DropScope, Scope, InFlight, Ended
  <2> QED BY <2>1, <2>2
<1>3. ASSUME Beside PROVE DropsSound'
  BY <1>3, BesideFrame DEF DropScope, Scope
<1> QED BY <1>1, <1>2, <1>3, NextCases

(* What was called is not called again, and what has ended has ended.       *)
LEMMA Stable ==
    ASSUME TypeOK, Called, [Next]_vars, NEW q \in Ops, stage[q] # "idle"
    PROVE  /\ call'[q] = call[q] /\ stage'[q] # "idle" /\ Scope(q)' = Scope(q)
           /\ stage[q] \in Ended => stage'[q] = stage[q]
<1>1. ASSUME NEW o \in Ops, Opens(o)
      PROVE  call'[q] = call[q] /\ stage'[q] = stage[q]
  BY <1>1, OpenFrame
<1>2. ASSUME NEW o \in Ops, Step(o) \/ Fails(o)
      PROVE  /\ call'[q] = call[q] /\ stage'[q] # "idle"
             /\ stage[q] \in Ended => stage'[q] = stage[q]
  BY <1>2, StepFrame DEF InFlight, Ended
<1>3. ASSUME Beside PROVE call'[q] = call[q] /\ stage'[q] = stage[q]
  BY <1>3, BesideFrame
<1> QED BY <1>1, <1>2, <1>3, NextCases DEF Scope

(* The row of an operation that has one stays: no step removes a row.       *)
LEMMA RowStep ==
    ASSUME TypeOK, Called, Storing, LockSound, RowThere, [Next]_vars
    PROVE  RowThere'
<1> USE DEF At
<1>1. ASSUME NEW o \in Ops, Opens(o) PROVE RowThere'
  <2>1. /\ stage'[o] \notin {"commit", "mail", "done", "store"} /\ account' = account
        /\ \A q \in Ops : q # o => call'[q] = call[q] /\ stage'[q] = stage[q]
    BY <1>1, OpenFrame DEF Handed
  <2> QED BY <2>1 DEF RowThere
<1>2. ASSUME NEW o \in Ops, Step(o) \/ Fails(o) PROVE RowThere'
  <2>1. /\ call' = call /\ call[o].email \in Emails
        /\ \A q \in Ops : q # o => stage'[q] = stage[q]
        /\ \A q \in Ops : stage[q] # "idle" => call[q].email \in Emails
    BY <1>2, StepFrame DEF Called, InFlight
  <2>2. \A e \in Emails : account[e] # "none" => account'[e] # "none"
    BY <1>2, RowWrites
  <2>3. \A e \in Emails : account'[e] # account[e] => lock[e] = o /\ stage[o] = "commit"
    BY <1>2, RowWrites DEF SignupCommit, ActivateCommit, LockSound
  <2>4. ASSUME NEW q \in Ops, call[q].kind = "signup", stage'[q] = "commit"
        PROVE  account'[call[q].email] = "none"
    <3>1. CASE q # o
      BY <2>1, <2>3, <2>4, <3>1 DEF RowThere, LockSound
    <3>2. CASE q = o
      <4>1. CASE UpdateRow(o)
        BY <2>4, <3>2, <4>1 DEF UpdateRow
      <4>2. CASE SignupInsert(o)
        BY <2>4, <3>2, <4>2 DEF SignupInsert, Goto, tables, TypeOK
      <4> QED BY <1>2, <2>4, <3>2, <4>1, <4>2, Moves
    <3> QED BY <3>1, <3>2
  <2>5. ASSUME NEW q \in Ops,
               \/ call[q].kind \in {"signup", "request"} /\ stage'[q] \in {"mail", "done"}
               \/ call[q].kind = "request" /\ stage'[q] = "store"
        PROVE  account'[call[q].email] # "none"
    <3>1. CASE q # o
      BY <2>1, <2>2, <2>5, <3>1 DEF RowThere
    <3>2. CASE SignupCommit(o) /\ q = o
      BY <2>1, <3>2 DEF SignupCommit, TypeOK
    <3>3. CASE RequestFind(o) /\ q = o
      BY <2>1, <2>5, <3>3 DEF RequestFind, Goto, tables, TypeOK
    <3>4. CASE StoreToken(o) /\ q = o
      BY <2>1, <2>2, <2>5, <3>4 DEF StoreToken, RowThere, Storing
    <3>5. CASE Mail(o) /\ q = o
      BY <2>1, <2>2, <2>5, <3>5 DEF Mail, RowThere
    <3>6. CASE q = o /\ ~(SignupCommit(o) \/ RequestFind(o) \/ StoreToken(o) \/ Mail(o))
      BY <1>2, <2>5, <3>6, Moves DEF LoginVerify, GoogleFind, ActivateCommit, ResetCommit,
                                     SetPasswordUpdate, LogoutDelete
    <3> QED BY <3>1, <3>2, <3>3, <3>4, <3>5, <3>6
  <2> QED BY <2>1, <2>4, <2>5 DEF RowThere
<1>3. ASSUME Beside PROVE RowThere'
  BY <1>3, BesideFrame DEF RowThere
<1> QED BY <1>1, <1>2, <1>3, NextCases

(* A handler keeps the token it was handed; what it is, only a reset asks.  *)
LEMMA PresentedStep ==
    ASSUME TypeOK, Called, Storing, Presented, [Next]_vars
    PROVE  Presented'
<1>1. ASSUME NEW q \in Ops, stage[q] # "idle", call[q].kind \in {"activate", "reset", "setpw", "logout"}
      PROVE  /\ call[q].tok \in known' /\ call[q].tok \in Ops
             /\ call'[call[q].tok] = call[call[q].tok]
             /\ Scope(call[q].tok)' = Scope(call[q].tok)
             /\ call'[q] = call[q]
  <2>1. call[q].tok \in known /\ call[q].tok \in Ops /\ stage[call[q].tok] # "idle"
    BY <1>1 DEF Presented, Called, TypeOK
  <2>2. known \subseteq known'
    BY NextCases, OpenFrame, TokenWrites, BesideFrame
  <2> QED BY <1>1, <2>1, <2>2, Stable
<1>2. ASSUME NEW o \in Ops, Opens(o) PROVE Presented'
  <2>1. /\ stage[o] = "idle" /\ known' = known
        /\ \A q \in Ops : q # o => call'[q] = call[q] /\ stage'[q] = stage[q]
        /\ Handed(call'[o].kind, stage'[o], call'[o].email, call'[o].pwd, call'[o].tok)
    BY <1>2, OpenFrame
  <2>2. ASSUME NEW q \in Ops, q # o, call'[q].kind \in {"activate", "reset", "setpw", "logout"}
        PROVE  stage[q] # "idle" /\ call[q].kind = call'[q].kind /\ stage'[q] = stage[q]
    BY <2>1, <2>2 DEF Called
  <2>3. ASSUME call'[o].kind \in {"activate", "reset", "setpw", "logout"}
        PROVE  /\ call'[o].tok \in known
               /\ call'[call'[o].tok].email = call'[o].email
               /\ call'[o].kind = "reset" => stage'[o] \notin {"update", "commit", "done"}
               /\ call'[o].kind \in {"setpw", "logout"} => Scope(call[o].tok)' = "authentication"
    <3>1. /\ call'[o].tok \in known /\ call'[o].tok \in Ops /\ stage[call'[o].tok] # "idle"
      BY <2>1, <2>3 DEF Handed, Called, TypeOK
    <3>2. call'[call'[o].tok] = call[call'[o].tok]
      BY <2>1, <3>1
    <3>3. Scope(call[o].tok)' = Scope(call'[o].tok)
      BY <3>2 DEF Scope
    <3>4. call'[o].kind = "reset" => stage'[o] \notin {"update", "commit", "done"}
      BY <2>1 DEF Handed
    <3> QED BY <2>1, <2>3, <3>1, <3>2, <3>3, <3>4 DEF Handed
  <2> SUFFICES ASSUME NEW q \in Ops,
                      call'[q].kind \in {"activate", "reset", "setpw", "logout"}
               PROVE  /\ call'[q].tok \in known'
                      /\ call'[call'[q].tok].email = call'[q].email
                      /\ call'[q].kind = "reset" /\ stage'[q] \in {"update", "commit", "done"} =>
                            Scope(call[q].tok)' = "password-reset"
                      /\ call'[q].kind \in {"setpw", "logout"} =>
                            Scope(call[q].tok)' = "authentication"
    BY DEF Presented, Scope
  <2>4. CASE q = o
    BY <2>1, <2>3, <2>4
  <2>5. CASE q # o
    BY <1>1, <2>2, <2>5 DEF Presented
  <2> QED BY <2>4, <2>5
<1>3. ASSUME NEW o \in Ops, Step(o) \/ Fails(o) PROVE Presented'
  <2>1. /\ call' = call /\ stage[o] # "idle"
        /\ \A q \in Ops : q # o => stage'[q] = stage[q]
    BY <1>3, StepFrame DEF InFlight
  <2>2. \A q \in Ops : stage[q] = "idle" => call[q].kind = "none"
    BY DEF Called
  <2>3. ASSUME call[o].kind = "reset", stage'[o] \in {"update", "commit", "done"}
        PROVE  Scope(call[o].tok) = "password-reset"
    <3>1. CASE ResetFind(o)
      BY <2>3, <3>1 DEF ResetFind, Goto, TypeOK
    <3>2. CASE UpdateRow(o) \/ ResetCommit(o)
      BY <2>3, <3>2 DEF UpdateRow, ResetCommit, Presented, At
    <3>3. CASE ~(ResetFind(o) \/ UpdateRow(o) \/ ResetCommit(o))
      BY <1>3, <2>3, <3>3, Moves DEF SignupInsert, ActivateFind, ActivateCommit, StoreToken, Mail,
             SetPasswordUpdate, LogoutDelete, At, Storing
    <3> QED BY <3>1, <3>2, <3>3
  <2> QED BY <1>1, <2>1, <2>2, <2>3 DEF Presented
<1>4. ASSUME Beside PROVE Presented'
  BY <1>1, <1>4, BesideFrame DEF Presented, Called
<1> QED BY <1>2, <1>3, <1>4, NextCases

(* A session that a logout deleted is not stored again: only the operation  *)
(* that drew a token stores it, and that one has ended.                     *)
LEMMA LogoutStep ==
    ASSUME TypeOK, Called, Storing, Presented, LogoutFinal, [Next]_vars
    PROVE  LogoutFinal'
<1> USE DEF LogoutFinal, Did, At
<1>1. ASSUME NEW o \in Ops, Opens(o) PROVE LogoutFinal'
  BY <1>1, OpenFrame DEF Handed
<1>2. ASSUME NEW o \in Ops, Step(o) \/ Fails(o) PROVE LogoutFinal'
  <2>1. /\ call' = call /\ stage[o] # "done"
        /\ \A q \in Ops : q # o => stage'[q] = stage[q]
        /\ tokens' \subseteq tokens \cup {o}
    BY <1>2, StepFrame, TokenWrites DEF InFlight
  <2>2. \A q \in Ops : call[q].kind = "logout" => call[q].tok # o
    BY <2>1 DEF Presented, Called
  <2>3. ASSUME call[o].kind = "logout", stage'[o] = "done" PROVE call[o].tok \notin tokens'
    <3>1. LogoutDelete(o)
      BY <1>2, <2>3, Moves DEF ActivateCommit, StoreToken, Mail, ResetCommit, SetPasswordUpdate, Storing
    <3> QED BY <2>3, <3>1 DEF LogoutDelete, TokensOf, Presented
  <2> QED BY <2>1, <2>2, <2>3
<1>3. ASSUME Beside PROVE LogoutFinal'
  BY <1>3, BesideFrame
<1> QED BY <1>1, <1>2, <1>3, NextCases

(* A reset's DELETE finds its own token, if anybody's has not before.       *)
LEMMA GoneStep ==
    ASSUME TypeOK, Called, Storing, Presented, ResetGone, [Next]_vars
    PROVE  ResetGone'
<1> USE DEF At
<1>1. ASSUME NEW o \in Ops, Opens(o) PROVE ResetGone'
  BY <1>1, OpenFrame DEF Handed, ResetGone
<1>2. ASSUME NEW o \in Ops, Step(o) \/ Fails(o) PROVE ResetGone'
  <2>1. /\ call' = call /\ stage[o] # "done"
        /\ \A q \in Ops : q # o => stage'[q] = stage[q] /\ drops'[q] = drops[q]
        /\ tokens' \subseteq tokens \cup {o}
    BY <1>2, StepFrame, TokenWrites DEF InFlight
  <2>2. \A q \in Ops : call[q].kind = "reset" => call[q].tok # o
    BY <2>1 DEF Presented, Called
  <2>3. ASSUME call[o].kind = "reset", stage'[o] = "commit", call[o].tok \in tokens'
        PROVE  call[o].tok \in drops'[o]
    <3>1. UpdateRow(o)
      BY <1>2, <2>3, Moves DEF SignupInsert
    <3>2. call[o].tok \in TokensOf(call[o].email, "password-reset")
      BY <2>1, <2>2, <2>3, <3>1 DEF UpdateRow, TokensOf, Presented, tables
    <3> QED BY <2>3, <3>1, <3>2 DEF UpdateRow, TypeOK
  <2>4. ASSUME call[o].kind = "reset", stage'[o] = "done" PROVE call[o].tok \notin tokens'
    <3>1. ResetCommit(o)
      BY <1>2, <2>4, Moves DEF ActivateCommit, StoreToken, Mail, LogoutDelete, SetPasswordUpdate, Storing
    <3> QED BY <2>4, <3>1 DEF ResetCommit, ResetGone
  <2> QED BY <2>1, <2>2, <2>3, <2>4 DEF ResetGone
<1>3. ASSUME Beside PROVE ResetGone'
  BY <1>3, BesideFrame DEF ResetGone
<1> QED BY <1>1, <1>2, <1>3, NextCases

(* Who came after a reset does not find the token that reset has deleted.   *)
LEMMA OrderStep ==
    ASSUME TypeOK, Called, Storing, ResetGone, ResetOrder, [Next]_vars
    PROVE  ResetOrder'
<1> USE DEF At, Did
<1>1. ASSUME NEW o \in Ops, Opens(o) PROVE ResetOrder'
  BY <1>1, OpenFrame DEF Handed, ResetOrder
<1>2. ASSUME NEW o \in Ops, Step(o) \/ Fails(o) PROVE ResetOrder'
  <2>1. /\ call' = call /\ stage[o] # "done"
        /\ \A q \in Ops : q # o => stage'[q] = stage[q]
    BY <1>2, StepFrame DEF InFlight
  <2>2. ASSUME NEW a \in Ops, NEW b \in Ops, stage'[a] = "done", call[a].kind = "reset",
               a \in call[b].after, call[b].kind = "reset", stage'[b] \in {"update", "commit", "done"}
        PROVE  call[a].tok # call[b].tok
    <3>1. stage[a] = "done"
      BY <2>2 DEF Called
    <3>2. CASE ResetFind(o) /\ b = o
      BY <2>2, <3>1, <3>2 DEF ResetFind, ResetGone, Goto, TypeOK
    <3>3. CASE b = o /\ ~ResetFind(o)
      <4>1. UpdateRow(o) \/ ResetCommit(o)
        BY <1>2, <2>2, <3>3, Moves DEF SignupInsert, ActivateFind, ActivateCommit, StoreToken, Mail,
               SetPasswordUpdate, LogoutDelete, Storing
      <4> QED BY <2>2, <3>1, <3>3, <4>1 DEF UpdateRow, ResetCommit, ResetOrder
    <3>4. CASE b # o
      BY <2>1, <2>2, <3>1, <3>4 DEF ResetOrder
    <3> QED BY <3>2, <3>3, <3>4
  <2> QED BY <2>1, <2>2 DEF ResetOrder
<1>3. ASSUME Beside PROVE ResetOrder'
  BY <1>3, BesideFrame DEF ResetOrder
<1> QED BY <1>1, <1>2, <1>3, NextCases

(* A token for the activation goes with the activation only, which makes    *)
(* the account active.                                                      *)
LEMMA TokenStaysStep ==
    ASSUME TypeOK, Called, Storing, DropsSound, RowThere, TokenStays, [Next]_vars
    PROVE  TokenStays'
<1>1. ASSUME NEW o \in Ops, Opens(o) PROVE TokenStays'
  <2>1. /\ account' = account /\ tokens' = tokens
        /\ \A q \in Ops : q # o => call'[q] = call[q] /\ stage'[q] = stage[q]
    BY <1>1, OpenFrame
  <2>2. stage'[o] \notin {"mail", "done"}
    BY <1>1, OpenFrame DEF Handed
  <2> QED BY <2>1, <2>2 DEF TokenStays, SignedUp
<1>2. ASSUME NEW o \in Ops, Step(o) \/ Fails(o) PROVE TokenStays'
  <2>1. call' = call /\ \A q \in Ops : q # o => stage'[q] = stage[q]
    BY <1>2, StepFrame
  <2> SUFFICES ASSUME NEW t \in Ops, call[t].kind = "signup", stage'[t] \in {"mail", "done"},
                      account'[call[t].email] # "active"
               PROVE  t \in tokens'
    BY <2>1 DEF TokenStays, SignedUp
  <2>2. CASE SignupCommit(t)
    BY <2>2 DEF SignupCommit
  <2>3. CASE ~SignupCommit(t)
    <3>1. SignedUp(t)
      BY <1>2, <2>3, SignedBefore
    <3>2. account[call[t].email] \notin {"active", "none"}
      <4> DEFINE e == call[t].email
      <4>1. e \in Emails /\ account[e] # "none"
        BY <3>1 DEF SignedUp, RowThere, Called
      <4>2. CASE account'[e] = account[e]
        BY <4>1, <4>2
      <4>3. CASE account'[e] # account[e]
        <5>1. e = call[o].email /\ (SignupCommit(o) \/ ActivateCommit(o))
          BY <1>2, <4>1, <4>3, RowWrites
        <5>2. ~SignupCommit(o)
          BY <4>1, <5>1 DEF SignupCommit, RowThere
        <5>3. ActivateCommit(o) => account'[e] = "active"
          BY <4>1, <5>1 DEF ActivateCommit, TypeOK
        <5> QED BY <5>1, <5>2, <5>3
      <4> QED BY <4>2, <4>3
    <3>3. t \in tokens
      BY <3>1, <3>2 DEF TokenStays
    <3>4. Scope(t) = "activation" /\ call[t].email \in Emails
      BY <3>1 DEF SignedUp, Scope, Called
    <3>5. ~(ActivateCommit(o) /\ t \in drops[o])
      BY <3>4 DEF ActivateCommit, At, DropsSound, TypeOK
    <3>6. ~(ResetCommit(o) /\ t \in drops[o])
      BY <3>4 DEF ResetCommit, At, DropsSound, DropScope
    <3> QED BY <1>2, <3>3, <3>4, <3>5, <3>6, TokenWrites
  <2> QED BY <2>2, <2>3
<1>3. ASSUME Beside PROVE TokenStays'
  BY <1>3, BesideFrame DEF TokenStays, SignedUp
<1> QED BY <1>1, <1>2, <1>3, NextCases

(* A second sign-up of an address finds the row of the first. *)
LEMMA SingleStep ==
    ASSUME TypeOK, Called, Storing, RowThere, Single, [Next]_vars
    PROVE  Single'
<1>1. ASSUME NEW o \in Ops, Opens(o) PROVE Single'
  <2>1. /\ stage'[o] \notin {"mail", "done"}
        /\ \A q \in Ops : q # o => call'[q] = call[q] /\ stage'[q] = stage[q]
    BY <1>1, OpenFrame DEF Handed
  <2> QED BY <2>1 DEF Single, SignedUp, SameUser
<1>2. ASSUME NEW o \in Ops, Step(o) \/ Fails(o) PROVE Single'
  <2>1. call' = call
    BY <1>2, StepFrame
  <2> SUFFICES ASSUME NEW a \in Ops, call[a].kind = "signup", stage'[a] \in {"mail", "done"},
                      NEW b \in Ops, call[b].kind = "signup", stage'[b] \in {"mail", "done"},
                      call[a].email = call[b].email
               PROVE  a = b
    BY <2>1 DEF Single, SignedUp, SameUser
  <2>2. \A c \in Ops : SignedUp(c) => account[call[c].email] # "none"
    BY DEF RowThere, SignedUp
  <2>3. SignupCommit(o) => account[call[o].email] = "none"
    BY DEF RowThere, SignupCommit
  <2>4. (SignupCommit(o) /\ a = o) \/ SignedUp(a)
    BY <1>2, SignedBefore
  <2>5. (SignupCommit(o) /\ b = o) \/ SignedUp(b)
    BY <1>2, SignedBefore
  <2> QED BY <2>2, <2>3, <2>4, <2>5 DEF Single, SameUser
<1>3. ASSUME Beside PROVE Single'
  BY <1>3, BesideFrame DEF Single, SignedUp, SameUser
<1> QED BY <1>1, <1>2, <1>3, NextCases

(* Nobody but a reset or set_password of its user writes over the password  *)
(* of an answered sign-up: a second sign-up would have found the row.       *)
LEMMA WinnerStep ==
    ASSUME TypeOK, Called, Storing, RowThere, Winner, [Next]_vars
    PROVE  Winner'
<1> DEFINE Later(a) == \E r \in Ops : /\ SameUser(a, r)
                                      /\ call[r].kind \in {"reset", "setpw"}
                                      /\ stage[r] \in {"done", "error"}
<1>0. ASSUME NEW a \in Ops, stage[a] # "idle", Later(a) PROVE Later(a)'
  <2>1. PICK r \in Ops : /\ SameUser(a, r)
                         /\ call[r].kind \in {"reset", "setpw"}
                         /\ stage[r] \in {"done", "error"}
    BY <1>0
  <2>2. call'[a] = call[a] /\ call'[r] = call[r] /\ stage'[r] = stage[r]
    BY <1>0, <2>1, Stable DEF Ended
  <2> QED BY <2>1, <2>2 DEF SameUser
<1>1. ASSUME NEW o \in Ops, Opens(o) PROVE Winner'
  <2>1. /\ stage'[o] \notin {"mail", "done"} /\ hash' = hash
        /\ \A q \in Ops : q # o => call'[q] = call[q] /\ stage'[q] = stage[q]
    BY <1>1, OpenFrame DEF Handed
  <2> QED BY <1>0, <2>1 DEF Winner, SignedUp
<1>2. ASSUME NEW o \in Ops, Step(o) \/ Fails(o) PROVE Winner'
  <2>1. /\ call' = call /\ \A q \in Ops : q # o => stage'[q] = stage[q]
    BY <1>2, StepFrame
  <2> SUFFICES ASSUME NEW a \in Ops, call[a].kind = "signup", stage'[a] \in {"mail", "done"}
               PROVE  hash'[call[a].email] = call[a].pwd \/ Later(a)'
    BY <2>1 DEF Winner, SignedUp
  <2>2. CASE SignupCommit(o) /\ a = o
    <3>1. call[o].email \in Emails
      BY <2>2 DEF SignupCommit, At, Called
    <3> QED BY <2>2, <3>1 DEF SignupCommit, TypeOK
  <2>3. CASE ~(SignupCommit(o) /\ a = o)
    <3>1. stage[a] \in {"mail", "done"}
      BY <1>2, <2>3, SignedBefore DEF SignedUp
    <3>2. call[a].email \in Emails /\ account[call[a].email] # "none"
      BY <3>1 DEF RowThere, Called
    <3>3. CASE hash'[call[a].email] = hash[call[a].email] \/ Later(a)
      BY <1>0, <3>1, <3>3 DEF Winner, SignedUp
    <3>4. CASE hash'[call[a].email] # hash[call[a].email]
      <4>1. /\ call[a].email = call[o].email
            /\ SignupCommit(o) \/ ResetCommit(o) \/ SetPasswordUpdate(o)
        BY <1>2, <3>2, <3>4, RowWrites
      <4>2. ~SignupCommit(o)
        BY <3>2, <4>1 DEF SignupCommit, RowThere, At
      <4>3. /\ SameUser(a, o) /\ call[o].kind \in {"reset", "setpw"}
            /\ stage'[o] \in {"done", "error"}
        BY <4>1, <4>2 DEF ResetCommit, SetPasswordUpdate, Goto, At, SameUser, TypeOK
      <4> QED BY <2>1, <4>3 DEF SameUser
    <3> QED BY <3>3, <3>4
  <2> QED BY <2>2, <2>3
<1>3. ASSUME Beside PROVE Winner'
  BY <1>3, BesideFrame DEF Winner, SignedUp, SameUser
<1> QED BY <1>1, <1>2, <1>3, NextCases

(* A reset that is not alone now will not be alone later. *)
LEMMA AloneBefore ==
    ASSUME TypeOK, Called, [Next]_vars, NEW r \in Ops, stage[r] # "idle", Alone(r)'
    PROVE  Alone(r)
<1> SUFFICES ASSUME NEW q \in Ops \ {r}, call[q].kind \in {"reset", "setpw"}, SameUser(q, r),
                    stage[q] \in {"done", "error"}
             PROVE  q \in call[r].after
  BY DEF Alone
<1>1. call'[q] = call[q] /\ stage'[q] = stage[q] /\ call'[r] = call[r]
  BY Stable DEF Ended
<1> QED BY <1>1 DEF Alone, SameUser

(* A reset that was answered had a user: a request found its row.           *)
LEMMA ResetHasRow ==
    ASSUME TypeOK, Called, RowThere, Presented, NEW r \in Ops, Did(r, "reset")
    PROVE  call[r].email \in Emails /\ account[call[r].email] # "none"
<1> DEFINE t == call[r].tok
<1>1. t \in known /\ t \in Ops /\ call[t].email = call[r].email /\ Scope(t) = "password-reset"
  BY DEF Presented, Did, At, TypeOK
<1>2. call[t].kind = "request" /\ stage[t] = "done"
  BY <1>1 DEF Scope, Called
<1>3. account[call[t].email] # "none"
  BY <1>1, <1>2 DEF RowThere
<1> QED BY <1>1, <1>3 DEF Did, At, Called

(* Nobody writes over the password of a reset that stays alone, and a login *)
(* that came after it reads and compares that password.                     *)
LEMMA HoldsStep ==
    ASSUME TypeOK, Called, Storing, RowThere, Presented, ResetHolds, [Next]_vars
    PROVE  ResetHolds'
<1> DEFINE Sees(l, r) ==
             call[l].kind = "login" /\ SameUser(r, l) /\ r \in call[l].after =>
                /\ stage[l] = "verify" => seen[l] = call[r].pwd
                /\ stage[l] \in {"store", "done"} => call[l].pwd = call[r].pwd
<1>1. ASSUME NEW o \in Ops, Opens(o) PROVE ResetHolds'
  <2>1. /\ stage[o] = "idle" /\ stage'[o] \notin {"verify", "store", "done"}
        /\ hash' = hash /\ seen' = seen
        /\ \A q \in Ops : q # o => call'[q] = call[q] /\ stage'[q] = stage[q]
    BY <1>1, OpenFrame DEF Handed
  <2> SUFFICES ASSUME NEW r \in Ops, Did(r, "reset")', Alone(r)'
               PROVE  /\ hash'[call'[r].email] = call'[r].pwd
                      /\ \A l \in Ops : Sees(l, r)'
    BY DEF ResetHolds
  <2>2. r # o /\ Did(r, "reset")
    BY <2>1 DEF Did, At
  <2>3. Alone(r)
    BY <2>2, AloneBefore DEF Did, At
  <2>4. ASSUME NEW l \in Ops PROVE Sees(l, r)'
    BY <2>1, <2>2, <2>3 DEF ResetHolds, SameUser
  <2> QED BY <2>1, <2>2, <2>3, <2>4 DEF ResetHolds
<1>2. ASSUME NEW o \in Ops, Step(o) \/ Fails(o) PROVE ResetHolds'
  <2>1. /\ call' = call /\ stage[o] \in InFlight /\ stage'[o] \in InFlight \cup Ended
        /\ \A q \in Ops : q # o => stage'[q] = stage[q] /\ seen'[q] = seen[q]
    BY <1>2, StepFrame
  <2>2. call[o].email \in Emails
    BY <2>1 DEF Called, InFlight
  <2> SUFFICES ASSUME NEW r \in Ops, call[r].kind = "reset", stage'[r] = "done", Alone(r)'
               PROVE  /\ hash'[call[r].email] = call[r].pwd
                      /\ \A l \in Ops : Sees(l, r)'
    BY <2>1 DEF ResetHolds, Did, At
  <2>3. CASE r = o
    <3>1. ResetCommit(o)
      BY <1>2, <2>3, Moves DEF ActivateCommit, StoreToken, Mail, LogoutDelete, SetPasswordUpdate,
             At, Storing
    <3>2. hash'[call[o].email] = call[o].pwd
      BY <2>2, <3>1 DEF ResetCommit, TypeOK
    <3>3. ASSUME NEW l \in Ops PROVE Sees(l, r)'
      BY <2>1, <2>3 DEF Called, InFlight
    <3> QED BY <2>3, <3>2, <3>3
  <2>4. CASE r # o
    <3>1. Did(r, "reset") /\ Alone(r)
      BY <2>1, <2>4, AloneBefore DEF Did, At
    <3>2. hash[call[r].email] = call[r].pwd /\ \A l \in Ops : Sees(l, r)
      BY <3>1 DEF ResetHolds
    <3>3. call[r].email \in Emails /\ account[call[r].email] # "none"
      BY <3>1, ResetHasRow
    <3>4. ASSUME hash'[call[r].email] # hash[call[r].email] PROVE FALSE
      <4>1. /\ call[r].email = call[o].email
            /\ SignupCommit(o) \/ ResetCommit(o) \/ SetPasswordUpdate(o)
        BY <1>2, <3>3, <3>4, RowWrites
      <4>2. ~SignupCommit(o)
        BY <3>3, <4>1 DEF SignupCommit, RowThere, At
      <4>3. call[o].kind \in {"reset", "setpw"} /\ stage'[o] \in {"done", "error"}
        BY <4>1, <4>2 DEF ResetCommit, SetPasswordUpdate, Goto, At, TypeOK
      <4>4. o \in call[r].after
        BY <2>1, <2>4, <4>1, <4>3 DEF Alone, SameUser
      <4> QED BY <2>1, <4>4 DEF Called, InFlight
    <3>5. ASSUME NEW l \in Ops PROVE Sees(l, r)'
      <4>1. CASE l # o
        BY <2>1, <3>2, <4>1 DEF SameUser
      <4>2. CASE l = o /\ call[o].kind = "login"
        <5>1. stage'[o] = "verify" /\ SameUser(r, o) => seen'[o] = call[r].pwd
          BY <1>2, <3>2, Moves DEF LoginRead, SameUser, TypeOK
        <5>2. stage'[o] = "store" => LoginVerify(o)
          BY <1>2, <4>2, Moves DEF RequestFind, GoogleFind, At
        <5>3. stage'[o] = "done" => stage[o] = "store"
          BY <1>2, <4>2, Moves DEF ActivateCommit, StoreToken, Mail, ResetCommit, LogoutDelete,
                 SetPasswordUpdate, At, Storing
        <5>4. LoginVerify(o) /\ stage'[o] = "store" => stage[o] = "verify" /\ seen[o] = call[o].pwd
          BY DEF LoginVerify, Goto, At, TypeOK
        <5> QED BY <2>1, <3>2, <4>2, <5>1, <5>2, <5>3, <5>4 DEF SameUser
      <4>3. CASE l = o /\ call[o].kind # "login"
        BY <2>1, <4>3
      <4> QED BY <4>1, <4>2, <4>3
    <3> QED BY <3>2, <3>4, <3>5
  <2> QED BY <2>3, <2>4
<1>3. ASSUME Beside PROVE ResetHolds'
  BY <1>3, BesideFrame DEF ResetHolds, Did, At, Alone, SameUser
<1> QED BY <1>1, <1>2, <1>3, NextCases

-----------------------------------------------------------------------------
(* Theorems *)

(* At the start there are accounts, but no token and no call. *)
LEMMA InitInv == Init => IInv
<1> SUFFICES ASSUME Init PROVE IInv
  OBVIOUS
<1>1. TypeOK
  BY InitType
<1>2. \A o \in Ops : stage[o] = "idle" /\ call[o] = NotCalled
  BY DEF Init
<1>3. tokens = {} /\ known = {} /\ \A e \in Emails : lock[e] = NoOp /\ account[e] # "inactive"
  BY DEF Init
<1>4. NotCalled.kind = "none" /\ NotCalled.after = {}
  BY DEF NotCalled
<1>5. Called /\ Storing /\ LockSound
  BY <1>2, <1>3, <1>4 DEF Called, Storing, LockSound
<1>6. DropsSound /\ RowThere /\ Presented /\ Winner
  BY <1>2, <1>4 DEF DropsSound, RowThere, Presented, Winner, SignedUp, At
<1>7. ResetGone /\ ResetOrder /\ ResetHolds /\ Single /\ TokenStays /\ LogoutFinal
  BY <1>2, <1>3, <1>4 DEF ResetGone, ResetOrder, ResetHolds, Single, TokenStays, SignedUp,
        LogoutFinal, Did, At
<1> QED BY <1>1, <1>5, <1>6, <1>7 DEF IInv

(* Every step keeps the invariant. *)
LEMMA StepInv == IInv /\ [Next]_vars => IInv'
<1> SUFFICES ASSUME IInv, [Next]_vars PROVE IInv'
  OBVIOUS
<1> USE DEF IInv
<1>1. TypeOK' /\ Called'
  BY NextType, CalledStep
<1>2. Storing' /\ LockSound' /\ DropsSound'
  BY StoringStep, LockStep, DropsStep
<1>3. RowThere' /\ Presented' /\ Winner'
  BY RowStep, PresentedStep, WinnerStep
<1>4. ResetGone' /\ ResetOrder' /\ ResetHolds'
  BY GoneStep, OrderStep, HoldsStep
<1>5. Single' /\ TokenStays' /\ LogoutFinal'
  BY SingleStep, TokenStaysStep, LogoutStep
<1> QED BY <1>1, <1>2, <1>3, <1>4, <1>5

(* The invariant holds throughout. *)
THEOREM AccountsInvariant == Spec => []IInv
<1> QED BY InitInv, StepInv, PTL DEF Spec

(* Whatever the handlers do, in whatever order, fail or wait: the tables,   *)
(* the clock and the locals keep their types.                               *)
THEOREM AccountsTypes == Spec => []TypeOK
<1>1. IInv => TypeOK
  BY DEF IInv
<1> QED BY <1>1, AccountsInvariant, PTL

(* However handlers race, fail and roll back: who presents the token of his *)
(* activation mail in time is refused only if his account is active already *)
(* (signup, activate_user_handler, delete_token).                           *)
THEOREM ActivationsAreHonoured == Spec => ActivationHonoured
<1> DEFINE Refused(o) == /\ At(o, "activate", "find") /\ Scope(call[o].tok) = "activation"
                         /\ stage'[o] = "refused"
<1>1. ASSUME IInv, [Next]_vars, NEW o \in Ops, Refused(o), expiry[call[o].tok] > now
      PROVE  account[call[o].email] = "active"
  <2> USE DEF IInv
  <2>1. ActivateFind(o)
    <3>1. stage'[o] # stage[o] /\ stage[o] = "find"
      BY <1>1 DEF At
    <3>2. Step(o) \/ Fails(o)
      BY <1>1, <3>1, NextCases, OpenFrame, BesideFrame, StepFrame
    <3>3. ~Fails(o)
      BY <1>1 DEF Fails, Goto, TypeOK
    <3> QED BY <1>1, <3>2, <3>3 DEF Step, SignupInsert, SignupCommit, ActivateCommit, UpdateRow,
            LoginRead, LoginVerify, RequestFind, GoogleFind, StoreToken, Mail, ResetFind,
            ResetCommit, SetPasswordUpdate, LogoutDelete, At
  <2>2. call[o].tok \notin tokens
    BY <1>1, <2>1 DEF ActivateFind, Goto, TypeOK
  <2>3. call[o].tok \in known /\ call[call[o].tok].email = call[o].email
    BY <1>1 DEF Presented, At
  <2>4. SignedUp(call[o].tok)
    BY <1>1, <2>3 DEF SignedUp, Called, Scope, TypeOK
  <2>5. call[o].tok \in Ops
    BY <1>1, <2>3 DEF TypeOK
  <2> QED BY <1>1, <2>2, <2>3, <2>4, <2>5 DEF TokenStays
<1>2. ASSUME IInv, [Next]_vars, NEW o \in Ops, Refused(o)
      PROVE  account[call[o].email] = "active" \/ expiry[call[o].tok] <= now
  <2>1. call[o].tok \in Ops
    BY <1>2 DEF IInv, Presented, At, TypeOK
  <2>2. expiry[call[o].tok] \in Nat /\ now \in Nat
    BY <1>2, <2>1 DEF IInv, TypeOK
  <2> QED BY <1>1, <1>2, <2>2
<1>3. IInv /\ [Next]_vars =>
        [\A o \in Ops :
            LET t == call[o].tok IN
            At(o, "activate", "find") /\ Scope(t) = "activation" /\ stage'[o] = "refused"
            => account[call[o].email] = "active" \/ expiry[t] <= now]_vars
  BY <1>2
<1> QED BY <1>3, AccountsInvariant, PTL DEF Spec, ActivationHonoured

(* For any number of racing sign-ups one wins an address and keeps its      *)
(* password until its user changes it (insert_users, its UNIQUE index).     *)
THEOREM SignupHasOneWinner == Spec => []OneWinner
<1>1. IInv => OneWinner
  BY DEF IInv, Single, Winner, SignedUp, OneWinner, Did, At
<1> QED BY <1>1, AccountsInvariant, PTL

(* A reset that starts after one that was answered cannot use its token     *)
(* (handle_password_reset, delete_tokens).                                  *)
THEOREM ResetTokensAreUsedUp == Spec => []ResetUsesTokenUp
<1>1. IInv => ResetUsesTokenUp
  BY DEF IInv, ResetOrder, ResetUsesTokenUp, Did, At
<1> QED BY <1>1, AccountsInvariant, PTL

(* After an answered reset that no other reset or set_password competes     *)
(* with, only the new password logs in (handle_password_reset, login).      *)
THEOREM ResetsTakeEffect == Spec => []ResetTakesEffect
<1>1. IInv => ResetTakesEffect
  BY DEF IInv, ResetHolds, ResetTakesEffect, Alone, Did, At, SameUser
<1> QED BY <1>1, AccountsInvariant, PTL

(* A session that was logged out is in no row again (logout). *)
THEOREM LogoutsAreFinal == Spec => []LogoutFinal
<1>1. IInv => LogoutFinal
  BY DEF IInv
<1> QED BY <1>1, AccountsInvariant, PTL

(* For any number of overlapping transactions: who holds a row that others  *)
(* wait for waits for nobody, so that there is no circle (tx.commit).       *)
THEOREM NobodyWaitsForTheWaiting == Spec => []WaitsAreShort
<1>1. ASSUME IInv PROVE WaitsAreShort
  <2> SUFFICES ASSUME NEW o \in Ops, NEW q \in Ops, WaitsFor(o, q)
               PROVE  /\ q # o /\ stage[q] \in InFlight
                      /\ \A r \in Ops : ~WaitsFor(q, r)
                      /\ \A e \in Emails : lock[e] = q => e = call[o].email
    BY DEF WaitsAreShort
  <2>1. call[o].email \in Emails /\ q # NoOp
    BY <1>1, AccountsAssumption DEF IInv, Called, WaitsFor
  <2>2. \A e \in Emails : lock[e] = q => stage[q] = "commit" /\ call[q].email = e
    BY <1>1, <2>1 DEF IInv, LockSound
  <2>3. lock[call[o].email] = q /\ stage[o] # "commit"
    BY DEF WaitsFor
  <2>4. stage[q] = "commit" /\ call[q].email = call[o].email
    BY <2>1, <2>2, <2>3
  <2> QED BY <2>2, <2>3, <2>4 DEF WaitsFor, InFlight
<1> QED BY <1>1, AccountsInvariant, PTL

(* The step that changes a password is made by a handler that holds a       *)
(* mailed reset token or a session of the account (validate_token, the      *)
(* session middleware).                                                     *)
THEOREM PasswordsAreTheOwners == Spec => PasswordByOwner
<1> DEFINE Writes(e, o) ==
             /\ stage'[o] \in {"done", "error"}
             /\ call[o].tok \in known /\ call[call[o].tok].email = e
             /\ \/ /\ At(o, "reset", "commit")
                   /\ Scope(call[o].tok) = "password-reset"
                   /\ hash'[e] = call[o].pwd
                \/ /\ At(o, "setpw", "update")
                   /\ Scope(call[o].tok) = "authentication"
<1>1. ASSUME IInv, [Next]_vars, NEW e \in Emails, hash'[e] # hash[e], account[e] # "none"
      PROVE  \E o \in Ops : Writes(e, o)
  <2> USE DEF IInv
  <2>1. PICK o \in Ops : Step(o) \/ Fails(o)
    BY <1>1, NextCases, OpenFrame, BesideFrame
  <2>2. e = call[o].email /\ (SignupCommit(o) \/ ResetCommit(o) \/ SetPasswordUpdate(o))
    BY <1>1, <2>1, RowWrites
  <2>3. ~SignupCommit(o)
    BY <1>1, <2>2 DEF SignupCommit, RowThere, At
  <2>4. CASE ResetCommit(o)
    <3>1. /\ At(o, "reset", "commit") /\ stage'[o] \in {"done", "error"}
          /\ hash'[e] = call[o].pwd
      BY <1>1, <2>2, <2>4 DEF ResetCommit, Goto, TypeOK
    <3> QED BY <1>1, <2>2, <3>1 DEF Presented, At
  <2>5. CASE SetPasswordUpdate(o)
    <3>1. At(o, "setpw", "update") /\ stage'[o] \in {"done", "error"}
      BY <1>1, <2>5 DEF SetPasswordUpdate, Goto, TypeOK
    <3> QED BY <1>1, <2>2, <3>1 DEF Presented, At
  <2> QED BY <2>2, <2>3, <2>4, <2>5
<1>2. IInv /\ [Next]_vars =>
        [\A e \in Emails : hash'[e] # hash[e] /\ account[e] # "none" =>
            \E o \in Ops : Writes(e, o)]_vars
  BY <1>1
<1> QED BY <1>2, AccountsInvariant, PTL DEF Spec, PasswordByOwner

=============================================================================
