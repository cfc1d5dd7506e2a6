--------------------------- MODULE OAuthFlow_proofs ---------------------------
(***************************************************************************)
(* Proofs about OAuthFlow, from OAuthAssumption and for any sets of flows, *)
(* codes, callbacks, Google accounts and addresses.                        *)
(***************************************************************************)
EXTENDS OAuthFlow, TLAPS

(* Whoever has parameters has a code that Google issued and the state of a  *)
(* redirect, perhaps of another flow; both flows were started.              *)
Called ==
    /\ \A f \in urls \cup states : started[f] # -1
    /\ \A k \in Codes : flowOf[k] # None => flowOf[k] \in urls /\ subOf[k] # None
    /\ \A c \in Callbacks :
          /\ code[c] # None => flowOf[code[c]] # None
          /\ state[c] # None => state[c] \in urls
          /\ stage[c] \in AtDatabase \cup AtGoogle \cup {"done"} =>
                code[c] # None /\ state[c] # None

(* Who is past the check has deleted the row of a state that was started;   *)
(* it never comes back.                                                     *)
Checked ==
    /\ \A c \in Callbacks : stage[c] \in AtGoogle \cup AfterUserInfo \cup {"done"} => c \in passed
    /\ \A c \in passed : /\ stage[c] \notin {"idle", "verify"}
                         /\ code[c] # None /\ state[c] # None
                         /\ state[c] \notin states
    /\ OneTimeUse

(* A row expires StateTTL after it was stored. *)
Timed == \A f \in states : expires[f] = started[f] + StateTTL

(* A token is stored, and a session held, for the user that the Google      *)
(* account is linked with.                                                  *)
Linked ==
    /\ \A c \in Callbacks :
          /\ stage[c] = "link" => user[c] \in users
          /\ stage[c] = "store" => user[c] # None /\ links[Sub(c)] = user[c]
    /\ \A c \in sessions : /\ c \in passed
                           /\ stage[c] \in {"done", "error"}
                           /\ user[c] # None /\ links[Sub(c)] = user[c]

IInv == TypeOK /\ Called /\ Checked /\ Timed /\ Linked /\ OwnFlow

-----------------------------------------------------------------------------
(* The start satisfies the invariant. *)
LEMMA InitInv == Init => IInv
<1> SUFFICES ASSUME Init PROVE IInv
    OBVIOUS
<1> USE OAuthAssumption DEF Init
<1>1. TypeOK  BY DEF TypeOK, AtDatabase, AtGoogle, Ended, AfterUserInfo
<1>2. Called  BY DEF Called, AtDatabase, AtGoogle
<1>3. Checked  BY DEF Checked, OneTimeUse, AtGoogle, AfterUserInfo
<1>4. Timed  BY DEF Timed
<1>5. Linked  BY DEF Linked
<1>6. OwnFlow  BY DEF OwnFlow, AfterUserInfo
<1>7. QED  BY <1>1, <1>2, <1>3, <1>4, <1>5, <1>6 DEF IInv

(* Types. *)
LEMMA TypeStep ==
    ASSUME IInv, [Next]_vars
    PROVE  TypeOK'
<1> USE OAuthAssumption DEF IInv, TypeOK, Called, Sub, Goto, AtDatabase, AtGoogle, Ended,
    AfterUserInfo
<1>1. ASSUME NEW f \in Flows, Start(f)
      PROVE  TypeOK'
    BY <1>1 DEF Start, flowVars, googleVars, accountVars, locals, vars
<1>2. ASSUME NEW k \in Codes, NEW f \in Flows, NEW s \in Subs, Agree(k, f, s)
      PROVE  TypeOK'
    BY <1>2 DEF Agree, flowVars, googleVars, accountVars, locals, vars
<1>3. ASSUME NEW c \in Callbacks, NEW k \in Codes, NEW f \in Flows, Return(c, k, f)
      PROVE  TypeOK'
    BY <1>3 DEF Return, flowVars, googleVars, accountVars, locals, vars
<1>4. ASSUME NEW c \in Callbacks, ReturnDenied(c)
      PROVE  TypeOK'
    BY <1>4 DEF ReturnDenied, flowVars, googleVars, accountVars, locals, vars
<1>5. ASSUME NEW c \in Callbacks, VerifyState(c)
      PROVE  TypeOK'
    BY <1>5 DEF VerifyState, flowVars, googleVars, accountVars, locals, vars
<1>6. ASSUME NEW c \in Callbacks, FindLink(c)
      PROVE  TypeOK'
    BY <1>6 DEF FindLink, flowVars, googleVars, accountVars, locals, vars
<1>7. ASSUME NEW c \in Callbacks, FindUser(c)
      PROVE  TypeOK'
    BY <1>7 DEF FindUser, flowVars, googleVars, accountVars, locals, vars
<1>8. ASSUME NEW c \in Callbacks, InsertLink(c)
      PROVE  TypeOK'
    BY <1>8 DEF InsertLink, flowVars, googleVars, accountVars, locals, vars
<1>9. ASSUME NEW c \in Callbacks, CreateUser(c)
      PROVE  TypeOK'
    BY <1>9 DEF CreateUser, flowVars, googleVars, accountVars, locals, vars
<1>10. ASSUME NEW c \in Callbacks, StoreToken(c)
      PROVE  TypeOK'
    BY <1>10 DEF StoreToken, flowVars, googleVars, accountVars, locals, vars
<1>11. ASSUME NEW c \in Callbacks, Exchange(c)
      PROVE  TypeOK'
    BY <1>11 DEF Exchange, flowVars, googleVars, accountVars, locals, vars
<1>12. ASSUME NEW c \in Callbacks, UserInfo(c)
      PROVE  TypeOK'
    BY <1>12 DEF UserInfo, flowVars, googleVars, accountVars, locals, vars
<1>13. ASSUME NEW c \in Callbacks, Fails(c)
      PROVE  TypeOK'
    BY <1>13 DEF Fails, flowVars, googleVars, accountVars, locals, vars
<1>14. ASSUME NEW e \in Emails, SignUp(e)
      PROVE  TypeOK'
    BY <1>14 DEF SignUp, flowVars, googleVars, accountVars, locals, vars
<1>15. ASSUME NEW s \in Subs, NEW e \in Emails, ChangeAddress(s, e)
      PROVE  TypeOK'
    BY <1>15 DEF ChangeAddress, flowVars, googleVars, accountVars, locals, vars
<1>16. ASSUME Tick
      PROVE  TypeOK'
    BY <1>16 DEF Tick, flowVars, googleVars, accountVars, locals, vars
<1>17. CASE UNCHANGED vars
    BY <1>17 DEF flowVars, googleVars, accountVars, locals, vars
<1>18. QED  BY <1>1, <1>2, <1>3, <1>4, <1>5, <1>6, <1>7, <1>8, <1>9, <1>10, <1>11, <1>12,
    <1>13, <1>14, <1>15, <1>16, <1>17 DEF Next, Database, Google

(* Codes and their flows. *)
LEMMA CalledStep ==
    ASSUME IInv, [Next]_vars
    PROVE  Called'
<1> USE OAuthAssumption DEF IInv, TypeOK, Called, Goto, AtDatabase, AtGoogle, Ended,
    AfterUserInfo
<1>1. ASSUME NEW f \in Flows, Start(f)
      PROVE  Called'
    BY <1>1 DEF Start, flowVars, googleVars, accountVars, locals, vars
<1>2. ASSUME NEW k \in Codes, NEW f \in Flows, NEW s \in Subs, Agree(k, f, s)
      PROVE  Called'
    BY <1>2 DEF Agree, flowVars, googleVars, accountVars, locals, vars
<1>3. ASSUME NEW c \in Callbacks, NEW k \in Codes, NEW f \in Flows, Return(c, k, f)
      PROVE  Called'
    BY <1>3 DEF Return, flowVars, googleVars, accountVars, locals, vars
<1>4. ASSUME NEW c \in Callbacks, VerifyState(c)
      PROVE  Called'
    BY <1>4 DEF VerifyState, flowVars, googleVars, accountVars, locals, vars
<1>5. ASSUME NEW c \in Callbacks, FindLink(c)
      PROVE  Called'
    BY <1>5 DEF FindLink, flowVars, googleVars, accountVars, locals, vars
<1>6. ASSUME NEW c \in Callbacks, FindUser(c)
      PROVE  Called'
    BY <1>6 DEF FindUser, flowVars, googleVars, accountVars, locals, vars
<1>7. ASSUME NEW c \in Callbacks, InsertLink(c)
      PROVE  Called'
    BY <1>7 DEF InsertLink, flowVars, googleVars, accountVars, locals, vars
<1>8. ASSUME NEW c \in Callbacks, StoreToken(c)
      PROVE  Called'
    BY <1>8 DEF StoreToken, flowVars, googleVars, accountVars, locals, vars
<1>9. ASSUME NEW c \in Callbacks, Exchange(c)
      PROVE  Called'
    BY <1>9 DEF Exchange, flowVars, googleVars, accountVars, locals, vars
<1>10. ASSUME NEW c \in Callbacks, UserInfo(c)
      PROVE  Called'
    BY <1>10 DEF UserInfo, flowVars, googleVars, accountVars, locals, vars
<1>11. CASE \/ \E c \in Callbacks : ReturnDenied(c) \/ CreateUser(c) \/ Fails(c)
            \/ \E e \in Emails : SignUp(e)
            \/ \E s \in Subs, e \in Emails : ChangeAddress(s, e)
            \/ Tick
    BY <1>11 DEF ReturnDenied, CreateUser, Fails, SignUp, ChangeAddress, Tick, flowVars,
        googleVars, accountVars, locals, vars
<1>12. CASE UNCHANGED vars
    BY <1>12 DEF flowVars, googleVars, accountVars, locals, vars
<1>13. QED  BY <1>1, <1>2, <1>3, <1>4, <1>5, <1>6, <1>7, <1>8, <1>9, <1>10, <1>11, <1>12 DEF
    Next, Database, Google

(* A state is used once. *)
LEMMA CheckedStep ==
    ASSUME IInv, [Next]_vars
    PROVE  Checked'
<1> USE OAuthAssumption DEF IInv, TypeOK, Called, Checked, OneTimeUse, Valid, Goto,
    AtDatabase, AtGoogle, Ended, AfterUserInfo
<1>1. ASSUME NEW f \in Flows, Start(f)
      PROVE  Checked'
    BY <1>1 DEF Start, flowVars, googleVars, accountVars, locals, vars
<1>2. ASSUME NEW k \in Codes, NEW f \in Flows, NEW s \in Subs, Agree(k, f, s)
      PROVE  Checked'
    BY <1>2 DEF Agree, flowVars, googleVars, accountVars, locals, vars
<1>3. ASSUME NEW c \in Callbacks, NEW k \in Codes, NEW f \in Flows, Return(c, k, f)
      PROVE  Checked'
    BY <1>3 DEF Return, flowVars, googleVars, accountVars, locals, vars
<1>4. ASSUME NEW c \in Callbacks, ReturnDenied(c)
      PROVE  Checked'
    BY <1>4 DEF ReturnDenied, flowVars, googleVars, accountVars, locals, vars
<1>5. ASSUME NEW c \in Callbacks, VerifyState(c)
      PROVE  Checked'
    BY <1>5 DEF VerifyState, flowVars, googleVars, accountVars, locals, vars
<1>6. ASSUME NEW c \in Callbacks, FindLink(c)
      PROVE  Checked'
    BY <1>6 DEF FindLink, flowVars, googleVars, accountVars, locals, vars
<1>7. ASSUME NEW c \in Callbacks, FindUser(c)
      PROVE  Checked'
    BY <1>7 DEF FindUser, flowVars, googleVars, accountVars, locals, vars
<1>8. ASSUME NEW c \in Callbacks, InsertLink(c)
      PROVE  Checked'
    BY <1>8 DEF InsertLink, flowVars, googleVars, accountVars, locals, vars
<1>9. ASSUME NEW c \in Callbacks, StoreToken(c)
      PROVE  Checked'
    BY <1>9 DEF StoreToken, flowVars, googleVars, accountVars, locals, vars
<1>10. ASSUME NEW c \in Callbacks, Exchange(c)
      PROVE  Checked'
    BY <1>10 DEF Exchange, flowVars, googleVars, accountVars, locals, vars
<1>11. ASSUME NEW c \in Callbacks, UserInfo(c)
      PROVE  Checked'
    BY <1>11 DEF UserInfo, flowVars, googleVars, accountVars, locals, vars
<1>12. CASE \/ \E c \in Callbacks : CreateUser(c) \/ Fails(c)
            \/ \E e \in Emails : SignUp(e)
            \/ \E s \in Subs, e \in Emails : ChangeAddress(s, e)
            \/ Tick
    BY <1>12 DEF CreateUser, Fails, SignUp, ChangeAddress, Tick, flowVars, googleVars,
        accountVars, locals, vars
<1>13. CASE UNCHANGED vars
    BY <1>13 DEF flowVars, googleVars, accountVars, locals, vars
<1>14. QED  BY <1>1, <1>2, <1>3, <1>4, <1>5, <1>6, <1>7, <1>8, <1>9, <1>10, <1>11, <1>12,
    <1>13 DEF Next, Database, Google

(* Expiry. *)
LEMMA TimedStep ==
    ASSUME IInv, [Next]_vars
    PROVE  Timed'
<1> USE OAuthAssumption DEF IInv, TypeOK, Called, Timed, Goto, AtDatabase, AtGoogle, Ended,
    AfterUserInfo
<1>1. ASSUME NEW f \in Flows, Start(f)
      PROVE  Timed'
    BY <1>1 DEF Start, flowVars, googleVars, accountVars, locals, vars
<1>2. ASSUME NEW c \in Callbacks, VerifyState(c)
      PROVE  Timed'
    BY <1>2 DEF VerifyState, flowVars, googleVars, accountVars, locals, vars
<1>3. CASE \/ \E c \in Callbacks : ReturnDenied(c) \/ FindLink(c) \/ FindUser(c) \/ InsertLink(c) \/ CreateUser(c) \/ StoreToken(c) \/ Exchange(c) \/ UserInfo(c) \/ Fails(c)
           \/ \E k \in Codes, f \in Flows, s \in Subs : Agree(k, f, s)
           \/ \E c \in Callbacks, k \in Codes, f \in Flows : Return(c, k, f)
           \/ \E e \in Emails : SignUp(e)
           \/ \E s \in Subs, e \in Emails : ChangeAddress(s, e)
           \/ Tick
    BY <1>3 DEF Agree, Return, ReturnDenied, FindLink, FindUser, InsertLink, CreateUser,
        StoreToken, Exchange, UserInfo, Fails, SignUp, ChangeAddress, Tick, flowVars,
        googleVars, accountVars, locals, vars
<1>4. CASE UNCHANGED vars
    BY <1>4 DEF flowVars, googleVars, accountVars, locals, vars
<1>5. QED  BY <1>1, <1>2, <1>3, <1>4 DEF Next, Database, Google

(* Links and sessions. *)
LEMMA LinkedStep ==
    ASSUME IInv, [Next]_vars
    PROVE  Linked'
<1> USE OAuthAssumption DEF IInv, TypeOK, Called, Linked, Checked, Sub, Goto, AtDatabase,
    AtGoogle, Ended, AfterUserInfo
<1>1. ASSUME NEW k \in Codes, NEW f \in Flows, NEW s \in Subs, Agree(k, f, s)
      PROVE  Linked'
    BY <1>1 DEF Agree, flowVars, googleVars, accountVars, locals, vars
<1>2. ASSUME NEW c \in Callbacks, NEW k \in Codes, NEW f \in Flows, Return(c, k, f)
      PROVE  Linked'
    BY <1>2 DEF Return, flowVars, googleVars, accountVars, locals, vars
<1>3. ASSUME NEW c \in Callbacks, ReturnDenied(c)
      PROVE  Linked'
    BY <1>3 DEF ReturnDenied, flowVars, googleVars, accountVars, locals, vars
<1>4. ASSUME NEW c \in Callbacks, FindLink(c)
      PROVE  Linked'
    BY <1>4 DEF FindLink, flowVars, googleVars, accountVars, locals, vars
<1>5. ASSUME NEW c \in Callbacks, FindUser(c)
      PROVE  Linked'
    BY <1>5 DEF FindUser, flowVars, googleVars, accountVars, locals, vars
<1>6. ASSUME NEW c \in Callbacks, InsertLink(c)
      PROVE  Linked'
    BY <1>6 DEF InsertLink, flowVars, googleVars, accountVars, locals, vars
<1>7. ASSUME NEW c \in Callbacks, StoreToken(c)
      PROVE  Linked'
    BY <1>7 DEF StoreToken, flowVars, googleVars, accountVars, locals, vars
<1>8. ASSUME NEW c \in Callbacks, Fails(c)
      PROVE  Linked'
    BY <1>8 DEF Fails, flowVars, googleVars, accountVars, locals, vars
<1>9. ASSUME NEW e \in Emails, SignUp(e)
      PROVE  Linked'
    BY <1>9 DEF SignUp, flowVars, googleVars, accountVars, locals, vars
<1>10. CASE \/ \E c \in Callbacks : VerifyState(c) \/ CreateUser(c) \/ Exchange(c) \/ UserInfo(c)
            \/ \E f \in Flows : Start(f)
            \/ \E s \in Subs, e \in Emails : ChangeAddress(s, e)
            \/ Tick
    BY <1>10 DEF Start, VerifyState, CreateUser, Exchange, UserInfo, ChangeAddress, Tick,
        flowVars, googleVars, accountVars, locals, vars
<1>11. CASE UNCHANGED vars
    BY <1>11 DEF flowVars, googleVars, accountVars, locals, vars
<1>12. QED  BY <1>1, <1>2, <1>3, <1>4, <1>5, <1>6, <1>7, <1>8, <1>9, <1>10, <1>11 DEF Next,
    Database, Google

(* What Google compares binds the code to the flow of the state: a verifier *)
(* that it takes for a challenge is the one the challenge was derived from. *)
LEMMA Bound ==
    ASSUME IInv, NEW c \in Callbacks, stage[c] = "exchange", Accepts(c)
    PROVE  flowOf[code[c]] = state[c]
<1>1. flowOf[code[c]] \in Flows /\ state[c] \in Flows
    BY DEF IInv, TypeOK, Called, AtGoogle
<1>2. Challenge(flowOf[code[c]]) = Derive(Verifier(state[c]))
    BY <1>1, OAuthAssumption DEF Accepts, Compared
<1>3. QED  BY <1>2 DEF Challenge, Derive, Verifier

(* Codes and states. *)
LEMMA OwnFlowStep ==
    ASSUME IInv, [Next]_vars
    PROVE  OwnFlow'
<1> USE OAuthAssumption DEF IInv, TypeOK, Called, Checked, Linked, OwnFlow, Goto, AtDatabase,
    AtGoogle, Ended, AfterUserInfo
<1>1. ASSUME NEW c \in Callbacks, Exchange(c)
      PROVE  OwnFlow'
    <2>1. Accepts(c) => flowOf[code[c]] = state[c]
        BY <1>1, Bound DEF Exchange
    <2>2. QED  BY <1>1, <2>1 DEF Exchange, flowVars, accountVars, locals
<1>2. ASSUME NEW k \in Codes, NEW f \in Flows, NEW s \in Subs, Agree(k, f, s)
      PROVE  OwnFlow'
    BY <1>2 DEF Agree, flowVars, accountVars, locals
<1>3. ASSUME NEW c \in Callbacks, NEW k \in Codes, NEW f \in Flows, Return(c, k, f)
      PROVE  OwnFlow'
    BY <1>3 DEF Return, flowVars, googleVars, accountVars
<1>4. ASSUME NEW c \in Callbacks, FindLink(c) \/ FindUser(c)
      PROVE  OwnFlow'
    BY <1>4 DEF FindLink, FindUser, flowVars, googleVars, accountVars
<1>5. ASSUME NEW c \in Callbacks, InsertLink(c) \/ StoreToken(c)
      PROVE  OwnFlow'
    BY <1>5 DEF InsertLink, StoreToken, flowVars, googleVars, accountVars, locals
<1>6. ASSUME NEW c \in Callbacks, UserInfo(c)
      PROVE  OwnFlow'
    BY <1>6 DEF UserInfo, flowVars, googleVars, accountVars
<1>7. ASSUME NEW c \in Callbacks, ReturnDenied(c) \/ VerifyState(c) \/ CreateUser(c) \/ Fails(c)
      PROVE  OwnFlow'
    BY <1>7 DEF ReturnDenied, VerifyState, CreateUser, Fails, flowVars, googleVars,
        accountVars, locals
<1>8. CASE \/ \E f \in Flows : Start(f)
           \/ \E e \in Emails : SignUp(e)
           \/ \E s \in Subs, e \in Emails : ChangeAddress(s, e)
           \/ Tick
    BY <1>8 DEF Start, SignUp, ChangeAddress, Tick, flowVars, googleVars, accountVars, locals
<1>9. CASE UNCHANGED vars
    BY <1>9 DEF flowVars, googleVars, accountVars, locals, vars
<1>10. QED  BY <1>1, <1>2, <1>3, <1>4, <1>5, <1>6, <1>7, <1>8, <1>9 DEF Next, Database, Google

(* The invariant holds. *)
THEOREM Invariance == Spec => []IInv
<1>1. IInv /\ [Next]_vars => IInv'
    <2> SUFFICES ASSUME IInv, [Next]_vars PROVE IInv'
        OBVIOUS
    <2>1. TypeOK' /\ Called' /\ Checked' /\ Timed' /\ Linked' /\ OwnFlow'
        BY TypeStep, CalledStep, CheckedStep, TimedStep, LinkedStep, OwnFlowStep
    <2>2. QED  BY <2>1 DEF IInv
<1>2. QED  BY InitInv, <1>1, PTL DEF Spec

(* Tables, flows and callbacks keep their types; a callback that looks for  *)
(* its user has an address (redirect_uri, ok_or_else).                      *)
THEOREM OAuthTypes == Spec => []TypeOK
<1>1. IInv => TypeOK  BY DEF IInv
<1>2. QED  BY Invariance, <1>1, PTL

(* verify_and_delete_oauth_state lets one callback of a state through, for  *)
(* any number of reloads, second consents and failed exchanges.             *)
THEOREM StatesAreUsedOnce == Spec => []OneTimeUse
<1>1. IInv => OneTimeUse  BY DEF IInv, Checked
<1>2. QED  BY Invariance, <1>1, PTL

(* Whatever code anybody puts beside whatever state, redirect_uri lets no   *)
(* one in unless the code was issued for the redirect of that state.        *)
THEOREM CodesStayWithTheirStates == Spec => []OwnFlow
<1>1. IInv => OwnFlow  BY DEF IInv
<1>2. QED  BY Invariance, <1>1, PTL

(* Nobody gets past the state check later than the two terms of             *)
(* store_oauth_state and verify_and_delete_oauth_state allow.               *)
THEOREM StaleNeverPass == Spec => StaleStatesRefused
<1> DEFINE Fresh == \A c \in passed' \ passed : now - started[state[c]] < StateTTL + Grace
<1>1. IInv /\ [Next]_vars => [Fresh]_vars
    <2> SUFFICES ASSUME IInv, [Next]_vars PROVE Fresh
        OBVIOUS
    <2>1. SUFFICES ASSUME NEW c \in passed' \ passed
                   PROVE  now - started[state[c]] < StateTTL + Grace
        OBVIOUS
    <2>2. VerifyState(c) /\ c \in Callbacks
        BY <2>1 DEF Next, Database, Google, vars, flowVars, googleVars, accountVars, locals,
            Start, Agree, Return, ReturnDenied, VerifyState, Exchange, UserInfo, FindLink, FindUser,
            InsertLink, CreateUser, StoreToken, Fails, SignUp, ChangeAddress, Tick
    <2>3. Valid(c)
        BY <2>1, <2>2 DEF VerifyState
    <2>4. state[c] \in Flows /\ expires[state[c]] = started[state[c]] + StateTTL
        BY <2>3 DEF Valid, IInv, TypeOK, Timed
    <2>5. /\ now \in Int /\ StateTTL \in Int /\ Grace \in Int /\ started[state[c]] \in Int
          /\ expires[state[c]] > now - Grace
        BY <2>3, <2>4, OAuthAssumption DEF Valid, IInv, TypeOK
    <2>6. QED  BY <2>4, <2>5
<1>2. QED  BY Invariance, <1>1, PTL DEF Spec, StaleStatesRefused

-----------------------------------------------------------------------------
(* The refinement.  Only Agree, InsertLink, StoreToken and SignUp show. *)

Agreed   == {<<flowOf[k], subOf[k]>> : k \in {i \in Codes : flowOf[i] # None}}
Sessions == {<<state[c], user[c]>> : c \in sessions}

LEMMA InitSignIn == Init => SI!Init
    BY DEF Init, SI!Init

(* Flow and user of a session do not change. *)
LEMMA SessionsStay ==
    ASSUME IInv, [Next]_vars
    PROVE  \A c \in sessions : state'[c] = state[c] /\ user'[c] = user[c]
<1> USE OAuthAssumption DEF IInv, TypeOK, Checked, Linked, AtDatabase, AtGoogle
<1>1. QED
    BY DEF Next, Database, Google, vars, flowVars, googleVars, accountVars, locals,
        Start, Agree, Return, ReturnDenied, VerifyState, Exchange, UserInfo, FindLink, FindUser,
        InsertLink, CreateUser, StoreToken, Fails, SignUp, ChangeAddress, Tick

LEMMA AgreedStay == flowOf' = flowOf /\ subOf' = subOf => Agreed' = Agreed
    BY DEF Agreed

LEMMA SessionsSame ==
    ASSUME IInv, [Next]_vars, sessions' = sessions
    PROVE  Sessions' = Sessions
    BY SessionsStay DEF Sessions

(* Every step of OAuthFlow is one of SignIn or changes nothing of it. *)
LEMMA StepSignIn ==
    ASSUME IInv, [Next]_vars
    PROVE  [SI!Next]_(SI!vars)
<1> DEFINE Same == Agreed' = Agreed /\ users' = users /\ links' = links /\ Sessions' = Sessions
<1> USE OAuthAssumption DEF IInv, TypeOK
<1>0. Same => UNCHANGED SI!vars
    BY DEF SI!vars, Agreed, Sessions
<1>1. ASSUME NEW k \in Codes, NEW f \in Flows, NEW s \in Subs, Agree(k, f, s)
      PROVE  SI!Next
    <2>1. Agreed' = Agreed \cup {<<f, s>>}
        BY <1>1 DEF Agree, Agreed
    <2>2. Sessions' = Sessions /\ users' = users /\ links' = links
        BY <1>1, SessionsSame DEF Agree, accountVars
    <2>3. SI!Agree(f, s)
        BY <2>1, <2>2 DEF SI!Agree, Agreed, Sessions
    <2>4. QED  BY <2>3 DEF SI!Next
<1>2. ASSUME NEW e \in Emails, SignUp(e)
      PROVE  SI!Next
    <2>1. Agreed' = Agreed /\ Sessions' = Sessions
        BY <1>2, SessionsSame, AgreedStay DEF SignUp, googleVars
    <2>2. SI!SignUp(e)
        BY <1>2, <2>1 DEF SignUp, SI!SignUp, Agreed, Sessions
    <2>3. QED  BY <2>2 DEF SI!Next
<1>3. ASSUME NEW c \in Callbacks, InsertLink(c)
      PROVE  SI!Next \/ Same
    <2>1. Agreed' = Agreed /\ Sessions' = Sessions
        BY <1>3, SessionsSame, AgreedStay DEF InsertLink, googleVars
    <2>2. CASE links[Sub(c)] # None
        BY <1>3, <2>1, <2>2 DEF InsertLink
    <2>3. CASE links[Sub(c)] = None
        <3>1. /\ code[c] \in Codes /\ state[c] \in Flows /\ Sub(c) \in Subs
              /\ flowOf[code[c]] = state[c] /\ state[c] # None
              /\ user[c] \in users
            BY <1>3 DEF InsertLink, Called, Linked, OwnFlow, Sub, AtDatabase,
                AfterUserInfo
        <3>2. <<state[c], Sub(c)>> \in Agreed
            BY <3>1 DEF Agreed, Sub
        <3>3. /\ users' = users
              /\ links' = [links EXCEPT ![Sub(c)] = user[c]]
            BY <1>3, <2>3 DEF InsertLink
        <3>4. SI!Bind(Sub(c), user[c])
            BY <2>1, <2>3, <3>1, <3>2, <3>3 DEF SI!Bind, Agreed, Sessions
        <3>5. QED  BY <3>1, <3>4 DEF SI!Next
    <2>4. QED  BY <2>2, <2>3
<1>4. ASSUME NEW c \in Callbacks, StoreToken(c)
      PROVE  SI!Next
    <2>1. /\ code[c] \in Codes /\ state[c] \in Flows /\ Sub(c) \in Subs
          /\ flowOf[code[c]] = state[c] /\ state[c] # None
          /\ c \in passed /\ c \notin sessions
          /\ user[c] # None /\ links[Sub(c)] = user[c]
        BY <1>4 DEF StoreToken, Called, Linked, Checked, OwnFlow, Sub, AtDatabase,
            AfterUserInfo
    <2>2. <<state[c], Sub(c)>> \in Agreed
        BY <2>1 DEF Agreed, Sub
    <2>3. \A d \in sessions : state[d] # state[c]
        BY <2>1 DEF Linked, Checked, OneTimeUse
    <2>4. \A e \in Emails : <<state[c], e>> \notin Sessions
        BY <2>3 DEF Sessions
    <2>5. /\ sessions' = sessions \cup {c}
          /\ code' = code /\ state' = state /\ user' = user /\ flowOf' = flowOf /\ subOf' = subOf
          /\ users' = users /\ links' = links
        BY <1>4 DEF StoreToken, googleVars, accountVars, locals
    <2>6. Sessions' = Sessions \cup {<<state[c], links[Sub(c)]>>}
        BY <2>1, <2>5 DEF Sessions
    <2>7. Agreed' = Agreed
        BY <2>5, AgreedStay
    <2>8. PICK f \in Flows, s \in Subs : f = state[c] /\ s = Sub(c)
        BY <2>1
    <2>9. SI!Open(f, s)
        BY <2>1, <2>2, <2>4, <2>5, <2>6, <2>7, <2>8 DEF SI!Open, Agreed, Sessions
    <2>10. QED  BY <2>9 DEF SI!Next
<1>5. \/ \E k \in Codes, f \in Flows, s \in Subs : Agree(k, f, s)
      \/ \E e \in Emails : SignUp(e)
      \/ \E c \in Callbacks : InsertLink(c) \/ StoreToken(c)
      \/ flowOf' = flowOf /\ subOf' = subOf /\ users' = users /\ links' = links /\ sessions' = sessions
    BY DEF Next, Database, Google, vars, flowVars, googleVars, accountVars, Start, Return,
        ReturnDenied, VerifyState, Exchange, UserInfo, FindLink, FindUser, CreateUser, Fails,
        ChangeAddress, Tick
<1>6. CASE flowOf' = flowOf /\ subOf' = subOf /\ users' = users /\ links' = links /\ sessions' = sessions
    BY <1>0, <1>6, SessionsSame, AgreedStay
<1>7. QED  BY <1>0, <1>1, <1>2, <1>3, <1>4, <1>5, <1>6

(* The handlers implement SignIn: a flow opens one session at most, of the  *)
(* user its Google account was linked with first.                           *)
THEOREM SignInImplemented == Spec => ImplementsSignIn
<1>1. QED  BY InitSignIn, StepSignIn, Invariance, PTL DEF Spec, ImplementsSignIn, SI!Spec

=============================================================================
