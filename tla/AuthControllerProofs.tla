------------------------ MODULE AuthControllerProofs ------------------------
(***************************************************************************)
(* Theorems about AuthController for every set of browsers and logins.     *)
(* What is true of AuthService alone stays true under it, and a cookie is  *)
(* always that of a login that has its token.                              *)
(***************************************************************************)
EXTENDS AuthController, AuthServiceProofs

(* Whatever a browser presents as a valid token was issued; "me" answers   *)
(* about an account only to such a token, and finds the account.           *)
CookiesFollow ==
  /\ \A b \in Browser : cookie[b] \in Login => login[cookie[b]] = "token"
  /\ \A b \in Browser :
       /\ last[b].answer # "notfound"
       /\ last[b].answer = "user" => /\ last[b].cookie \in Login
                                     /\ login[last[b].cookie] = "token"

(* The inductive invariant.                                                *)
SessionInv == LoginInv /\ SessionTypeOK /\ CookiesFollow

-----------------------------------------------------------------------------
(* Logins *)

LEMMA LoginNextInv ==
  ASSUME LoginInv, LoginNext
  PROVE  LoginInv'
  BY LeakInv, LoginStepInv DEF LoginNext

(* A login that has its token keeps it.                                    *)
LEMMA TokenStays ==
  ASSUME LoginInv, LoginNext, NEW l \in Login, login[l] = "token"
  PROVE  login'[l] = "token"
  <1> USE DEF LoginInv, LoginTypeOK
  <1>1. CASE LeakConnection
    BY <1>1 DEF LeakConnection
  <1>2. ASSUME NEW m \in Login, LoginStep(m)
        PROVE  login'[l] = "token"
    <2>1. login[m] # "token"
      BY <1>2
      DEF LoginStep, LoginProceed, Arrive, BeginLogin, GoogleAnswers, FindUser, ReadUser,
          CreateUser, DuplicateEmail, CommitLogin, GoogleFails, AcquireTimeout,
          AbortLogin, CommitLoginUnanswered, LoginGoto, InLogin
    <2>2. \E p : login' = [login EXCEPT ![m] = p]
      BY <1>2
      DEF LoginStep, LoginProceed, Arrive, BeginLogin, GoogleAnswers, FindUser, ReadUser,
          CreateUser, DuplicateEmail, CommitLogin, GoogleFails, AcquireTimeout,
          AbortLogin, CommitLoginUnanswered, LoginGoto, RollbackLogin
    <2>3. QED
      BY <2>1, <2>2
  <1>3. QED
    BY <1>1, <1>2 DEF LoginNext

(* A step of the logins leaves every browser as it was.                    *)
LEMMA LoginKeepsSessions ==
  ASSUME SessionInv, LoginNext, UNCHANGED sessionVars
  PROVE  SessionInv'
  <1> USE DEF SessionInv, sessionVars
  <1>1. LoginInv'
    BY LoginNextInv
  <1>2. SessionTypeOK'
    BY <1>1 DEF SessionTypeOK, LoginInv
  <1>3. CookiesFollow'
    BY TokenStays DEF CookiesFollow
  <1>4. QED
    BY <1>1, <1>2, <1>3

-----------------------------------------------------------------------------
(* Browsers *)

(* The steps of a browser are none of AuthService.                         *)
LEMMA LoginsUntouched ==
  ASSUME LoginInv, UNCHANGED loginVars
  PROVE  LoginInv'
  BY DEF loginVars, rows, LoginInv, LoginTypeOK, ConnectionsFollow, PoolConserved, Held,
         RowsFollow, TokenMeansUser

(* Only a login that has its token sets a cookie.                          *)
LEMMA GoogleLoginInv ==
  ASSUME SessionInv, NEW l \in Login, GoogleLogin(l)
  PROVE  SessionInv'
  <1> USE DEF SessionInv
  <1>1. /\ login[l] = "token" /\ login' = login
        /\ cookie' = [cookie EXCEPT ![BrowserOf[l]] = l]
        /\ answered' = answered \cup {l} /\ last' = last
    BY DEF GoogleLogin, loginVars
  <1>2. LoginInv'
    BY LoginsUntouched DEF GoogleLogin
  <1>3. SessionTypeOK'
    BY <1>1, <1>2, SessionAssumption DEF SessionTypeOK, LoginInv
  <1>4. CookiesFollow'
    BY <1>1, SessionAssumption DEF CookiesFollow, SessionTypeOK
  <1>5. QED
    BY <1>2, <1>3, <1>4

(* "me" finds the user of every token that the guard lets through.         *)
LEMMA GetMeInv ==
  ASSUME SessionInv, NEW b \in Browser, GetMe(b)
  PROVE  SessionInv'
  <1> DEFINE answer == IF ~ValidateRequest(cookie[b]) THEN "forbidden"
                       ELSE IF FindById(user[cookie[b]]) THEN "user" ELSE "notfound"
             call == [cookie |-> cookie[b], answer |-> answer]
  <1> USE DEF SessionInv
  <1>1. /\ last' = [last EXCEPT ![b] = call]
        /\ UNCHANGED <<login, answered, cookie>>
    BY DEF GetMe, loginVars
  <1>2. LoginInv'
    BY LoginsUntouched DEF GetMe
  <1>3. \/ answer = "forbidden"
        \/ answer = "user" /\ cookie[b] \in Login /\ login[cookie[b]] = "token"
    <2>1. CASE ~ValidateRequest(cookie[b])
      BY <2>1
    <2>2. CASE ValidateRequest(cookie[b])
      <3>1. cookie[b] \in Login /\ login[cookie[b]] = "token"
        BY <2>2 DEF ValidateRequest, VerifyJwtToken, CookiesFollow
      <3>2. FindById(user[cookie[b]])
        BY <3>1, LoginAssumption DEF FindById, LoginInv, TokenMeansUser
      <3>3. QED
        BY <2>2, <3>1, <3>2
    <2>3. QED
      BY <2>1, <2>2
  <1>4. SessionTypeOK'
    <2>1. /\ cookie[b] \in Login \cup {Nobody, Stale}
          /\ answer \in {"none", "forbidden", "notfound", "user"}
      BY <1>3 DEF SessionTypeOK
    <2>2. QED
      BY <1>1, <1>2, <2>1 DEF SessionTypeOK, LoginInv
  <1>5. CookiesFollow'
    <2> HIDE DEF answer
    <2>1. ASSUME NEW c \in Browser
          PROVE  /\ last'[c].answer # "notfound"
                 /\ last'[c].answer = "user" => /\ last'[c].cookie \in Login
                                                /\ login[last'[c].cookie] = "token"
      BY <1>1, <1>3 DEF CookiesFollow, SessionTypeOK
    <2>2. QED
      BY <1>1, <2>1 DEF CookiesFollow
  <1>6. QED
    BY <1>2, <1>4, <1>5

(* A cookie that goes, by logout or by age, is nobody's.                   *)
LEMMA CookieGoneInv ==
  ASSUME SessionInv, NEW b \in Browser, Logout(b) \/ TokenExpires(b)
  PROVE  SessionInv'
  <1> USE SessionAssumption, LoginAssumption DEF SessionInv
  <1>1. UNCHANGED <<login, answered, last>>
    BY DEF Logout, TokenExpires, loginVars
  <1>2. PICK t \in {Nobody, Stale} : cookie' = [cookie EXCEPT ![b] = t]
    BY DEF Logout, TokenExpires
  <1>3. LoginInv'
    BY LoginsUntouched DEF Logout, TokenExpires
  <1>4. SessionTypeOK'
    BY <1>1, <1>2, <1>3 DEF SessionTypeOK, LoginInv
  <1>5. CookiesFollow'
    BY <1>1, <1>2 DEF CookiesFollow, SessionTypeOK
  <1>6. QED
    BY <1>3, <1>4, <1>5

-----------------------------------------------------------------------------

LEMMA SessionInitInv == SessionInit => SessionInv
  <1> SUFFICES ASSUME SessionInit PROVE SessionInv
    OBVIOUS
  <1>1. LoginInv
    BY LoginInitInv DEF SessionInit
  <1>2. SessionTypeOK
    BY <1>1 DEF SessionInit, SessionTypeOK, NoCall, LoginInv
  <1>3. CookiesFollow
    BY LoginAssumption DEF SessionInit, CookiesFollow, NoCall
  <1>4. QED
    BY <1>1, <1>2, <1>3 DEF SessionInv

LEMMA SessionStepInv ==
  ASSUME SessionInv, [SessionNext]_<<loginVars, sessionVars>>
  PROVE  SessionInv'
  <1>1. CASE LoginNext /\ UNCHANGED sessionVars
    BY <1>1, LoginKeepsSessions
  <1>2. CASE \E l \in Login : GoogleLogin(l)
    BY <1>2, GoogleLoginInv
  <1>3. CASE \E b \in Browser : SessionStep(b)
    BY <1>3, GetMeInv, CookieGoneInv DEF SessionStep
  <1>4. CASE UNCHANGED <<loginVars, sessionVars>>
    <2>1. LoginInv'
      BY <1>4, LoginsUntouched DEF SessionInv
    <2>2. QED
      BY <1>4, <2>1
      DEF loginVars, sessionVars, SessionInv, SessionTypeOK, CookiesFollow, LoginInv
  <1>5. QED
    BY <1>1, <1>2, <1>3, <1>4 DEF SessionNext

(* The invariant holds of every behaviour.                                 *)
THEOREM SessionInvariance == SessionSpec => []SessionInv
  <1>1. SessionInv /\ [SessionNext]_<<loginVars, sessionVars>> => SessionInv'
    BY SessionStepInv
  <1>2. QED
    BY <1>1, SessionInitInv, PTL DEF SessionSpec

(* The guard answers every token, expired or missing, with an answer.      *)
THEOREM SessionTypeCorrect == SessionSpec => []SessionTypeOK
  <1>1. SessionInv => SessionTypeOK
    BY DEF SessionInv
  <1>2. QED
    BY <1>1, SessionInvariance, PTL

(* Under the sessions, too, a token names the one account of its email.    *)
THEOREM SessionTokensMeanUsers == SessionSpec => []TokenMeansUser
  <1>1. SessionInv => TokenMeansUser
    BY DEF SessionInv, LoginInv
  <1>2. QED
    BY <1>1, SessionInvariance, PTL

(* Whoever the guard lets through has a committed account, that of the     *)
(* email behind the cookie.                                                *)
THEOREM CallersAreUsers == SessionSpec => []CallersHaveUsers
  <1>1. SessionInv => CallersHaveUsers
    BY DEF SessionInv, LoginInv, CookiesFollow, TokenMeansUser, CallersHaveUsers
  <1>2. QED
    BY <1>1, SessionInvariance, PTL

=============================================================================
