---------------------------- MODULE AuthController ----------------------------
(***************************************************************************)
(* AuthController and AuthGuard: the session of a browser.  A login that   *)
(* got its token sets the accessToken cookie, AuthGuard reads it on every  *)
(* guarded call, logout clears it.  The token names the user that the      *)
(* login found or inserted, and is valid for as long as the cookie lasts,  *)
(* counted from a moment before.                                           *)
(***************************************************************************)
EXTENDS AuthService

CONSTANTS
  Browser,     \* browsers, and other clients that keep cookies
  BrowserOf,   \* where each login comes from
  Stale        \* an expired token

ASSUME SessionAssumption ==
  /\ BrowserOf \in [Login -> Browser]
  /\ Stale \notin Login \cup {Nobody}

VARIABLES
  answered,    \* logins whose answer has reached their browser
  cookie,      \* the accessToken of each browser: that of a login, or none
  last         \* the last call of "me": the cookie it sent and its answer

sessionVars == <<answered, cookie, last>>

NoCall == [cookie |-> Nobody, answer |-> "none"]

SessionInit ==
  /\ LoginInit
  /\ answered = {}
  /\ cookie = [b \in Browser |-> Nobody]
  /\ last = [b \in Browser |-> NoCall]

(* Every variable has its type; in particular the guard answers every     *)
(* token, expired or missing, with a refusal and never with an error.      *)
SessionTypeOK ==
  /\ LoginTypeOK
  /\ answered \subseteq Login
  /\ cookie \in [Browser -> Login \cup {Nobody, Stale}]
  /\ last \in [Browser -> [cookie : Login \cup {Nobody, Stale},
                           answer : {"none", "forbidden", "notfound", "user"}]]

-----------------------------------------------------------------------------

(* Signed with the secret, and not expired: otherwise jsonwebtoken throws. *)
VerifyJwtToken(token) == token \in Login

(* The token is taken from the cookie: no Authorization header is read.    *)
ValidateRequest(token) == token # Nobody /\ VerifyJwtToken(token)

(* The answer of POST /auth/google sets the cookie, over any other.        *)
GoogleLogin(l) ==
  /\ login[l] = "token"
  /\ l \notin answered
  /\ answered' = answered \cup {l}
  /\ cookie' = [cookie EXCEPT ![BrowserOf[l]] = l]
  /\ UNCHANGED <<loginVars, last>>

(* userService.findById, on the primary.                                   *)
FindById(u) == \E e \in Email : users[e] = u

(* Variant: what jsonwebtoken throws goes past the guard's catch block.    *)
GetMeUncaught(b) ==
  /\ last' = [last EXCEPT ![b] =
                [cookie |-> cookie[b],
                 answer |-> IF cookie[b] = Nobody THEN "forbidden"
                            ELSE IF VerifyJwtToken(cookie[b]) THEN "user" ELSE "error"]]
  /\ UNCHANGED <<loginVars, answered, cookie>>

(* GET /auth/me.                                                           *)
GetMe(b) ==
  /\ last' = [last EXCEPT ![b] =
                [cookie |-> cookie[b],
                 answer |-> IF ~ValidateRequest(cookie[b]) THEN "forbidden"
                            ELSE IF FindById(user[cookie[b]]) THEN "user" ELSE "notfound"]]
  /\ UNCHANGED <<loginVars, answered, cookie>>

(* Guarded as well: with an expired token the cookie stays.                *)
Logout(b) ==
  /\ ValidateRequest(cookie[b])
  /\ cookie' = [cookie EXCEPT ![b] = Nobody]
  /\ UNCHANGED <<loginVars, answered, last>>

(* 60 days later the token expires, and the browser drops the cookie.      *)
TokenExpires(b) ==
  /\ cookie[b] # Nobody
  /\ cookie' = [cookie EXCEPT ![b] = IF VerifyJwtToken(cookie[b]) THEN Stale ELSE Nobody]
  /\ UNCHANGED <<loginVars, answered, last>>

-----------------------------------------------------------------------------

SessionStep(b) ==
  \/ GetMe(b)
  \/ Logout(b)
  \/ TokenExpires(b)

SessionNext ==
  \/ LoginNext /\ UNCHANGED sessionVars
  \/ \E l \in Login : GoogleLogin(l)
  \/ \E b \in Browser : SessionStep(b)

SessionSpec ==
  /\ SessionInit
  /\ [][SessionNext]_<<loginVars, sessionVars>>
  /\ \A l \in Login :
       WF_<<loginVars, sessionVars>>(LoginProceed(l) /\ UNCHANGED sessionVars)

-----------------------------------------------------------------------------
(* Properties *)

(* Whoever the guard lets through has a committed account, that of the     *)
(* email behind the cookie, whichever logins of the browser raced, failed  *)
(* or lost their answer: "me" never says that the user does not exist.     *)
CallersHaveUsers ==
  \A b \in Browser :
    /\ last[b].answer # "notfound"
    /\ last[b].answer = "user" =>
         user[last[b].cookie] = users[EmailOf[last[b].cookie]]

=============================================================================
