----------------------------- MODULE AuthService -----------------------------
(***************************************************************************)
(* AuthService.googleOAuth and the pool of database connections it lives   *)
(* on.  A login opens a transaction, which takes a connection, and keeps   *)
(* it while Google is asked over HTTP.  It then looks for the user outside *)
(* the transaction, which takes a second connection, and inserts the user  *)
(* of a first login inside it.                                             *)
(*                                                                         *)
(*   idle -> opening -> asking -> finding -> reading                       *)
(*        -> creating -> committing -> token                               *)
(*                                                                         *)
(* A login waits for a connection in "opening" and in "finding", and for   *)
(* another login's uncommitted row with the same email in "creating".      *)
(* Webhook calls that return with their transaction open take connections  *)
(* out of the pool for good (WebhookService: Ignore).                      *)
(***************************************************************************)
EXTENDS Naturals, FiniteSets

CONSTANTS
  Login,       \* POST /auth/google calls; a call names the user it inserts
  Email,       \* emails that Google knows
  EmailOf,     \* whose access token each call brings
  Conn,        \* connections of the pool
  Nobody,      \* no user, no connection
  MaxLeaked    \* bound on leaked connections

ASSUME LoginAssumption ==
  /\ EmailOf \in [Login -> Email]
  /\ Nobody \notin Login \cup Conn
  /\ MaxLeaked \in Nat

VARIABLES
  login,       \* where each call is
  tx,          \* the connection of its transaction
  reader,      \* the connection of its query outside the transaction
  user,        \* the user it found or inserted
  users,       \* committed rows of "users", by their unique email
  inserting,   \* the open transaction that has inserted a row with this email
  free,        \* idle connections of the pool
  leaked       \* connections in transactions that never end

rows == <<users, inserting>>

loginVars == <<login, tx, reader, user, rows, free, leaked>>

InLogin == {"asking", "finding", "reading", "creating", "committing"}

LoginEnded == {"token", "failed"}

LoginInit ==
  /\ login = [l \in Login |-> "idle"]
  /\ tx = [l \in Login |-> Nobody]
  /\ reader = [l \in Login |-> Nobody]
  /\ user = [l \in Login |-> Nobody]
  /\ users = [e \in Email |-> Nobody]
  /\ inserting = [e \in Email |-> Nobody]
  /\ free = Conn
  /\ leaked = {}

LoginGoto(l, from, to) ==
  /\ login[l] = from
  /\ login' = [login EXCEPT ![l] = to]

-----------------------------------------------------------------------------
(* The transaction *)

Arrive(l) ==
  /\ LoginGoto(l, "idle", "opening")
  /\ UNCHANGED <<tx, reader, user, rows, free, leaked>>

(* sequelize.transaction(): a connection for the whole call.               *)
BeginLogin(l) ==
  /\ LoginGoto(l, "opening", "asking")
  /\ \E c \in free :
       /\ tx' = [tx EXCEPT ![l] = c]
       /\ free' = free \ {c}
  /\ UNCHANGED <<reader, user, rows, leaked>>

GoogleAnswers(l) ==
  /\ LoginGoto(l, "asking", "finding")
  /\ UNCHANGED <<tx, reader, user, rows, free, leaked>>

(* userService.findOne is not given the transaction: it takes another      *)
(* connection, if there is one.                                            *)
FindUser(l) ==
  /\ LoginGoto(l, "finding", "reading")
  /\ \E c \in free :
       /\ reader' = [reader EXCEPT ![l] = c]
       /\ free' = free \ {c}
  /\ UNCHANGED <<tx, user, rows, leaked>>

(* The answer of the query: committed rows only.                           *)
ReadUser(l) ==
  LET u == users[EmailOf[l]] IN
  /\ LoginGoto(l, "reading", IF u = Nobody THEN "creating" ELSE "committing")
  /\ user' = [user EXCEPT ![l] = u]
  /\ reader' = [reader EXCEPT ![l] = Nobody]
  /\ free' = free \cup {reader[l]}
  /\ UNCHANGED <<tx, rows, leaked>>

(* INSERT INTO users, in the transaction.                                  *)
CreateUser(l) ==
  LET e == EmailOf[l] IN
  /\ users[e] = Nobody
  /\ inserting[e] = Nobody
  /\ LoginGoto(l, "creating", "committing")
  /\ user' = [user EXCEPT ![l] = l]
  /\ inserting' = [inserting EXCEPT ![e] = l]
  /\ UNCHANGED <<tx, reader, users, free, leaked>>

(* Every end of a transaction gives its connection back.                   *)
GiveBack(l) ==
  /\ tx' = [tx EXCEPT ![l] = Nobody]
  /\ reader' = [reader EXCEPT ![l] = Nobody]
  /\ free' = free \cup ({tx[l], reader[l]} \ {Nobody})
  /\ inserting' = [e \in Email |-> IF inserting[e] = l THEN Nobody ELSE inserting[e]]

CommitUser(l) ==
  /\ users' = [e \in Email |-> IF inserting[e] = l THEN l ELSE users[e]]
  /\ GiveBack(l)
  /\ UNCHANGED <<user, leaked>>

CommitLogin(l) ==
  /\ LoginGoto(l, "committing", "token")
  /\ CommitUser(l)

-----------------------------------------------------------------------------
(* Failures *)

(* Variant: the catch block does not roll back.                            *)
RollbackLoginForgotten(l) ==
  /\ login' = [login EXCEPT ![l] = "failed"]
  /\ reader' = [reader EXCEPT ![l] = Nobody]
  /\ free' = free \cup ({reader[l]} \ {Nobody})
  /\ UNCHANGED <<tx, user, rows, leaked>>

RollbackLogin(l) ==
  /\ login' = [login EXCEPT ![l] = "failed"]
  /\ GiveBack(l)
  /\ UNCHANGED <<user, users, leaked>>

(* Variant: the unique violation is taken for "somebody else did it".      *)
DuplicateIgnored(l) ==
  /\ users[EmailOf[l]] # Nobody
  /\ LoginGoto(l, "creating", "committing")
  /\ user' = [user EXCEPT ![l] = l]
  /\ UNCHANGED <<tx, reader, rows, free, leaked>>

(* Another login committed a user with this email after the query.         *)
DuplicateEmail(l) ==
  /\ login[l] = "creating"
  /\ users[EmailOf[l]] # Nobody
  /\ RollbackLogin(l)

(* Variant: the request has no timeout.                                    *)
GoogleSilent(l) == FALSE

(* Google refuses the access token, or says nothing for 120 seconds.       *)
GoogleFails(l) ==
  /\ login[l] = "asking"
  /\ RollbackLogin(l)

(* The pool gives up on a caller that has waited too long.  The first wait *)
(* comes before the try block: there is nothing to roll back.              *)
AcquireTimeout(l) ==
  /\ login[l] \in {"opening", "finding"}
  /\ free = {}
  /\ RollbackLogin(l)

(* A statement of the transaction or the query rejects.                    *)
AbortLogin(l) ==
  /\ login[l] \in InLogin \ {"asking"}
  /\ RollbackLogin(l)

(* COMMIT took effect but its answer was lost.                             *)
CommitLoginUnanswered(l) ==
  /\ LoginGoto(l, "committing", "failed")
  /\ CommitUser(l)

LeakConnection ==
  /\ Cardinality(leaked) < MaxLeaked
  /\ \E c \in free :
       /\ free' = free \ {c}
       /\ leaked' = leaked \cup {c}
  /\ UNCHANGED <<login, tx, reader, user, rows>>

-----------------------------------------------------------------------------

(* What happens to a call without Google's help.                           *)
LoginProceed(l) ==
  \/ BeginLogin(l)
  \/ FindUser(l)
  \/ ReadUser(l)
  \/ CreateUser(l)
  \/ DuplicateEmail(l)
  \/ CommitLogin(l)
  \/ GoogleFails(l)
  \/ AcquireTimeout(l)

LoginStep(l) ==
  \/ Arrive(l)
  \/ GoogleAnswers(l)
  \/ LoginProceed(l)
  \/ AbortLogin(l)
  \/ CommitLoginUnanswered(l)

LoginNext == LeakConnection \/ \E l \in Login : LoginStep(l)

(* PostgreSQL answers, requests to Google time out, and so does a wait     *)
(* for a connection.  Google need not answer, and who gets a connection    *)
(* is not promised.                                                        *)
LoginFairness == \A l \in Login : WF_loginVars(LoginProceed(l))

LoginSpec == LoginInit /\ [][LoginNext]_loginVars /\ LoginFairness

-----------------------------------------------------------------------------
(* Properties *)

(* Every variable has its type.                                            *)
LoginTypeOK ==
  /\ login \in [Login -> {"idle", "opening"} \cup InLogin \cup LoginEnded]
  /\ tx \in [Login -> Conn \cup {Nobody}]
  /\ reader \in [Login -> Conn \cup {Nobody}]
  /\ user \in [Login -> Login \cup {Nobody}]
  /\ users \in [Email -> Login \cup {Nobody}]
  /\ inserting \in [Email -> Login \cup {Nobody}]
  /\ free \subseteq Conn
  /\ leaked \subseteq Conn

Held(l) == {tx[l], reader[l]} \ {Nobody}

(* Every connection is idle, leaked by a webhook call, or in the hands of  *)
(* one login that is still running: no way out of googleOAuth, and no      *)
(* race for the pool, loses a connection or hands it out twice.            *)
PoolConserved ==
  /\ \A c \in Conn : c \in free \cup leaked \/ \E l \in Login : c \in Held(l)
  /\ free \cap leaked = {}
  /\ \A l \in Login :
       /\ Held(l) \cap (free \cup leaked) = {}
       /\ \A m \in Login \ {l} : Held(l) \cap Held(m) = {}
       /\ tx[l] # Nobody => tx[l] # reader[l] /\ login[l] \in InLogin

(* A token names a user that is committed, the one user of the email: two  *)
(* first logins at once do not leave a customer with a token for a row     *)
(* that was rolled back, nor one email with two accounts.                  *)
TokenMeansUser ==
  \A l \in Login :
    login[l] = "token" => user[l] # Nobody /\ users[EmailOf[l]] = user[l]

(* A transaction has its connection exactly while the call is in it, and   *)
(* a second one exactly while the query runs.                              *)
ConnectionsFollow ==
  \A l \in Login :
    /\ tx[l] # Nobody <=> login[l] \in InLogin
    /\ reader[l] # Nobody <=> login[l] = "reading"

(* An uncommitted row belongs to a call about to commit, which has no      *)
(* committed rival; every call about to commit has a user that will be     *)
(* committed with it or already is.                                        *)
RowsFollow ==
  /\ \A e \in Email :
       inserting[e] # Nobody =>
         /\ users[e] = Nobody
         /\ login[inserting[e]] = "committing"
         /\ EmailOf[inserting[e]] = e
         /\ user[inserting[e]] = inserting[e]
  /\ \A l \in Login :
       login[l] = "committing" =>
         /\ user[l] # Nobody
         /\ inserting[EmailOf[l]] = l \/ users[EmailOf[l]] = user[l]

(* The inductive invariant.                                                *)
LoginInv ==
  /\ LoginTypeOK
  /\ ConnectionsFollow
  /\ PoolConserved
  /\ RowsFollow
  /\ TokenMeansUser

(* Every login that arrived ends, with Google silent, the pool empty or    *)
(* another first login of the same email in progress.                      *)
EveryLoginEnds ==
  \A l \in Login : login[l] = "opening" ~> login[l] \in LoginEnded

(* Every connection that is not leaked is held by a login that waits for   *)
(* a second one.                                                           *)
PoolStuck ==
  /\ free = {}
  /\ \E l \in Login : tx[l] # Nobody
  /\ \A l \in Login : tx[l] # Nobody => login[l] = "finding"

(* Logins that have taken all connections and wait for one another do not  *)
(* stop the backend: the timeouts of the pool and the rollbacks that       *)
(* follow make connections free again.                                     *)
PoolRecovers == PoolStuck ~> free # {}

=============================================================================
