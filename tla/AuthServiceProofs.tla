-------------------------- MODULE AuthServiceProofs --------------------------
(***************************************************************************)
(* Theorems about AuthService for every set of logins, emails and          *)
(* connections.  LoginInv is inductive.  A step of a login either moves it *)
(* without touching a resource, takes a connection, gives one back,        *)
(* inserts a row, or ends the transaction; one lemma for each.             *)
(***************************************************************************)
EXTENDS AuthService, TLAPS

(* Before the first login every connection is idle and there is no row.    *)
LEMMA LoginInitInv == LoginInit => LoginInv
  <1> SUFFICES ASSUME LoginInit PROVE LoginInv
    OBVIOUS
  <1> USE LoginAssumption DEF LoginInit, InLogin, LoginEnded, Held
  <1>1. LoginTypeOK
    BY DEF LoginTypeOK
  <1>2. ConnectionsFollow
    BY DEF ConnectionsFollow
  <1>3. PoolConserved
    BY DEF PoolConserved
  <1>4. RowsFollow /\ TokenMeansUser
    BY DEF RowsFollow, TokenMeansUser
  <1>5. QED
    BY <1>1, <1>2, <1>3, <1>4 DEF LoginInv

-----------------------------------------------------------------------------

OthersKeep(l) ==
  \A m \in Login \ {l} :
    tx'[m] = tx[m] /\ reader'[m] = reader[m] /\ login'[m] = login[m]

(* A step that moves connections between one call and the idle ones has to *)
(* be looked at for that call only.                                        *)
LEMMA PoolFollows ==
  ASSUME LoginInv, NEW l \in Login, OthersKeep(l), leaked' = leaked,
         free' \cup Held(l)' = free \cup Held(l),
         free' \cap Held(l)' = {},
         tx'[l] # Nobody => tx'[l] # reader'[l] /\ login'[l] \in InLogin
  PROVE  PoolConserved'
  <1> USE DEF LoginInv
  <1>1. \A m \in Login \ {l} : Held(m)' = Held(m)
    BY DEF OthersKeep, Held
  <1>2. ASSUME NEW c \in Conn
        PROVE  c \in free' \cup leaked' \/ \E m \in Login : c \in Held(m)'
    <2>1. c \in free \cup leaked \/ \E m \in Login : c \in Held(m)
      BY DEF PoolConserved
    <2>2. QED
      BY <1>1, <2>1
  <1>3. free' \cap leaked' = {} /\ Held(l)' \cap leaked' = {}
    BY DEF PoolConserved
  <1>4. ASSUME NEW m \in Login
        PROVE  /\ Held(m)' \cap (free' \cup leaked') = {}
               /\ \A n \in Login \ {m} : Held(m)' \cap Held(n)' = {}
    BY <1>1, <1>3 DEF PoolConserved
  <1>5. ASSUME NEW m \in Login, tx'[m] # Nobody
        PROVE  tx'[m] # reader'[m] /\ login'[m] \in InLogin
    BY <1>5 DEF PoolConserved, OthersKeep
  <1>6. QED
    BY <1>2, <1>3, <1>4, <1>5 DEF PoolConserved

-----------------------------------------------------------------------------

(* Moving a call that neither enters, leaves nor completes a transaction   *)
(* says nothing new of connections or rows.                                *)
LEMMA MoveInv ==
  ASSUME LoginInv, NEW l \in Login, Arrive(l) \/ GoogleAnswers(l)
  PROVE  LoginInv'
  <1> DEFINE p == IF login[l] = "idle" THEN "opening" ELSE "finding"
  <1> USE DEF LoginInv, LoginGoto, InLogin, LoginEnded
  <1>1. login[l] \in {"idle", "asking"} /\ login' = [login EXCEPT ![l] = p]
    BY DEF Arrive, GoogleAnswers
  <1>2. UNCHANGED <<tx, reader, user, users, inserting, free, leaked>>
    BY DEF Arrive, GoogleAnswers, rows
  <1>3. LoginTypeOK'
    BY <1>1, <1>2 DEF LoginTypeOK
  <1>4. ConnectionsFollow'
    BY <1>1, <1>2 DEF ConnectionsFollow, LoginTypeOK
  <1>5. PoolConserved'
    <2>1. OthersKeep(l)
      BY <1>1, <1>2 DEF OthersKeep, LoginTypeOK
    <2>2. /\ free' \cup Held(l)' = free \cup Held(l)
          /\ free' \cap Held(l)' = {}
      BY <1>1, <1>2 DEF Held, LoginTypeOK, PoolConserved
    <2>3. tx'[l] # Nobody => tx'[l] # reader'[l] /\ login'[l] \in InLogin
      BY <1>1, <1>2 DEF LoginTypeOK, PoolConserved
    <2>4. QED
      BY <1>1, <1>2, <2>1, <2>2, <2>3, PoolFollows
  <1>6. RowsFollow'
    BY <1>1, <1>2 DEF RowsFollow, LoginTypeOK
  <1>7. TokenMeansUser'
    BY <1>1, <1>2 DEF TokenMeansUser, LoginTypeOK
  <1>8. QED
    BY <1>3, <1>4, <1>5, <1>6, <1>7

(* sequelize.transaction() takes an idle connection for the transaction.   *)
LEMMA BeginInv ==
  ASSUME LoginInv, NEW l \in Login, BeginLogin(l)
  PROVE  LoginInv'
  <1> USE LoginAssumption DEF LoginInv, LoginGoto, InLogin, LoginEnded
  <1>1. PICK c \in free : tx' = [tx EXCEPT ![l] = c] /\ free' = free \ {c}
    BY DEF BeginLogin
  <1>2. /\ login[l] = "opening"
        /\ login' = [login EXCEPT ![l] = "asking"]
        /\ UNCHANGED <<reader, user, users, inserting, leaked>>
    BY DEF BeginLogin, rows
  <1>3. c \in Conn /\ c # Nobody /\ tx[l] = Nobody /\ reader[l] = Nobody
    BY <1>1, <1>2 DEF LoginTypeOK, ConnectionsFollow
  <1>4. LoginTypeOK'
    BY <1>1, <1>2, <1>3 DEF LoginTypeOK
  <1>5. ConnectionsFollow'
    BY <1>1, <1>2, <1>3 DEF ConnectionsFollow, LoginTypeOK
  <1>6. PoolConserved'
    <2>1. OthersKeep(l)
      BY <1>1, <1>2, <1>3 DEF OthersKeep, LoginTypeOK
    <2>2. /\ free' \cup Held(l)' = free \cup Held(l)
          /\ free' \cap Held(l)' = {}
      BY <1>1, <1>2, <1>3 DEF Held, LoginTypeOK, PoolConserved
    <2>3. tx'[l] # Nobody => tx'[l] # reader'[l] /\ login'[l] \in InLogin
      BY <1>1, <1>2, <1>3 DEF LoginTypeOK, PoolConserved
    <2>4. QED
      BY <1>1, <1>2, <1>3, <2>1, <2>2, <2>3, PoolFollows
  <1>7. RowsFollow' /\ TokenMeansUser'
    BY <1>2 DEF RowsFollow, TokenMeansUser, LoginTypeOK
  <1>8. QED
    BY <1>4, <1>5, <1>6, <1>7

(* The query outside the transaction takes a second one.                   *)
LEMMA FindInv ==
  ASSUME LoginInv, NEW l \in Login, FindUser(l)
  PROVE  LoginInv'
  <1> USE LoginAssumption DEF LoginInv, LoginGoto, InLogin, LoginEnded
  <1>1. PICK c \in free : reader' = [reader EXCEPT ![l] = c] /\ free' = free \ {c}
    BY DEF FindUser
  <1>2. /\ login[l] = "finding"
        /\ login' = [login EXCEPT ![l] = "reading"]
        /\ UNCHANGED <<tx, user, users, inserting, leaked>>
    BY DEF FindUser, rows
  <1>3. c \in Conn /\ c # Nobody /\ tx[l] # Nobody /\ tx[l] # c /\ reader[l] = Nobody
    BY <1>1, <1>2 DEF LoginTypeOK, ConnectionsFollow, PoolConserved, Held
  <1>4. LoginTypeOK'
    BY <1>1, <1>2, <1>3 DEF LoginTypeOK
  <1>5. ConnectionsFollow'
    BY <1>1, <1>2, <1>3 DEF ConnectionsFollow, LoginTypeOK
  <1>6. PoolConserved'
    <2>1. OthersKeep(l)
      BY <1>1, <1>2, <1>3 DEF OthersKeep, LoginTypeOK
    <2>2. /\ free' \cup Held(l)' = free \cup Held(l)
          /\ free' \cap Held(l)' = {}
      BY <1>1, <1>2, <1>3 DEF Held, LoginTypeOK, PoolConserved
    <2>3. tx'[l] # Nobody => tx'[l] # reader'[l] /\ login'[l] \in InLogin
      BY <1>1, <1>2, <1>3 DEF LoginTypeOK, PoolConserved
    <2>4. QED
      BY <1>1, <1>2, <1>3, <2>1, <2>2, <2>3, PoolFollows
  <1>7. RowsFollow' /\ TokenMeansUser'
    BY <1>2 DEF RowsFollow, TokenMeansUser, LoginTypeOK
  <1>8. QED
    BY <1>4, <1>5, <1>6, <1>7

(* Its answer gives the second connection back; a user that was found is   *)
(* committed.                                                              *)
LEMMA ReadInv ==
  ASSUME LoginInv, NEW l \in Login, ReadUser(l)
  PROVE  LoginInv'
  <1> DEFINE u == users[EmailOf[l]]
             p == IF u = Nobody THEN "creating" ELSE "committing"
  <1> USE LoginAssumption DEF LoginInv, LoginGoto, InLogin, LoginEnded
  <1>1. /\ login[l] = "reading"
        /\ login' = [login EXCEPT ![l] = p]
        /\ user' = [user EXCEPT ![l] = u]
        /\ reader' = [reader EXCEPT ![l] = Nobody]
        /\ free' = free \cup {reader[l]}
        /\ UNCHANGED <<tx, users, inserting, leaked>>
    BY DEF ReadUser, rows
  <1>2. /\ reader[l] \in Conn /\ tx[l] \in Conn
        /\ tx[l] # reader[l]
        /\ u \in Login \cup {Nobody}
    BY <1>1 DEF LoginTypeOK, ConnectionsFollow, PoolConserved
  <1>3. LoginTypeOK'
    BY <1>1, <1>2 DEF LoginTypeOK
  <1>4. ConnectionsFollow'
    BY <1>1, <1>2 DEF ConnectionsFollow, LoginTypeOK
  <1>5. PoolConserved'
    <2>1. OthersKeep(l)
      BY <1>1, <1>2 DEF OthersKeep, LoginTypeOK
    <2>2. /\ free' \cup Held(l)' = free \cup Held(l)
          /\ free' \cap Held(l)' = {}
      BY <1>1, <1>2 DEF Held, LoginTypeOK, PoolConserved
    <2>3. tx'[l] # Nobody => tx'[l] # reader'[l] /\ login'[l] \in InLogin
      BY <1>1, <1>2 DEF LoginTypeOK, PoolConserved
    <2>4. QED
      BY <1>1, <1>2, <2>1, <2>2, <2>3, PoolFollows
  <1>6. RowsFollow'
    BY <1>1, <1>2 DEF RowsFollow, LoginTypeOK
  <1>7. TokenMeansUser'
    BY <1>1, <1>2 DEF TokenMeansUser, LoginTypeOK
  <1>8. QED
    BY <1>3, <1>4, <1>5, <1>6, <1>7

(* The INSERT of a first login, with no rival committed or in progress.    *)
LEMMA CreateUserInv ==
  ASSUME LoginInv, NEW l \in Login, CreateUser(l)
  PROVE  LoginInv'
  <1> DEFINE e == EmailOf[l]
  <1> USE LoginAssumption DEF LoginInv, LoginGoto, InLogin, LoginEnded
  <1>1. /\ users[e] = Nobody /\ inserting[e] = Nobody /\ e \in Email
        /\ login[l] = "creating"
        /\ login' = [login EXCEPT ![l] = "committing"]
        /\ user' = [user EXCEPT ![l] = l]
        /\ inserting' = [inserting EXCEPT ![e] = l]
        /\ UNCHANGED <<tx, reader, users, free, leaked>>
    BY DEF CreateUser
  <1>2. LoginTypeOK'
    BY <1>1 DEF LoginTypeOK
  <1>3. ConnectionsFollow'
    BY <1>1 DEF ConnectionsFollow, LoginTypeOK
  <1>4. PoolConserved'
    <2>1. OthersKeep(l)
      BY <1>1 DEF OthersKeep, LoginTypeOK
    <2>2. /\ free' \cup Held(l)' = free \cup Held(l)
          /\ free' \cap Held(l)' = {}
      BY <1>1 DEF Held, LoginTypeOK, PoolConserved
    <2>3. tx'[l] # Nobody => tx'[l] # reader'[l] /\ login'[l] \in InLogin
      BY <1>1 DEF LoginTypeOK, PoolConserved
    <2>4. QED
      BY <1>1, <2>1, <2>2, <2>3, PoolFollows
  <1>5. RowsFollow'
    BY <1>1 DEF RowsFollow, LoginTypeOK
  <1>6. TokenMeansUser'
    BY <1>1 DEF TokenMeansUser, LoginTypeOK
  <1>7. QED
    BY <1>2, <1>3, <1>4, <1>5, <1>6

-----------------------------------------------------------------------------

(* A transaction that ends gives back what its call held, and its row is   *)
(* no longer uncommitted.                                                  *)
LEMMA GiveBackFollows ==
  ASSUME LoginInv, NEW l \in Login, NEW p \in LoginEnded,
         login' = [login EXCEPT ![l] = p],
         GiveBack(l), leaked' = leaked
  PROVE  /\ ConnectionsFollow' /\ PoolConserved'
         /\ tx' \in [Login -> Conn \cup {Nobody}]
         /\ reader' \in [Login -> Conn \cup {Nobody}]
         /\ inserting' \in [Email -> Login \cup {Nobody}]
         /\ free' \subseteq Conn
  <1> USE LoginAssumption DEF LoginInv, LoginEnded, InLogin
  <1>1. /\ tx' = [tx EXCEPT ![l] = Nobody]
        /\ reader' = [reader EXCEPT ![l] = Nobody]
        /\ free' = free \cup Held(l)
        /\ inserting' = [e \in Email |-> IF inserting[e] = l THEN Nobody
                                                             ELSE inserting[e]]
    BY DEF GiveBack, Held
  <1>2. Held(l) \subseteq Conn
    BY DEF Held, LoginTypeOK
  <1>3. ConnectionsFollow'
    BY <1>1 DEF ConnectionsFollow, LoginTypeOK
  <1>4. Held(l)' = {} /\ OthersKeep(l)
    BY <1>1 DEF Held, OthersKeep, LoginTypeOK
  <1>5. PoolConserved'
    BY <1>1, <1>4, PoolFollows DEF LoginTypeOK
  <1>6. QED
    BY <1>1, <1>2, <1>3, <1>5 DEF LoginTypeOK

(* A rollback takes the call's own uncommitted row away and touches no     *)
(* committed one.                                                          *)
LEMMA RollbackLoginInv ==
  ASSUME LoginInv, NEW l \in Login, login[l] \in {"opening"} \cup InLogin,
         RollbackLogin(l)
  PROVE  LoginInv'
  <1> USE LoginAssumption DEF LoginInv, LoginEnded, InLogin
  <1>1. /\ login' = [login EXCEPT ![l] = "failed"]
        /\ inserting' = [e \in Email |-> IF inserting[e] = l THEN Nobody
                                                             ELSE inserting[e]]
        /\ UNCHANGED <<user, users, leaked>>
    BY DEF RollbackLogin, GiveBack
  <1>2. /\ ConnectionsFollow' /\ PoolConserved'
        /\ tx' \in [Login -> Conn \cup {Nobody}]
        /\ reader' \in [Login -> Conn \cup {Nobody}]
        /\ inserting' \in [Email -> Login \cup {Nobody}]
        /\ free' \subseteq Conn
    BY <1>1, GiveBackFollows DEF RollbackLogin
  <1>3. LoginTypeOK'
    BY <1>1, <1>2 DEF LoginTypeOK
  <1>4. RowsFollow'
    BY <1>1 DEF RowsFollow, LoginTypeOK
  <1>5. TokenMeansUser'
    BY <1>1 DEF TokenMeansUser, LoginTypeOK
  <1>6. QED
    BY <1>2, <1>3, <1>4, <1>5

(* COMMIT makes the call's row, if it has inserted one, the user of its    *)
(* email, which had none.                                                  *)
LEMMA CommitUserInv ==
  ASSUME LoginInv, NEW l \in Login, NEW p \in LoginEnded,
         LoginGoto(l, "committing", p), CommitUser(l)
  PROVE  LoginInv'
  <1> USE LoginAssumption DEF LoginInv, LoginEnded, InLogin
  <1>1. /\ login[l] = "committing"
        /\ login' = [login EXCEPT ![l] = p]
        /\ users' = [e \in Email |-> IF inserting[e] = l THEN l ELSE users[e]]
        /\ inserting' = [e \in Email |-> IF inserting[e] = l THEN Nobody
                                                             ELSE inserting[e]]
        /\ UNCHANGED <<user, leaked>>
    BY DEF LoginGoto, CommitUser, GiveBack
  <1>2. /\ ConnectionsFollow' /\ PoolConserved'
        /\ tx' \in [Login -> Conn \cup {Nobody}]
        /\ reader' \in [Login -> Conn \cup {Nobody}]
        /\ inserting' \in [Email -> Login \cup {Nobody}]
        /\ free' \subseteq Conn
    BY <1>1, GiveBackFollows DEF CommitUser
  <1>3. LoginTypeOK'
    BY <1>1, <1>2 DEF LoginTypeOK
  <1>4. \A e \in Email : users[e] # Nobody => users'[e] = users[e]
    BY <1>1 DEF RowsFollow
  <1>5. user[l] # Nobody /\ users'[EmailOf[l]] = user[l]
    BY <1>1 DEF RowsFollow
  <1>6. RowsFollow'
    BY <1>1, <1>4 DEF RowsFollow, LoginTypeOK
  <1>7. TokenMeansUser'
    BY <1>1, <1>4, <1>5 DEF TokenMeansUser, LoginTypeOK
  <1>8. QED
    BY <1>2, <1>3, <1>6, <1>7

(* A webhook call keeps an idle connection for good.                       *)
LEMMA LeakInv ==
  ASSUME LoginInv, LeakConnection
  PROVE  LoginInv'
  <1> USE DEF LoginInv
  <1>1. PICK c \in free : free' = free \ {c} /\ leaked' = leaked \cup {c}
    BY DEF LeakConnection
  <1>2. UNCHANGED <<login, tx, reader, user, users, inserting>>
    BY DEF LeakConnection, rows
  <1>3. LoginTypeOK'
    BY <1>1, <1>2 DEF LoginTypeOK
  <1>4. PoolConserved'
    BY <1>1, <1>2 DEF PoolConserved, Held
  <1>5. ConnectionsFollow' /\ RowsFollow' /\ TokenMeansUser'
    BY <1>2 DEF ConnectionsFollow, RowsFollow, TokenMeansUser
  <1>6. QED
    BY <1>3, <1>4, <1>5

-----------------------------------------------------------------------------

(* Every step of a login keeps the invariant.                              *)
LEMMA LoginStepInv ==
  ASSUME LoginInv, NEW l \in Login, LoginStep(l)
  PROVE  LoginInv'
  <1>1. CASE Arrive(l) \/ GoogleAnswers(l)
    BY <1>1, MoveInv
  <1>2. CASE BeginLogin(l)
    BY <1>2, BeginInv
  <1>3. CASE FindUser(l)
    BY <1>3, FindInv
  <1>4. CASE ReadUser(l)
    BY <1>4, ReadInv
  <1>5. CASE CreateUser(l)
    BY <1>5, CreateUserInv
  <1>6. CASE CommitLogin(l)
    BY <1>6, CommitUserInv DEF CommitLogin, LoginEnded
  <1>7. CASE CommitLoginUnanswered(l)
    BY <1>7, CommitUserInv DEF CommitLoginUnanswered, LoginEnded
  <1>8. CASE DuplicateEmail(l) \/ GoogleFails(l) \/ AcquireTimeout(l) \/ AbortLogin(l)
    <2>1. RollbackLogin(l) /\ login[l] \in {"opening"} \cup InLogin
      BY <1>8 DEF DuplicateEmail, GoogleFails, AcquireTimeout, AbortLogin, InLogin
    <2>2. QED
      BY <2>1, RollbackLoginInv
  <1>9. QED
    BY <1>1, <1>2, <1>3, <1>4, <1>5, <1>6, <1>7, <1>8 DEF LoginStep, LoginProceed

(* LoginInv holds in every reachable state.                                *)
THEOREM LoginInvariance == LoginSpec => []LoginInv
  <1>1. ASSUME LoginInv, [LoginNext]_loginVars
        PROVE  LoginInv'
    <2>1. CASE LeakConnection
      BY <1>1, <2>1, LeakInv
    <2>2. CASE \E l \in Login : LoginStep(l)
      BY <1>1, <2>2, LoginStepInv
    <2>3. CASE UNCHANGED loginVars
      BY <1>1, <2>3
      DEF loginVars, rows, LoginInv, LoginTypeOK, ConnectionsFollow, PoolConserved,
          Held, RowsFollow, TokenMeansUser
    <2>4. QED
      BY <1>1, <2>1, <2>2, <2>3 DEF LoginNext
  <1>2. QED
    BY LoginInitInv, <1>1, PTL DEF LoginSpec

(* However logins race for the pool and however they end, no connection is *)
(* lost and none is in two hands.                                          *)
THEOREM ConnectionsConserved == LoginSpec => []PoolConserved
  <1>1. LoginInv => PoolConserved
    BY DEF LoginInv
  <1>2. QED
    BY LoginInvariance, <1>1, PTL

(* A customer with a token has the one committed account of the email.     *)
THEOREM TokensMeanUsers == LoginSpec => []TokenMeansUser
  <1>1. LoginInv => TokenMeansUser
    BY DEF LoginInv
  <1>2. QED
    BY LoginInvariance, <1>1, PTL

=============================================================================
