------------------------------ MODULE Accounts ------------------------------
(***************************************************************************)
(* The user and session operations of both stores, each one step: the      *)
(* Postgres tables with their PRIMARY KEY, UNIQUE and REFERENCES           *)
(* constraints, and the maps of the memory store.  The time of a           *)
(* revocation is reduced to whether there is one, which is all             *)
(* IsSessionActive asks.  Sessions interleaves the Postgres ones with      *)
(* handlers; here the two stores are driven by the same calls.             *)
(***************************************************************************)
EXTENDS Integers

CONSTANTS UserIds, Emails, Tokens, SessionIds, NoAccount

VARIABLES
  pgUsers,      \* id -> [email, active] or NoAccount
  pgSessions,   \* token (hash) -> [id, user, revoked] or NoAccount
  memUsers, memByEmail, memSessions

accountVars == <<pgUsers, pgSessions, memUsers, memByEmail, memSessions>>

UserRow == [email : Emails, active : BOOLEAN]
SessionRow == [id : SessionIds, user : UserIds, revoked : BOOLEAN]

AccountsInit ==
  /\ pgUsers  = [u \in UserIds |-> NoAccount] /\ pgSessions  = [t \in Tokens |-> NoAccount]
  /\ memUsers = [u \in UserIds |-> NoAccount] /\ memSessions = [t \in Tokens |-> NoAccount]
  /\ memByEmail = [e \in Emails |-> NoAccount]

NewUser(email) == [email |-> email, active |-> TRUE]
NewSession(id, user) == [id |-> id, user |-> user, revoked |-> FALSE]

-----------------------------------------------------------------------------
(* Postgres.                                                               *)

PgGetUserByEmail(email) ==
  LET ids == {u \in UserIds : pgUsers[u] # NoAccount /\ pgUsers[u].email = email}
  IN IF ids = {} THEN NoAccount ELSE pgUsers[CHOOSE u \in ids : TRUE]

PgGetUser(id) == pgUsers[id]
PgGetSession(token) == pgSessions[token]

PgCreateUserErr(id, email) ==
  IF pgUsers[id] # NoAccount \/ PgGetUserByEmail(email) # NoAccount
  THEN "ErrConflict" ELSE "nil"

PgCreateUser(id, email) ==
  pgUsers' = IF PgCreateUserErr(id, email) = "nil"
             THEN [pgUsers EXCEPT ![id] = NewUser(email)] ELSE pgUsers

PgDeactivateUserErr(id) == IF pgUsers[id] = NoAccount THEN "ErrNotFound" ELSE "nil"

PgRevokeUserSessions(user) ==
  pgSessions' = [t \in Tokens |->
    IF pgSessions[t] # NoAccount /\ pgSessions[t].user = user
    THEN [pgSessions[t] EXCEPT !.revoked = TRUE] ELSE pgSessions[t]]

PgDeactivateUser(id) ==
  IF PgDeactivateUserErr(id) = "nil"
  THEN /\ pgUsers' = [pgUsers EXCEPT ![id].active = FALSE]
       /\ PgRevokeUserSessions(id)
  ELSE UNCHANGED <<pgUsers, pgSessions>>

PgCreateSessionErr(token, id, user) ==
  IF pgSessions[token] # NoAccount
     \/ \E t \in Tokens : pgSessions[t] # NoAccount /\ pgSessions[t].id = id
  THEN "duplicate key"
  ELSE IF pgUsers[user] = NoAccount THEN "foreign key violation" ELSE "nil"

PgCreateSession(token, id, user) ==
  pgSessions' = IF PgCreateSessionErr(token, id, user) = "nil"
                THEN [pgSessions EXCEPT ![token] = NewSession(id, user)] ELSE pgSessions

PgRevokeSessionErr(token) ==
  IF pgSessions[token] # NoAccount /\ ~pgSessions[token].revoked
  THEN "nil" ELSE "ErrNotFound"

PgRevokeSession(token) ==
  pgSessions' = IF PgRevokeSessionErr(token) = "nil"
                THEN [pgSessions EXCEPT ![token].revoked = TRUE] ELSE pgSessions

-----------------------------------------------------------------------------
(* The memory store.                                                       *)

MemGetUserByEmail(email) ==
  IF memByEmail[email] = NoAccount THEN NoAccount ELSE memUsers[memByEmail[email]]

MemGetUser(id) == memUsers[id]
MemGetSession(token) == memSessions[token]

MemCreateUserErr(id, email) ==
  IF memByEmail[email] # NoAccount THEN "ErrConflict" ELSE "nil"

MemCreateUser(id, email) ==
  IF MemCreateUserErr(id, email) = "nil"
  THEN /\ memUsers' = [memUsers EXCEPT ![id] = NewUser(email)]
       /\ memByEmail' = [memByEmail EXCEPT ![email] = id]
  ELSE UNCHANGED <<memUsers, memByEmail>>

MemDeactivateUserErr(id) == IF memUsers[id] = NoAccount THEN "ErrNotFound" ELSE "nil"

MemRevokeUserSessions(user) ==
  memSessions' = [t \in Tokens |->
    IF memSessions[t] # NoAccount /\ memSessions[t].user = user
    THEN [memSessions[t] EXCEPT !.revoked = TRUE] ELSE memSessions[t]]

MemDeactivateUser_KeepsSessions(id) ==
  /\ memUsers' = IF memUsers[id] = NoAccount THEN memUsers
                 ELSE [memUsers EXCEPT ![id].active = FALSE]
  /\ UNCHANGED memSessions
MemDeactivateUser(id) ==
  IF MemDeactivateUserErr(id) = "nil"
  THEN /\ memUsers' = [memUsers EXCEPT ![id].active = FALSE]
       /\ MemRevokeUserSessions(id)
  ELSE UNCHANGED <<memUsers, memSessions>>

MemCreateSession(token, id, user) ==
  memSessions' = [memSessions EXCEPT ![token] = NewSession(id, user)]

MemRevokeSessionErr(token) == IF memSessions[token] = NoAccount THEN "ErrNotFound" ELSE "nil"

MemRevokeSession(token) ==
  memSessions' = IF MemRevokeSessionErr(token) = "nil"
                 THEN [memSessions EXCEPT ![token].revoked = TRUE] ELSE memSessions
=============================================================================
