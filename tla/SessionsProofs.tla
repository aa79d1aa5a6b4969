--------------------------- MODULE SessionsProofs ---------------------------
(***************************************************************************)
(* Proofs about Sessions, for every set of users, tokens and requests,     *)
(* every session lifetime and every bound on the clock.                    *)
(***************************************************************************)
EXTENDS Sessions, TLAPS

Call == {Idle} \cup LoginCall \cup AuthCall \cup DeactivateCall

(* What Authenticate knows after each of its reads about a request whose   *)
(* session was over when it came in: the copy of the session or the clock  *)
(* still shows it before the check, only the user's row shows it after the *)
(* check, and the request is not let through.  Its session is in the       *)
(* table, where Logout updates it.                                         *)
DeadIsSeen ==
  \A r \in Requests :
    /\ call[r].pc \in {"auth.clock", "auth.user", "granted"} =>
         sessions[call[r].token] # NoSession
    /\ call[r].pc = "auth.clock" /\ call[r].dead =>
         call[r].s.revoked \/ now >= call[r].s.expires \/ ~active[call[r].s.user]
    /\ call[r].pc = "auth.user" /\ call[r].dead => ~active[call[r].s.user]
    /\ call[r].pc = "granted" => ~call[r].dead

(* DeactivateUser revokes rows that exist.                                 *)
RevokesRows ==
  \A r \in Requests : call[r].pc = "deactivate" =>
    \A t \in call[r].revoke : sessions[t] # NoSession

(* The inductive invariant.                                                *)
SessionsInv == TypeOK /\ DeadIsSeen /\ RevokesRows

(* One step ends sessions and users for good and keeps the rest of a row.  *)
RowsEndForGood ==
  /\ \A u \in Users : ~active[u] => ~active'[u]
  /\ \A t \in Tokens : sessions[t] # NoSession =>
       /\ sessions'[t] # NoSession
       /\ sessions[t].revoked => sessions'[t].revoked
       /\ sessions'[t].user = sessions[t].user
       /\ sessions'[t].expires = sessions[t].expires

(* Where a handler is determines which locals it holds.                    *)
LEMMA CallKinds ==
  ASSUME NEW c \in Call
  PROVE  /\ c.pc = "login.clock" => c \in [pc : {"login.clock"}, user : Users]
         /\ c.pc = "login.insert" =>
              c \in [pc : {"login.insert"}, token : Tokens, s : Session]
         /\ c.pc \in {"auth.clock", "auth.user", "granted"} => c \in AuthCall
         /\ c.pc = "deactivate" => c \in DeactivateCall
BY DEF Call, Idle, LoginCall, AuthCall, DeactivateCall

LEMMA InitSessions == Init => SessionsInv
<1> SUFFICES ASSUME Init PROVE SessionsInv
  OBVIOUS
<1>1. \A r \in Requests : call[r].pc = "idle"
  BY DEF Init, Idle
<1>2. TypeOK
  BY SessionsAssumption DEF Init, TypeOK
<1> QED BY <1>1, <1>2 DEF SessionsInv, DeadIsSeen, RevokesRows

(* A step that moves one request and leaves the database alone.            *)
LEMMA OneRequestMoves ==
  ASSUME SessionsInv, NEW r \in Requests, NEW c \in Call, Goto(r, c),
         UNCHANGED <<now, active, sessions>>,
         c.pc \in {"auth.clock", "auth.user", "granted"} => sessions[c.token] # NoSession,
         c.pc = "auth.clock" /\ c.dead =>
           c.s.revoked \/ now >= c.s.expires \/ ~active[c.s.user],
         c.pc = "auth.user" /\ c.dead => ~active[c.s.user],
         c.pc = "granted" => ~c.dead,
         c.pc = "deactivate" => \A t \in c.revoke : sessions[t] # NoSession
  PROVE  SessionsInv' /\ RowsEndForGood
<1>1. call \in [Requests -> Call]
  BY DEF SessionsInv, TypeOK, Call
<1>2. call' = [call EXCEPT ![r] = c] /\ call'[r] = c
      /\ \A q \in Requests : q # r => call'[q] = call[q]
  BY <1>1 DEF Goto
<1>3. TypeOK'
  BY <1>1, <1>2 DEF SessionsInv, TypeOK, Call
<1>4. DeadIsSeen' /\ RevokesRows'
  BY <1>2 DEF SessionsInv, DeadIsSeen, RevokesRows
<1>5. RowsEndForGood
  BY DEF RowsEndForGood
<1> QED BY <1>3, <1>4, <1>5 DEF SessionsInv

LEMMA IdleIsCall == Idle \in Call /\ Idle.pc = "idle"
BY DEF Call, Idle

(* A step that returns from one request, ends users and sessions or adds   *)
(* sessions, and lets the clock go on, keeps what the others know.         *)
LEMMA OthersKeep ==
  ASSUME SessionsInv, NEW r \in Requests, Return(r), RowsEndForGood,
         now' = now,
         active' \in [Users -> BOOLEAN],
         sessions' \in [Tokens -> Session \cup {NoSession}]
  PROVE  SessionsInv'
<1>1. call \in [Requests -> Call]
  BY DEF SessionsInv, TypeOK, Call
<1>2. call'[r].pc = "idle" /\ call' \in [Requests -> Call]
      /\ \A q \in Requests : q # r => call'[q] = call[q]
  BY <1>1, IdleIsCall DEF Return, Goto
<1>3. TypeOK'
  BY <1>2 DEF SessionsInv, TypeOK, Call
<1>4. \A q \in Requests :
        /\ call[q].pc \in {"auth.clock", "auth.user", "granted"} =>
             call[q].token \in Tokens /\ call[q].s.user \in Users
        /\ call[q].pc = "deactivate" => call[q].revoke \subseteq Tokens
  BY <1>1, CallKinds DEF AuthCall, DeactivateCall, Session
<1>5. DeadIsSeen'
  BY <1>2, <1>4 DEF SessionsInv, DeadIsSeen, RowsEndForGood
<1>6. RevokesRows'
  BY <1>2, <1>4 DEF SessionsInv, RevokesRows, RowsEndForGood
<1> QED BY <1>3, <1>5, <1>6 DEF SessionsInv

LEMMA SessionsStep == SessionsInv /\ [Next]_vars => SessionsInv' /\ (RowsEndForGood \/ UNCHANGED vars)
<1> SUFFICES ASSUME SessionsInv, [Next]_vars
             PROVE  SessionsInv' /\ (RowsEndForGood \/ UNCHANGED vars)
  OBVIOUS
<1> USE SessionsAssumption
<1>0. CASE UNCHANGED vars
  BY <1>0 DEF vars, SessionsInv, TypeOK, DeadIsSeen, RevokesRows
<1>a. /\ now \in 0 .. MaxTime /\ active \in [Users -> BOOLEAN]
      /\ sessions \in [Tokens -> Session \cup {NoSession}] /\ call \in [Requests -> Call]
      /\ NoSession \notin Session
  BY DEF SessionsInv, TypeOK, Call, Session
<1>1. CASE Tick
  <2>1. /\ now' = now + 1 /\ now' \in 0 .. MaxTime
        /\ UNCHANGED <<active, sessions, call>>
    BY <1>1, <1>a DEF Tick
  <2>2. \A r \in Requests : call[r].pc = "auth.clock" => call[r].s.expires \in Nat
    BY <1>a, CallKinds DEF AuthCall, Session
  <2>3. TypeOK' /\ RevokesRows' /\ RowsEndForGood
    BY <2>1 DEF SessionsInv, TypeOK, RevokesRows, RowsEndForGood
  <2>4. DeadIsSeen'
    BY <2>1, <2>2, <1>a DEF SessionsInv, DeadIsSeen
  <2> QED BY <2>3, <2>4 DEF SessionsInv
<1>2. ASSUME NEW r \in Requests, LoginRead(r)
      PROVE  SessionsInv' /\ RowsEndForGood
  <2>1. PICK u \in Users : /\ Goto(r, [pc |-> "login.clock", user |-> u])
                           /\ UNCHANGED <<now, active, sessions>>
    BY <1>2 DEF LoginRead
  <2> DEFINE c == [pc |-> "login.clock", user |-> u]
  <2>2. c \in Call /\ c.pc = "login.clock"
    BY DEF Call, LoginCall
  <2> HIDE DEF c
  <2> QED BY <2>1, <2>2, OneRequestMoves DEF c
<1>3. ASSUME NEW r \in Requests, LoginClock(r)
      PROVE  SessionsInv' /\ RowsEndForGood
  <2>1. PICK t \in Tokens :
          Goto(r, [pc |-> "login.insert", token |-> t,
                   s |-> [user |-> call[r].user, expires |-> now + TTL, revoked |-> FALSE]])
    BY <1>3 DEF LoginClock
  <2>2. call[r].user \in Users /\ now + TTL \in Nat
    BY <1>3, <1>a, CallKinds DEF LoginClock, At
  <2> DEFINE s == [user |-> call[r].user, expires |-> now + TTL, revoked |-> FALSE]
             c == [pc |-> "login.insert", token |-> t, s |-> s]
  <2>3. s \in Session
    BY <2>2 DEF Session
  <2>4. c \in Call /\ c.pc = "login.insert"
    <3> HIDE DEF s
    <3> QED BY <2>3 DEF Call, LoginCall
  <2>5. Goto(r, c) /\ UNCHANGED <<now, active, sessions>>
    BY <2>1, <1>3 DEF LoginClock
  <2> HIDE DEF c
  <2> QED BY <2>4, <2>5, OneRequestMoves
<1>4. ASSUME NEW r \in Requests, CreateSession(r)
      PROVE  SessionsInv' /\ RowsEndForGood
  <2>1. call[r].token \in Tokens /\ call[r].s \in Session
    BY <1>4, <1>a, CallKinds DEF CreateSession, At
  <2>2. /\ sessions' = [sessions EXCEPT ![call[r].token] = call[r].s]
        /\ sessions[call[r].token] = NoSession
        /\ Return(r) /\ UNCHANGED <<now, active>>
    BY <1>4 DEF CreateSession
  <2>3. sessions' \in [Tokens -> Session \cup {NoSession}]
    BY <1>a, <2>1, <2>2
  <2>4. RowsEndForGood
    BY <1>a, <2>1, <2>2 DEF RowsEndForGood
  <2> QED BY <1>a, <2>2, <2>3, <2>4, OthersKeep
<1>5. ASSUME NEW r \in Requests, GetSession(r)
      PROVE  SessionsInv' /\ RowsEndForGood
  <2>1. PICK t \in Tokens :
          /\ sessions[t] # NoSession
          /\ Goto(r, [pc |-> "auth.clock", token |-> t, s |-> sessions[t],
                      dead |-> sessions[t].revoked \/ now >= sessions[t].expires
                                 \/ ~active[sessions[t].user]])
          /\ UNCHANGED <<now, active, sessions>>
    BY <1>5, Zenon DEF GetSession
  <2>2. sessions[t] \in Session
    BY <1>a, <2>1
  <2> DEFINE d == sessions[t].revoked \/ now >= sessions[t].expires
                    \/ ~active[sessions[t].user]
             c == [pc |-> "auth.clock", token |-> t, s |-> sessions[t], dead |-> d]
  <2>3. d \in BOOLEAN
    OBVIOUS
  <2>4. c \in Call /\ c.pc = "auth.clock" /\ c.token = t /\ c.s = sessions[t] /\ c.dead = d
    <3> HIDE DEF d
    <3> QED BY <2>2, <2>3 DEF Call, AuthCall
  <2>5. Goto(r, c)
    BY <2>1
  <2>6. c.dead => c.s.revoked \/ now >= c.s.expires \/ ~active[c.s.user]
    <3>1. d => sessions[t].revoked \/ now >= sessions[t].expires \/ ~active[sessions[t].user]
      OBVIOUS
    <3> HIDE DEF d, c
    <3> QED BY <2>4, <3>1
  <2> HIDE DEF c, d
  <2> QED BY <2>1, <2>4, <2>5, <2>6, OneRequestMoves
<1>6. ASSUME NEW r \in Requests, Return(r), UNCHANGED <<now, active, sessions>>
      PROVE  SessionsInv' /\ RowsEndForGood
  BY <1>6, IdleIsCall, OneRequestMoves DEF Return
<1>7. ASSUME NEW r \in Requests, CheckSession(r)
      PROVE  SessionsInv' /\ RowsEndForGood
  <2>1. CASE IsSessionActive(call[r].s, now) /\ Goto(r, [call[r] EXCEPT !.pc = "auth.user"])
    <3>1. call[r] \in AuthCall /\ call[r].pc = "auth.clock"
      BY <1>7, <1>a, CallKinds DEF CheckSession, At
    <3> DEFINE c == [call[r] EXCEPT !.pc = "auth.user"]
    <3>2. /\ c \in AuthCall /\ c.pc = "auth.user" /\ c.token = call[r].token
          /\ c.s = call[r].s /\ c.dead = call[r].dead
      BY <3>1 DEF AuthCall
    <3>3. Goto(r, c) /\ UNCHANGED <<now, active, sessions>>
      BY <1>7, <2>1 DEF CheckSession
    <3> HIDE DEF c
    <3>4. ~call[r].s.revoked /\ now < call[r].s.expires /\ call[r].s.expires \in Nat
      BY <2>1, <3>1 DEF IsSessionActive, AuthCall, Session
    <3>5. c.dead => ~active[c.s.user]
      <4>1. call[r].dead => call[r].s.revoked \/ now >= call[r].s.expires
                              \/ ~active[call[r].s.user]
        BY <3>1, Zenon DEF SessionsInv, DeadIsSeen
      <4>2. ~(now >= call[r].s.expires)
        BY <1>a, <3>4
      <4> QED BY <3>2, <3>4, <4>1, <4>2, Zenon
    <3>6. sessions[c.token] # NoSession
      BY <3>1, <3>2 DEF SessionsInv, DeadIsSeen
    <3> QED BY <3>2, <3>3, <3>5, <3>6, OneRequestMoves DEF Call
  <2> QED BY <1>6, <1>7, <2>1 DEF CheckSession
<1>8. ASSUME NEW r \in Requests, GetUser(r)
      PROVE  SessionsInv' /\ RowsEndForGood
  <2>1. CASE active[call[r].s.user] /\ Goto(r, [call[r] EXCEPT !.pc = "granted"])
    <3>1. call[r] \in AuthCall /\ call[r].pc = "auth.user"
      BY <1>8, <1>a, CallKinds DEF GetUser, At
    <3> DEFINE c == [call[r] EXCEPT !.pc = "granted"]
    <3>2. /\ c \in AuthCall /\ c.pc = "granted" /\ c.token = call[r].token
          /\ c.s = call[r].s /\ c.dead = call[r].dead
      BY <3>1 DEF AuthCall
    <3>3. Goto(r, c) /\ UNCHANGED <<now, active, sessions>>
      BY <1>8, <2>1 DEF GetUser
    <3> HIDE DEF c
    <3>4. ~c.dead
      BY <2>1, <3>1, <3>2 DEF SessionsInv, DeadIsSeen
    <3>5. sessions[c.token] # NoSession
      BY <3>1, <3>2 DEF SessionsInv, DeadIsSeen
    <3> QED BY <3>2, <3>3, <3>4, <3>5, OneRequestMoves DEF Call
  <2> QED BY <1>6, <1>8, <2>1 DEF GetUser
<1>9. ASSUME NEW r \in Requests, Logout(r)
      PROVE  SessionsInv' /\ RowsEndForGood
  <2> DEFINE t == call[r].token
  <2>1. t \in Tokens /\ sessions[t] # NoSession
    BY <1>9, <1>a, CallKinds DEF Logout, At, AuthCall, SessionsInv, DeadIsSeen
  <2>2. sessions[t] \in Session
    BY <1>a, <2>1
  <2>3. /\ sessions' = [sessions EXCEPT ![t] = [sessions[t] EXCEPT !.revoked = TRUE]]
        /\ Return(r) /\ UNCHANGED <<now, active>>
    BY <1>9 DEF Logout
  <2> DEFINE w == [sessions[t] EXCEPT !.revoked = TRUE]
  <2>4. /\ w \in Session /\ w.user = sessions[t].user
        /\ w.expires = sessions[t].expires /\ w.revoked
    BY <2>2 DEF Session
  <2> HIDE DEF w, t
  <2>5. /\ sessions' \in [Tokens -> Session \cup {NoSession}]
        /\ sessions'[t] = w
        /\ \A x \in Tokens : x # t => sessions'[x] = sessions[x]
    BY <1>a, <2>1, <2>3, <2>4 DEF w
  <2>6. RowsEndForGood
    BY <1>a, <2>3, <2>4, <2>5 DEF RowsEndForGood
  <2> QED BY <1>a, <2>3, <2>5, <2>6, OthersKeep
<1>10. ASSUME NEW r \in Requests, DeactivateBegin(r)
       PROVE  SessionsInv' /\ RowsEndForGood
  <2>1. PICK u \in Users :
          /\ Goto(r, [pc |-> "deactivate", target |-> u, revoke |-> UnrevokedOf(u)])
          /\ UNCHANGED <<now, active, sessions>>
    BY <1>10 DEF DeactivateBegin
  <2>2. UnrevokedOf(u) \subseteq Tokens /\ \A t \in UnrevokedOf(u) : sessions[t] # NoSession
    BY DEF UnrevokedOf
  <2> DEFINE c == [pc |-> "deactivate", target |-> u, revoke |-> UnrevokedOf(u)]
  <2>3. c \in Call /\ c.pc = "deactivate" /\ c.revoke = UnrevokedOf(u)
    BY <2>2 DEF Call, DeactivateCall
  <2>4. Goto(r, c)
    BY <2>1
  <2> HIDE DEF c
  <2> QED BY <2>1, <2>2, <2>3, <2>4, OneRequestMoves
<1>11. ASSUME NEW r \in Requests, DeactivateCommit(r)
       PROVE  SessionsInv' /\ RowsEndForGood
  <2>1. call[r].target \in Users /\ call[r].revoke \subseteq Tokens
        /\ \A t \in call[r].revoke : sessions[t] # NoSession
    BY <1>11, <1>a, CallKinds
       DEF DeactivateCommit, At, DeactivateCall, SessionsInv, RevokesRows
  <2>2. /\ active' = [active EXCEPT ![call[r].target] = FALSE]
        /\ Return(r) /\ UNCHANGED now
    BY <1>11 DEF DeactivateCommit
  <2>3. active' \in [Users -> BOOLEAN] /\ \A u \in Users : ~active[u] => ~active'[u]
    BY <1>a, <2>1, <2>2
  <2> DEFINE w(t) == [sessions[t] EXCEPT !.revoked = TRUE]
  <2>4. \A t \in Tokens : sessions[t] \in Session =>
          /\ w(t) \in Session /\ w(t).user = sessions[t].user
          /\ w(t).expires = sessions[t].expires /\ w(t).revoked
    BY DEF Session
  <2>5. sessions' = [t \in Tokens |-> IF t \in call[r].revoke THEN w(t) ELSE sessions[t]]
    BY <1>11 DEF DeactivateCommit
  <2> HIDE DEF w
  <2>6. \A t \in Tokens : sessions'[t] = IF t \in call[r].revoke THEN w(t) ELSE sessions[t]
    BY <2>5
  <2>7. \A t \in Tokens : t \in call[r].revoke => sessions[t] \in Session
    BY <1>a, <2>1
  <2>8. sessions' \in [Tokens -> Session \cup {NoSession}]
    BY <1>a, <2>4, <2>5, <2>7
  <2>9. RowsEndForGood
    BY <1>a, <2>3, <2>4, <2>6, <2>7 DEF RowsEndForGood
  <2> QED BY <2>2, <2>3, <2>8, <2>9, OthersKeep
<1>12. ASSUME NEW r \in Requests, ServeHTTP(r) \/ Abort(r)
       PROVE  SessionsInv' /\ RowsEndForGood
  BY <1>6, <1>12 DEF ServeHTTP, Abort
<1> QED BY <1>0, <1>1, <1>2, <1>3, <1>4, <1>5, <1>7, <1>8, <1>9, <1>10, <1>11, <1>12
        DEF Next

LEMMA SessionsInvariance == Spec => []SessionsInv
<1>1. SessionsInv /\ [Next]_vars => SessionsInv'
  BY SessionsStep
<1> QED BY <1>1, InitSessions, PTL DEF Spec

(* A request that came in after its session was revoked, had expired or    *)
(* lost its user is never let through.                                     *)
THEOREM AccessEndsWithSession == Spec => []NoAccessAfterEnd
<1>1. SessionsInv => NoAccessAfterEnd
  BY DEF SessionsInv, DeadIsSeen, NoAccessAfterEnd, At
<1> QED BY <1>1, SessionsInvariance, PTL

(* Deactivation and revocation are for good, and a session keeps its user  *)
(* and its expiry, whatever handlers run concurrently.                     *)
THEOREM SessionsEndForGood == Spec => EndIsFinal
<1>1. SessionsInv /\ [Next]_vars => [RowsEndForGood]_vars
  BY SessionsStep
<1>2. Spec => [][RowsEndForGood]_vars
  BY <1>1, SessionsInvariance, PTL DEF Spec
<1> QED BY <1>2 DEF EndIsFinal, RowsEndForGood
=============================================================================
