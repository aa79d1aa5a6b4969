------------------------------ MODULE Sessions ------------------------------
(***************************************************************************)
(* Login, Authenticate, Logout and DeactivateUser of service.Application,  *)
(* over the users and sessions tables.  Requests run concurrently; a       *)
(* handler reads the database and the clock in separate steps.             *)
(*                                                                         *)
(* A session is known by its token: the table holds the token's hash, and  *)
(* equal hashes are equal tokens.  Passwords are not modelled: LoginRead   *)
(* is a login whose password matched.                                      *)
(***************************************************************************)
EXTENDS Integers

CONSTANTS Users,
          Coordinators,      \* the users of role coordinator
          Tokens,            \* the tokens randomToken can draw
          Requests,
          TTL,
          MaxTime,           \* bound: the clock stops here
          NoSession

ASSUME SessionsAssumption ==
  /\ Coordinators \subseteq Users
  /\ TTL \in Nat /\ MaxTime \in Nat
  /\ NoSession \notin [user : Users, expires : Nat, revoked : BOOLEAN]

VARIABLES now, active, sessions, call
vars == <<now, active, sessions, call>>

Session == [user : Users, expires : Nat, revoked : BOOLEAN]

Idle == [pc |-> "idle"]
LoginCall == [pc : {"login.clock"}, user : Users]
         \cup [pc : {"login.insert"}, token : Tokens, s : Session]

(* Authenticate's locals.  dead is history: whether the session was over   *)
(* already when the request came in.                                       *)
AuthCall == [pc : {"auth.clock", "auth.user", "granted"}, token : Tokens,
             s : Session, dead : BOOLEAN]
DeactivateCall == [pc : {"deactivate"}, target : Users, revoke : SUBSET Tokens]

TypeOK ==
  /\ now \in 0 .. MaxTime
  /\ active \in [Users -> BOOLEAN]
  /\ sessions \in [Tokens -> Session \cup {NoSession}]
  /\ call \in [Requests -> {Idle} \cup LoginCall \cup AuthCall \cup DeactivateCall]

Init ==
  /\ now = 0
  /\ active = [u \in Users |-> TRUE]
  /\ sessions = [t \in Tokens |-> NoSession]
  /\ call = [r \in Requests |-> Idle]

At(r, pc)   == call[r].pc = pc
Goto(r, c)  == call' = [call EXCEPT ![r] = c]
Return(r)   == Goto(r, Idle)

Tick == now < MaxTime /\ now' = now + 1 /\ UNCHANGED <<active, sessions, call>>

(* A request fails or is cancelled between two steps; an open transaction  *)
(* is rolled back.                                                         *)
Abort(r) == ~At(r, "idle") /\ Return(r) /\ UNCHANGED <<now, active, sessions>>

-----------------------------------------------------------------------------
(* Login reads the user, computes the expiry from the clock, and inserts   *)
(* the session without looking at the user again.                          *)
LoginRead(r) ==
  \E u \in Users :
    /\ At(r, "idle")
    /\ active[u]
    /\ Goto(r, [pc |-> "login.clock", user |-> u])
    /\ UNCHANGED <<now, active, sessions>>

LoginClock(r) ==
  /\ At(r, "login.clock")
  /\ \E t \in Tokens :
       Goto(r, [pc |-> "login.insert", token |-> t,
                s |-> [user |-> call[r].user, expires |-> now + TTL, revoked |-> FALSE]])
  /\ UNCHANGED <<now, active, sessions>>

(* token_hash is UNIQUE.                                                   *)
CreateSession_Overwrite(r) ==
  /\ At(r, "login.insert")
  /\ sessions' = [sessions EXCEPT ![call[r].token] = call[r].s]
  /\ Return(r)
  /\ UNCHANGED <<now, active>>
CreateSession(r) ==
  /\ At(r, "login.insert")
  /\ sessions[call[r].token] = NoSession
  /\ sessions' = [sessions EXCEPT ![call[r].token] = call[r].s]
  /\ Return(r)
  /\ UNCHANGED <<now, active>>

-----------------------------------------------------------------------------
(* Authenticate: read the session, compare it with the clock, read its     *)
(* user.                                                                   *)
IsSessionActive(s, at) == ~s.revoked /\ at < s.expires

GetSession(r) ==
  \E t \in Tokens :
    LET s == sessions[t] IN
    /\ At(r, "idle")
    /\ s # NoSession
    /\ Goto(r, [pc |-> "auth.clock", token |-> t, s |-> s,
                dead |-> s.revoked \/ now >= s.expires \/ ~active[s.user]])
    /\ UNCHANGED <<now, active, sessions>>

CheckSession(r) ==
  /\ At(r, "auth.clock")
  /\ \/ IsSessionActive(call[r].s, now) /\ Goto(r, [call[r] EXCEPT !.pc = "auth.user"])
     \/ ~IsSessionActive(call[r].s, now) /\ Return(r)
  /\ UNCHANGED <<now, active, sessions>>

GetUser_IgnoreActive(r) ==
  /\ At(r, "auth.user")
  /\ Goto(r, [call[r] EXCEPT !.pc = "granted"])
  /\ UNCHANGED <<now, active, sessions>>
GetUser(r) ==
  /\ At(r, "auth.user")
  /\ \/ active[call[r].s.user] /\ Goto(r, [call[r] EXCEPT !.pc = "granted"])
     \/ ~active[call[r].s.user] /\ Return(r)
  /\ UNCHANGED <<now, active, sessions>>

(* Any other handler behind the auth middleware runs and returns.          *)
ServeHTTP(r) == At(r, "granted") /\ Return(r) /\ UNCHANGED <<now, active, sessions>>

-----------------------------------------------------------------------------
(* Logout is served to an authenticated request; a session already revoked *)
(* is not an error.                                                        *)
Logout(r) ==
  /\ At(r, "granted")
  /\ sessions' = [sessions EXCEPT ![call[r].token].revoked = TRUE]
  /\ Return(r)
  /\ UNCHANGED <<now, active>>

UnrevokedOf(u) == {t \in Tokens : sessions[t] # NoSession
                     /\ sessions[t].user = u /\ ~sessions[t].revoked}

(* DeactivateUser's transaction: it locks the user's row, picks the rows   *)
(* its second UPDATE sees, and makes both changes visible at the commit.   *)
(* The lock does not keep a session of the user from being inserted: the   *)
(* foreign key takes a key-share lock, which an update of active allows.   *)
DeactivateBegin(r) ==
  \E u \in Users :
    /\ At(r, "granted")
    /\ call[r].s.user \in Coordinators
    /\ \A q \in Requests : At(q, "deactivate") => call[q].target # u
    /\ Goto(r, [pc |-> "deactivate", target |-> u, revoke |-> UnrevokedOf(u)])
    /\ UNCHANGED <<now, active, sessions>>

DeactivateCommit(r) ==
  /\ At(r, "deactivate")
  /\ active' = [active EXCEPT ![call[r].target] = FALSE]
  /\ sessions' = [t \in Tokens |-> IF t \in call[r].revoke
                                   THEN [sessions[t] EXCEPT !.revoked = TRUE]
                                   ELSE sessions[t]]
  /\ Return(r)
  /\ UNCHANGED now

-----------------------------------------------------------------------------
Next ==
  \/ Tick
  \/ \E r \in Requests :
       \/ LoginRead(r) \/ LoginClock(r) \/ CreateSession(r)
       \/ GetSession(r) \/ CheckSession(r) \/ GetUser(r)
       \/ ServeHTTP(r) \/ Logout(r)
       \/ DeactivateBegin(r) \/ DeactivateCommit(r) \/ Abort(r)

Spec == Init /\ [][Next]_vars

-----------------------------------------------------------------------------
(* A request that came in after its session was revoked, had expired or    *)
(* lost its user is never let through, whatever runs between the three     *)
(* reads of Authenticate.  The check of the user matters: a login racing a *)
(* deactivation leaves a session nobody revokes.                           *)
NoAccessAfterEnd ==
  \A r \in Requests : At(r, "granted") => ~call[r].dead

(* Deactivation and revocation are for good: no concurrent login, logout   *)
(* or deactivation that read older rows undoes them.                       *)
EndIsFinal ==
  [][/\ \A u \in Users : ~active[u] => ~active'[u]
     /\ \A t \in Tokens : sessions[t] # NoSession =>
          /\ sessions'[t] # NoSession
          /\ sessions[t].revoked => sessions'[t].revoked
          /\ sessions'[t].user = sessions[t].user
          /\ sessions'[t].expires = sessions[t].expires]_vars
=============================================================================
