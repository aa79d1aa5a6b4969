----------------------------- MODULE Idempotency -----------------------------
(***************************************************************************)
(* idempotency.Store, for one tenant and key: requests Begin, work, and    *)
(* Complete with their answer, while time passes, records expire and       *)
(* Cleanup runs.  Callers of Begin and Cleanup read the clock before the   *)
(* mutex is taken, so the time they bring may be old, here by at most      *)
(* IdemSkew.  Complete finds the record by its key alone.                  *)
(***************************************************************************)
EXTENDS Integers

CONSTANTS IdemRequests, Fingerprints, Lifetime,   \* Lifetime: 24 hours in the code
          IdemSkew, LastTime                      \* bounds: the age of a reading, the time

ASSUME IdempotencyAssumption ==
  Lifetime \in Nat /\ IdemSkew \in Nat /\ "none" \notin Fingerprints

VARIABLES
  idemClock,
  record,     \* [fingerprint, body, expires]; body "none" is status 102
  request,    \* per request: [state, fingerprint, at, expires]; state is "new",
              \*   "working", "completed", "replayed" or "refused", and at work it has
              \*   the true time of its Begin and the end its record was given
  replies,    \* history: the replays <<fingerprint of the request, body>>
  overdue     \* history: the fingerprints of requests completed after that end

idemVars == <<idemClock, record, request, replies, overdue>>

NoRecord == [fingerprint |-> "none", body |-> "none", expires |-> 0]

NotAtWork(state) == [state |-> state, fingerprint |-> "none", at |-> 0, expires |-> 0]

IdemInit ==
  /\ idemClock = 1 /\ record = NoRecord /\ replies = {} /\ overdue = {}
  /\ request = [r \in IdemRequests |-> NotAtWork("new")]

(* The times a caller may bring.                                           *)
Readings == idemClock - IdemSkew .. idemClock

Live(now) == record # NoRecord /\ now < record.expires

(* An answer is a replay of the record, also while its request is at work. *)
BeginOutcome(fp, now) ==
  IF ~Live(now) THEN "working"
  ELSE IF record.fingerprint # fp THEN "refused" ELSE "replayed"

Begin(r, fp, now) ==
  /\ request[r].state = "new"
  /\ request' = [request EXCEPT ![r] =
       IF BeginOutcome(fp, now) # "working" THEN NotAtWork(BeginOutcome(fp, now))
       ELSE [state |-> "working", fingerprint |-> fp, at |-> idemClock, expires |-> now + Lifetime]]
  /\ record' = IF BeginOutcome(fp, now) # "working" THEN record
               ELSE [fingerprint |-> fp, body |-> "none", expires |-> now + Lifetime]
  /\ replies' = IF BeginOutcome(fp, now) # "replayed" THEN replies
                ELSE replies \cup {<<fp, record.body>>}
  /\ UNCHANGED <<idemClock, overdue>>

(* The body a request makes is named by its fingerprint.                   *)
Complete(r) ==
  /\ request[r].state = "working"
  /\ request' = [request EXCEPT ![r] = NotAtWork("completed")]
  /\ record' = IF record = NoRecord THEN record
               ELSE [record EXCEPT !.body = request[r].fingerprint]
  /\ overdue' = IF idemClock < request[r].expires THEN overdue
                ELSE overdue \cup {request[r].fingerprint}
  /\ UNCHANGED <<idemClock, replies>>

Cleanup_Early(now) == record' = NoRecord /\ UNCHANGED <<idemClock, request, replies, overdue>>
Cleanup(now) ==
  /\ record # NoRecord /\ ~Live(now)
  /\ record' = NoRecord
  /\ UNCHANGED <<idemClock, request, replies, overdue>>

IdemTick ==
  /\ idemClock < LastTime /\ idemClock' = idemClock + 1
  /\ UNCHANGED <<record, request, replies, overdue>>

IdemNext ==
  \/ \E r \in IdemRequests : Complete(r)
  \/ \E r \in IdemRequests, fp \in Fingerprints, now \in Readings : Begin(r, fp, now)
  \/ \E now \in Readings : Cleanup(now)
  \/ IdemTick

IdemSpec == IdemInit /\ [][IdemNext]_idemVars

-----------------------------------------------------------------------------
(* At most one request works under a key until the time its record was     *)
(* given is really over, whatever old readings Begin and Cleanup bring: of *)
(* two at work one began after the end of the other's record.              *)
OneAtWork ==
  \A r, q \in IdemRequests :
    r # q /\ request[r].state = "working" /\ request[q].state = "working"
      => request[r].expires <= request[q].at \/ request[q].expires <= request[r].at

(* A replay is answered with the body of its own request or with none yet; *)
(* any other body it gets is one whose request completed after the end of  *)
(* its record, which writes into the record of its successor.              *)
RepliesOwnBody == \A reply \in replies : reply[2] \in {"none", reply[1]} \cup overdue

(* What the store promises: one request at work under a key, and replies   *)
(* with the answer of that request.                                        *)
IdempotencySound == OneAtWork /\ RepliesOwnBody
=============================================================================
