------------------------------ MODULE Clearance ------------------------------
(***************************************************************************)
(* customs.Workflow and scan.Service, for one shipment.  A reviewer brings *)
(* the time of its review with it, read before the mutex was taken: the    *)
(* reviews of two callers may come in the wrong order.                     *)
(***************************************************************************)
EXTENDS Integers, FiniteSets

CONSTANTS DocNumbers, Times,   \* Times: 1 .. a last one; documents expire at one
          Signals

ASSUME ClearanceAssumption ==
  Times \subseteq Int /\ Signals \cap {"none", "passed"} = {}

VARIABLES
  customsCase,   \* "none", "pending", "released" or "held"
  documents,     \* a set of <<number, expiry>>
  releasedAt,    \* history: the time of the last review that released, and
  heldAt,        \*   the times of those that held
  scanResult,    \* "none", "passed", or the signal the last check failed on
  blocked,       \* the reason in the map blocked, "none" if there is none
  lastSignals    \* history: the signals of the last check

clearanceVars == <<customsCase, documents, releasedAt, heldAt, scanResult, blocked, lastSignals>>
customsVars == <<customsCase, documents, releasedAt, heldAt>>
scanVars == <<scanResult, blocked, lastSignals>>

ClearanceInit ==
  /\ customsCase = "none" /\ documents = {} /\ releasedAt = 0 /\ heldAt = {}
  /\ scanResult = "none" /\ blocked = "none" /\ lastSignals = {}

(* The documents a case is opened with are the caller's.                   *)
Open(docs) ==
  /\ customsCase = "none" /\ customsCase' = "pending"
  /\ documents' = docs
  /\ UNCHANGED <<releasedAt, heldAt, scanVars>>

Attach_Replaces(number, expiry) ==
  /\ customsCase # "none"
  /\ documents' = {d \in documents : d[1] # number} \cup {<<number, expiry>>}
  /\ UNCHANGED <<customsCase, releasedAt, heldAt, scanVars>>
Attach(number, expiry) ==
  /\ customsCase # "none" /\ \A d \in documents : d[1] # number
  /\ documents' = documents \cup {<<number, expiry>>}
  /\ UNCHANGED <<customsCase, releasedAt, heldAt, scanVars>>

(* A case without documents is refused, in whatever state it is; the state *)
(* is not looked at otherwise.                                             *)
Review(now) ==
  /\ customsCase # "none" /\ documents # {}
  /\ IF \E d \in documents : now >= d[2]
     THEN customsCase' = "held" /\ heldAt' = heldAt \cup {now} /\ UNCHANGED releasedAt
     ELSE customsCase' = "released" /\ releasedAt' = now /\ UNCHANGED heldAt
  /\ UNCHANGED <<documents, scanVars>>

(* The map of the signals is read in no order: the first bad one is the    *)
(* reason.                                                                 *)
Check(bad) ==
  /\ IF bad = {} THEN scanResult' = "passed" /\ blocked' = "none"
     ELSE \E s \in bad : scanResult' = s /\ blocked' = s
  /\ lastSignals' = bad /\ UNCHANGED customsVars

ClearanceNext ==
  \/ \E docs \in SUBSET (DocNumbers \X Times) : Cardinality(docs) <= 1 /\ Open(docs)
  \/ \E number \in DocNumbers, expiry \in Times : Attach(number, expiry)
  \/ \E now \in Times : Review(now)
  \/ \E bad \in SUBSET Signals : Check(bad)

ClearanceSpec == ClearanceInit /\ [][ClearanceNext]_clearanceVars

-----------------------------------------------------------------------------
(* A case is released only by a review dated before every review that held *)
(* it: documents are never replaced or removed, so a case once held for an *)
(* expired document is not released again by a later-dated review.         *)
ReleaseBeforeHolds == customsCase = "released" => \A t \in heldAt : releasedAt < t

(* A shipment is blocked exactly if its last check failed, and for a       *)
(* signal of that check.                                                   *)
BlockedByLastCheck ==
  /\ blocked # "none" <=> scanResult \notin {"none", "passed"}
  /\ blocked # "none" => blocked = scanResult /\ blocked \in lastSignals

(* What the two services promise of a shipment: no release by a review     *)
(* dated at or after one that held, and a block that follows the last      *)
(* check.                                                                  *)
ClearanceSound == ReleaseBeforeHolds /\ BlockedByLastCheck
=============================================================================
