--------------------------- MODULE BookingLedger ---------------------------
(***************************************************************************)
(* booking.Ledger: reservations of weight on legs.  The identifier of an   *)
(* allocation is made of the shipment and the clock in nanoseconds, so two *)
(* reservations of a shipment at one reading of the clock share it, and    *)
(* the second overwrites the first.                                        *)
(***************************************************************************)
EXTENDS Domain, FiniteSetsExt

CONSTANTS LedgerLegs, LedgerShipments, LedgerCapacities, LedgerWeights,
          MaxNano      \* bound: readings of the clock

ASSUME LedgerAssumption ==
  /\ LedgerCapacities \subseteq -(MaxInt64 + 1) .. MaxInt64
  /\ LedgerWeights \subseteq Int /\ MaxNano \in Nat

VARIABLES
  nano,          \* the clock
  legCapacity,   \* leg -> capacity, 0 if it is not defined
  reserved,
  allocations,   \* a set of [id, leg, weight, accepted], one for each id
  collided,      \* history: an identifier was used twice
  ledgerWrapped        \* history: the legs whose sum went past the largest int64

ledgerVars == <<nano, legCapacity, reserved, allocations, collided, ledgerWrapped>>

LedgerInit ==
  /\ nano = 0 /\ allocations = {} /\ collided = FALSE /\ ledgerWrapped = {}
  /\ legCapacity = [l \in LedgerLegs |-> 0] /\ reserved = [l \in LedgerLegs |-> 0]

DefineLeg(l, capacity) ==
  /\ capacity > 0 /\ legCapacity[l] = 0
  /\ legCapacity' = [legCapacity EXCEPT ![l] = capacity]
  /\ UNCHANGED <<nano, reserved, allocations, collided, ledgerWrapped>>

Reserve(s, l, weight) ==
  LET id  == <<s, nano>>
      old == {a \in allocations : a.id = id}
  IN
  /\ weight > 0 /\ legCapacity[l] # 0
  /\ AddInt64(reserved[l], weight) <= legCapacity[l]
  /\ reserved' = [reserved EXCEPT ![l] = AddInt64(@, weight)]
  /\ allocations' = (allocations \ old)
       \cup {[id |-> id, leg |-> l, weight |-> weight, accepted |-> TRUE]}
  /\ collided' = (collided \/ old # {})
  /\ ledgerWrapped' = IF reserved[l] + weight > MaxInt64 THEN ledgerWrapped \cup {l} ELSE ledgerWrapped
  /\ UNCHANGED <<nano, legCapacity>>

(* A second release changes nothing.                                       *)
LedgerRelease_Again(a) ==
  /\ reserved' = [reserved EXCEPT ![a.leg] = AddInt64(@, -a.weight)]
  /\ allocations' = (allocations \ {a}) \cup {[a EXCEPT !.accepted = FALSE]}
  /\ UNCHANGED <<nano, legCapacity, collided, ledgerWrapped>>
LedgerRelease(a) ==
  /\ a.accepted
  /\ reserved' = [reserved EXCEPT ![a.leg] = AddInt64(@, -a.weight)]
  /\ allocations' = (allocations \ {a}) \cup {[a EXCEPT !.accepted = FALSE]}
  /\ UNCHANGED <<nano, legCapacity, collided, ledgerWrapped>>

NanoPasses ==
  /\ nano < MaxNano /\ nano' = nano + 1
  /\ UNCHANGED <<legCapacity, reserved, allocations, collided, ledgerWrapped>>

LedgerNext ==
  \/ \E l \in LedgerLegs : \/ \E c \in LedgerCapacities : DefineLeg(l, c)
                           \/ \E s \in LedgerShipments, w \in LedgerWeights : Reserve(s, l, w)
  \/ \E a \in allocations : LedgerRelease(a)
  \/ NanoPasses

LedgerSpec == LedgerInit /\ [][LedgerNext]_ledgerVars

-----------------------------------------------------------------------------
AcceptedOn(l) == {a \in allocations : a.leg = l /\ a.accepted}
LedgerKg(parts) == MapThenSumSet(LAMBDA p : p.weight, parts)
Accepted(l) == LedgerKg(AcceptedOn(l))

(* Unless a sum went past the largest int64, the accepted allocations of a *)
(* leg never take more than is reserved, and that is not more than the     *)
(* capacity; what is reserved and not allocated was lost to an identifier  *)
(* used twice, and no release gives it back.                               *)
ReservedCovers ==
  \A l \in LedgerLegs :
    l \notin ledgerWrapped =>
      /\ Accepted(l) <= reserved[l] /\ reserved[l] <= legCapacity[l]
      /\ ~collided => Accepted(l) = reserved[l]
=============================================================================
