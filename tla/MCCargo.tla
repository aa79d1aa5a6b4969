------------------------------- MODULE MCCargo -------------------------------
(***************************************************************************)
(* Instances of Cargo for TLC.                                             *)
(***************************************************************************)
EXTENDS CargoRefinement, TLC

CONSTANTS t1, t2, r1, r2, s1, s2

Coordinator(tenant) == [tenant |-> tenant, role |-> "coordinator"]
GroundAgent(tenant) == [tenant |-> tenant, role |-> "ground_agent"]
Shipper(tenant)     == [tenant |-> tenant, role |-> "shipper"]

OneCoordinator  == {Coordinator(t1)}
OneOfEachRole   == {Coordinator(t1), GroundAgent(t1), Shipper(t1)}
NoCoordinator   == {GroundAgent(t1), Shipper(t1)}
TwoCoordinators == {Coordinator(t1), Coordinator(t2)}

OneRoute  == {<<"PVG", "LAX">>}
TwoRoutes == {<<"PVG", "LAX">>, <<"PVG", "FRA">>, <<"PVG", "PVG">>}

RequestSymmetry == Permutations(Requests)
Symmetry == RequestSymmetry \cup Permutations(ShipmentIds)
TenantSymmetry == Symmetry \cup Permutations(Tenants)

-----------------------------------------------------------------------------
(* Three uses of the handlers that are too large for TLC together.  Each   *)
(* says what rows there are and what the handlers in flight work on.  The  *)
(* users are coordinators: they may do what any other role may.            *)
InFlight == {call[r] : r \in {q \in Requests : ~At(q, "idle")}}

(* One shipment, with every transition and every status of customs and     *)
(* security.                                                               *)
OneShipment(t, id) ==
  /\ \A o \in ShipmentIds : shipments[o] # NoRow =>
       o = id /\ shipments[o].tenant = t /\ shipments[o].key = NoKey
  /\ \A l \in LegIds : legs[l] # NoRow => legs[l].tenant = t
  /\ \A c \in InFlight : /\ c.user.tenant = t
                         /\ c.pc # "open" => c.id = id
                         /\ c.pc = "create" => c.s.key = NoKey

(* Several tenants that create, book and cancel shipments,                 *)
Bookings ==
  /\ \A id \in ShipmentIds :
       /\ security[id] = NoRow /\ customs[id] \in {NoRow, "released"}
       /\ shipments[id] # NoRow => \/ shipments[id].status \in {"draft", "cancelled"}
                                   \/ shipments[id].status = "booked" /\ bookedOn[id] # NoLeg
  /\ \A c \in InFlight : /\ c.pc = "move.commit" => c.next = "cancelled"
                         /\ c.pc \in {"customs.read", "customs.put"} => c.status = "released"
                         /\ c.pc \notin {"move.customs", "move.security", "security.put"}

(* with idempotency keys,                                                  *)
Retries ==
  /\ Bookings
  /\ \A id \in ShipmentIds : customs[id] = NoRow
  /\ \A c \in InFlight : c.pc \notin {"customs.read", "customs.put"}

(* or while they release cases.                                            *)
Releases ==
  /\ Bookings
  /\ acks = {} /\ \A id \in ShipmentIds : shipments[id] # NoRow => shipments[id].key = NoKey
  /\ \A c \in InFlight : c.pc = "create" => c.s.key = NoKey

OneUse == Retries \/ Releases \/ \E t \in Tenants, id \in ShipmentIds : OneShipment(t, id)

-----------------------------------------------------------------------------
(* What the documentation and the tests say and the code does not keep.    *)

(* README: a coordinator assigns a shipment to a flight leg before the     *)
(* ground team confirms departure.  TransitionShipment lets a ground agent *)
(* take a draft that no leg was ever assigned to all the way to departed.  *)
DepartedHasFlight ==
  \A id \in ShipmentIds :
    shipments[id] # NoRow /\ shipments[id].status = "departed"
      => shipments[id].leg # NoLeg

(* The domain tests: a released customs case is final.  PutCustoms checks  *)
(* the case it read, and writes it without looking again.                  *)
CustomsReleasedFinal ==
  [][\A id \in ShipmentIds : customs[id] = "released" => customs'[id] = "released"]_vars
=============================================================================
