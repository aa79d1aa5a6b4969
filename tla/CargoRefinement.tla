--------------------------- MODULE CargoRefinement ---------------------------
(***************************************************************************)
(* Cargo implements AtomicCargo: a row stands for itself without its key,  *)
(* flight and version, the handlers in flight for nothing.                 *)
(***************************************************************************)
EXTENDS Cargo

Parcel(s) ==
  IF s = NoRow THEN NoRow
  ELSE [tenant |-> s.tenant, route |-> s.route, weight |-> s.weight,
        status |-> s.status, leg |-> s.leg]

Flight(l) ==
  IF l = NoRow THEN NoRow
  ELSE [tenant |-> l.tenant, route |-> l.route, capacity |-> l.capacity,
        reserved |-> l.reserved, status |-> l.status]

(* No row stands for no parcel and no flight.                              *)
ASSUME RefinementAssumption ==
  /\ NoRow \notin [tenant : Tenants, route : Routes, weight : Nat,
                  status : ShipmentStatus, leg : LegIds \cup {NoLeg}]
  /\ NoRow \notin [tenant : Tenants, route : Routes, capacity : Nat, reserved : Nat,
                  status : LegStatus]

Atomic == INSTANCE AtomicCargo WITH
  parcels <- [id \in ShipmentIds |-> Parcel(shipments[id])],
  flights <- [id \in LegIds |-> Flight(legs[id])]

(* The handlers hold no lock between their reads and their writes, and     *)
(* TransitionShipment writes the whole row it once read; still every write *)
(* takes effect as if its handler had run at once at that moment: a        *)
(* booking finds a draft and an open leg with room, a transition is a      *)
(* legal move of the status the shipment then has and keeps everything     *)
(* else, and no kilogram is added that a booking did not add.              *)
ImplementsAtomic == Atomic!AtomicSpec
=============================================================================
