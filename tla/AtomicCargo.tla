----------------------------- MODULE AtomicCargo -----------------------------
(***************************************************************************)
(* What the cargo handlers promise their clients: each operation happens   *)
(* at once, on the shipments and legs as they are at that moment.  There   *)
(* are no requests in flight, no versions and no wrapping sums here.       *)
(***************************************************************************)
EXTENDS Domain

CONSTANTS Tenants, ShipmentIds, LegIds, Routes, Weights, Capacities, Reserves,
          NoRow, NoLeg

VARIABLES parcels,   \* id -> [tenant, route, weight, status, leg] or NoRow
          flights    \* id -> [tenant, route, capacity, reserved, status] or NoRow

atomicVars == <<parcels, flights>>

NewParcels ==
  [tenant : Tenants, route : Routes, weight : Weights, status : {"draft"},
   leg : LegIds \cup {NoLeg}]
NewFlights ==
  [tenant : Tenants, route : Routes, capacity : Capacities, reserved : Reserves,
   status : {"planned"}]

AtomicInit ==
  parcels = [id \in ShipmentIds |-> NoRow] /\ flights = [id \in LegIds |-> NoRow]

AtomicCreate(id, p) ==
  /\ parcels[id] = NoRow /\ p.weight > 0 /\ p.route[1] # p.route[2]
  /\ p.leg # NoLeg => flights[p.leg] # NoRow
  /\ parcels' = [parcels EXCEPT ![id] = p]
  /\ UNCHANGED flights

AtomicCreateLeg(id, f) ==
  /\ flights[id] = NoRow /\ f.capacity > 0 /\ f.reserved >= 0
  /\ flights' = [flights EXCEPT ![id] = f]
  /\ UNCHANGED parcels

AtomicOpen(id) ==
  /\ flights[id] # NoRow
  /\ flights' = [flights EXCEPT ![id].status = "open"]
  /\ UNCHANGED parcels

(* The shipment is a draft, the leg is open, the shipment fits and belongs *)
(* there: all at the moment of the booking.                                *)
AtomicBook(id, leg) ==
  LET p == parcels[id]
      f == flights[leg]
  IN
  /\ p # NoRow /\ f # NoRow
  /\ p.tenant = f.tenant /\ p.route = f.route
  /\ p.status = "draft" /\ f.status = "open"
  /\ f.reserved + p.weight <= f.capacity
  /\ parcels' = [parcels EXCEPT ![id] = [p EXCEPT !.status = "booked", !.leg = leg]]
  /\ flights' = [flights EXCEPT ![leg].reserved = @ + p.weight]

(* One legal move of the status; nothing else of the shipment changes.     *)
AtomicMove(id, next) ==
  /\ parcels[id] # NoRow /\ ShipmentCanTransition(parcels[id].status, next)
  /\ parcels' = [parcels EXCEPT ![id].status = next]
  /\ UNCHANGED flights

AtomicNext ==
  \/ \E id \in ShipmentIds :
       \/ \E p \in NewParcels : AtomicCreate(id, p)
       \/ \E leg \in LegIds : AtomicBook(id, leg)
       \/ \E next \in ShipmentStatus : AtomicMove(id, next)
  \/ \E id \in LegIds : AtomicOpen(id) \/ \E f \in NewFlights : AtomicCreateLeg(id, f)

AtomicSpec == AtomicInit /\ [][AtomicNext]_atomicVars
=============================================================================
