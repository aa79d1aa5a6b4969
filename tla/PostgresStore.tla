---------------------------- MODULE PostgresStore ----------------------------
(***************************************************************************)
(* The shipment, flight-leg, customs and security tables and the           *)
(* operations of package repository/postgres on them.  Each operation is   *)
(* one SQL statement, or one transaction that locks the rows it reads, so  *)
(* it is one atomic step.  An operation that returns an error has an Err   *)
(* operator giving the error; its effect is enabled when that is "nil".    *)
(*                                                                         *)
(* A table is a function from identifiers to rows, NoRow where there is no *)
(* row: no operation deletes one.  Columns no rule reads (reference,       *)
(* pieces, notes, timestamps but a leg's departure) are left out.  Tenants *)
(* are the rows of the tenants table: the tenant of a row comes from the   *)
(* user, whose row refers to one, so tenant_id always finds its tenant.    *)
(***************************************************************************)
EXTENDS Domain

CONSTANTS Tenants, ShipmentIds, LegIds,
          Routes,             \* pairs <<origin, destination>>
          Flights,            \* flight number and departure of a leg
          Keys,               \* idempotency keys, the empty one excluded
          CustomsInputs,      \* the status texts clients write: the column
          SecurityInputs,     \*   has no CHECK, so any text is accepted
          NoRow, NoLeg, NoKey \* no row, a NULL leg_id, the empty key

VARIABLES shipments, legs, customs, security

storeVars == <<shipments, legs, customs, security>>

ShipmentRow ==
  [tenant : Tenants, route : Routes, weight : Nat, status : ShipmentStatus,
   leg : LegIds \cup {NoLeg}, key : Keys \cup {NoKey}, version : Nat]

LegRow ==
  [tenant : Tenants, flight : Flights, route : Routes, capacity : Nat,
   reserved : Nat, status : LegStatus, version : Nat]

ASSUME NoValuesAssumption ==
  /\ NoRow \notin ShipmentRow \cup LegRow \cup CustomsInputs \cup SecurityInputs
  /\ NoLeg \notin LegIds
  /\ NoKey \notin Keys

StoreTypeOK ==
  /\ shipments \in [ShipmentIds -> ShipmentRow \cup {NoRow}]
  /\ legs      \in [LegIds -> LegRow \cup {NoRow}]
  /\ customs   \in [ShipmentIds -> CustomsInputs \cup {NoRow}]
  /\ security  \in [ShipmentIds -> SecurityInputs \cup {NoRow}]

StoreInit ==
  /\ shipments = [id \in ShipmentIds |-> NoRow]
  /\ legs      = [id \in LegIds |-> NoRow]
  /\ customs   = [id \in ShipmentIds |-> NoRow]
  /\ security  = [id \in ShipmentIds |-> NoRow]

-----------------------------------------------------------------------------
(* Reads.  NoRow stands for domain.ErrNotFound.                            *)

GetShipment_AnyTenant(tenant, id) == shipments[id]
GetShipment(tenant, id) ==
  IF shipments[id] # NoRow /\ shipments[id].tenant = tenant
  THEN shipments[id] ELSE NoRow

GetLeg(tenant, id) ==
  IF legs[id] # NoRow /\ legs[id].tenant = tenant THEN legs[id] ELSE NoRow

(* The identifiers of the rows with this key: at most one, by the UNIQUE   *)
(* constraint on (tenant_id, idempotency_key).                             *)
FindByIdempotency(tenant, key) ==
  {id \in ShipmentIds : /\ shipments[id] # NoRow
                        /\ shipments[id].tenant = tenant
                        /\ shipments[id].key = key}

GetCustoms(id)  == customs[id]
GetSecurity(id) == security[id]

-----------------------------------------------------------------------------
(* Writes.                                                                 *)

(* The key column is written with the Go string, so a request without an   *)
(* idempotency key stores '' and not NULL: the UNIQUE constraint applies   *)
(* to it like to any other key.                                            *)
DuplicateShipment_ById(id, s) == shipments[id] # NoRow
DuplicateShipment(id, s) ==
  shipments[id] # NoRow \/ FindByIdempotency(s.tenant, s.key) # {}

CreateShipmentErr(id, s) ==
  IF DuplicateShipment(id, s) THEN "ErrConflict"
  ELSE IF s.leg # NoLeg /\ legs[s.leg] = NoRow THEN "foreign key violation"
  ELSE "nil"

StoreCreateShipment(id, s) ==
  /\ CreateShipmentErr(id, s) = "nil"
  /\ shipments' = [shipments EXCEPT ![id] = s]

UpdateMatches_AnyVersion(id, s, version) ==
  shipments[id] # NoRow /\ shipments[id].tenant = s.tenant
UpdateMatches(id, s, version) ==
  /\ shipments[id] # NoRow
  /\ shipments[id].tenant = s.tenant
  /\ shipments[id].version = version

UpdateShipmentErr(id, s, version) ==
  IF ~UpdateMatches(id, s, version) THEN "ErrConflict"
  ELSE IF s.leg # NoLeg /\ legs[s.leg] = NoRow THEN "foreign key violation"
  ELSE "nil"

(* Every column but the tenant and the key is overwritten with the         *)
(* caller's copy of the row.                                               *)
StoreUpdateShipment(id, s, version) ==
  /\ UpdateShipmentErr(id, s, version) = "nil"
  /\ shipments' = [shipments EXCEPT
       ![id] = [s EXCEPT !.key = shipments[id].key,
                         !.version = shipments[id].version + 1]]

(* The primary key, and UNIQUE(tenant_id, flight_number, departure_at).    *)
DuplicateLeg(id, l) ==
  \/ legs[id] # NoRow
  \/ \E o \in LegIds : /\ legs[o] # NoRow
                       /\ legs[o].tenant = l.tenant
                       /\ legs[o].flight = l.flight

(* The CHECKs of the table, which come before its keys, bound reserved_kg  *)
(* from below only.                                                        *)
CreateLegErr(id, l) ==
  IF l.capacity <= 0 \/ l.reserved < 0 THEN "check violation"
  ELSE IF DuplicateLeg(id, l) THEN "duplicate key" ELSE "nil"

StoreCreateLeg(id, l) ==
  /\ CreateLegErr(id, l) = "nil"
  /\ legs' = [legs EXCEPT ![id] = l]

(* One UPDATE with every condition in its WHERE: whatever is wrong is a    *)
(* conflict, a weight that is not positive is let through, and only the    *)
(* CHECK on reserved_kg and the range of bigint stop it.                   *)
ReserveCapacityErr(tenant, id, weight, version) ==
  LET l == GetLeg(tenant, id) IN
  IF l = NoRow \/ l.version # version THEN "ErrConflict"
  ELSE IF l.reserved + weight > MaxInt64 THEN "bigint out of range"
  ELSE IF l.reserved + weight > l.capacity THEN "ErrConflict"
  ELSE IF l.reserved + weight < 0 THEN "check violation"
  ELSE "nil"

ReservedLeg(l, weight) == [l EXCEPT !.reserved = l.reserved + weight, !.version = l.version + 1]

StoreReserveCapacity(tenant, id, weight, version) ==
  /\ ReserveCapacityErr(tenant, id, weight, version) = "nil"
  /\ legs' = [legs EXCEPT ![id] = ReservedLeg(@, weight)]

OpenedLeg_KeepVersion(l, status) == [l EXCEPT !.status = status]
OpenedLeg(l, status) == [l EXCEPT !.status = status, !.version = l.version + 1]

(* No CanTransition check: any status may follow any other.                *)
UpdateLegStatusErr(tenant, id, version) ==
  IF GetLeg(tenant, id) # NoRow /\ legs[id].version = version
  THEN "nil" ELSE "ErrConflict"

StoreUpdateLegStatus(tenant, id, status, version) ==
  /\ UpdateLegStatusErr(tenant, id, version) = "nil"
  /\ legs' = [legs EXCEPT ![id] = OpenedLeg(legs[id], status)]

(* The checks of BookShipment's transaction, on the locked rows.           *)
BookShipmentErr_NoRecheck(tenant, id, leg, shipmentVersion, legVersion) ==
  LET s == GetShipment(tenant, id)
      l == GetLeg(tenant, leg)
  IN IF s = NoRow \/ l = NoRow THEN "ErrNotFound"
     ELSE IF ~ValidateCapacity(l, s.weight) THEN "ErrCapacity"
     ELSE IF l.reserved + s.weight > MaxInt64 THEN "bigint out of range"
     ELSE "nil"
BookShipmentErr(tenant, id, leg, shipmentVersion, legVersion) ==
  LET s == GetShipment(tenant, id)
      l == GetLeg(tenant, leg)
  IN IF s = NoRow \/ l = NoRow THEN "ErrNotFound"
     ELSE IF s.version # shipmentVersion \/ l.version # legVersion THEN "ErrConflict"
     ELSE IF ~ShipmentCanTransition(s.status, "booked") \/ l.status # "open" THEN "ErrState"
     ELSE IF s.route # l.route THEN "ErrInvalid"
     ELSE IF ~ValidateCapacity(l, s.weight) THEN "ErrCapacity"
     ELSE IF l.reserved + s.weight > MaxInt64 THEN "bigint out of range"
     ELSE "nil"

BookedShipment(s, leg) ==
  [s EXCEPT !.status = "booked", !.leg = leg, !.version = s.version + 1]

StoreBookShipment_Wraps(tenant, id, leg, shipmentVersion, legVersion) ==
  /\ BookShipmentErr(tenant, id, leg, shipmentVersion, legVersion)
       \in {"nil", "bigint out of range"}
  /\ legs' = [legs EXCEPT ![leg] = [ReservedLeg(@, shipments[id].weight) EXCEPT
                                      !.reserved = AddInt64(legs[leg].reserved, shipments[id].weight)]]
  /\ shipments' = [shipments EXCEPT ![id] = BookedShipment(@, leg)]
StoreBookShipment(tenant, id, leg, shipmentVersion, legVersion) ==
  /\ BookShipmentErr(tenant, id, leg, shipmentVersion, legVersion) = "nil"
  /\ legs' = [legs EXCEPT ![leg] = ReservedLeg(@, shipments[id].weight)]
  /\ shipments' = [shipments EXCEPT ![id] = BookedShipment(@, leg)]

(* The constraints of customs_cases and security_checks, for a table and   *)
(* the identifiers its rows were inserted with.  The identifier of a case  *)
(* is a primary key and may come from the client; if it does not, it is a  *)
(* random one, NoRow here, which no other row has.  A put for a shipment   *)
(* that has a row updates that row and drops the identifier.  The shipment *)
(* must exist, and so must the reviewer or officer if one is named.        *)
PutErr(table, rowIds, id, caseId, reviewerExists) ==
  IF table[id] = NoRow /\ caseId # NoRow /\ \E o \in ShipmentIds : rowIds[o] = caseId
  THEN "duplicate key"
  ELSE IF shipments[id] = NoRow \/ ~reviewerExists THEN "foreign key violation" ELSE "nil"

(* Inserted or, on a conflict of the shipment, overwritten.                *)
StorePutCustoms(id, status)  == customs' = [customs EXCEPT ![id] = status]
StorePutSecurity(id, status) == security' = [security EXCEPT ![id] = status]
=============================================================================
