----------------------------- MODULE MemoryStore -----------------------------
(***************************************************************************)
(* The cargo operations of package repository/memory, the store the tests  *)
(* use in place of Postgres, on maps of its own.  Every operation runs     *)
(* under the store's mutex, so it is one step.  An operation has an Err    *)
(* operator giving the error it returns, and an effect for a nil error.    *)
(*                                                                         *)
(* The index idem is keyed by tenant and idempotency key.  A customs case  *)
(* or security check is stored under its own identifier and looked up by   *)
(* that of the shipment: a case stored under an identifier that is no      *)
(* shipment's is never found, one stored under another shipment's is found *)
(* as the case of that shipment, and the maps here hold what a lookup      *)
(* finds.                                                                  *)
(***************************************************************************)
EXTENDS PostgresStore

VARIABLES memShipments, memIdem, memLegs, memCustoms, memSecurity

memVars == <<memShipments, memIdem, memLegs, memCustoms, memSecurity>>

MemInit ==
  /\ memShipments = [id \in ShipmentIds |-> NoRow]
  /\ memIdem      = [tk \in Tenants \X Keys |-> NoRow]
  /\ memLegs      = [id \in LegIds |-> NoRow]
  /\ memCustoms   = [id \in ShipmentIds |-> NoRow]
  /\ memSecurity  = [id \in ShipmentIds |-> NoRow]

-----------------------------------------------------------------------------
MemGetShipment(tenant, id) ==
  IF memShipments[id] # NoRow /\ memShipments[id].tenant = tenant
  THEN memShipments[id] ELSE NoRow

MemGetLeg(tenant, id) ==
  IF memLegs[id] # NoRow /\ memLegs[id].tenant = tenant THEN memLegs[id] ELSE NoRow

MemFindByIdempotency(tenant, key) ==
  IF memIdem[<<tenant, key>>] = NoRow THEN {} ELSE {memIdem[<<tenant, key>>]}

MemGetCustoms(id)  == memCustoms[id]
MemGetSecurity(id) == memSecurity[id]

-----------------------------------------------------------------------------
(* The key is looked for before the identifier; a second create with the   *)
(* same key and the same identifier is answered as if it had worked.       *)
MemKeyTaken(id, s) == s.key # NoKey /\ memIdem[<<s.tenant, s.key>>] # NoRow

MemCreateShipmentErr(id, s) ==
  IF MemKeyTaken(id, s)
  THEN IF memIdem[<<s.tenant, s.key>>] = id THEN "nil" ELSE "ErrConflict"
  ELSE IF memShipments[id] # NoRow THEN "ErrConflict" ELSE "nil"

MemCreateShipment(id, s) ==
  IF MemCreateShipmentErr(id, s) = "nil" /\ ~MemKeyTaken(id, s)
  THEN /\ memShipments' = [memShipments EXCEPT ![id] = s]
       /\ memIdem' = IF s.key = NoKey THEN memIdem
                     ELSE [memIdem EXCEPT ![<<s.tenant, s.key>>] = id]
  ELSE UNCHANGED <<memShipments, memIdem>>

(* Neither the tenant nor the leg is looked at, and the whole row is       *)
(* replaced, tenant and key included.                                      *)
MemUpdateShipmentErr(id, s, version) ==
  IF memShipments[id] = NoRow THEN "ErrNotFound"
  ELSE IF memShipments[id].version # version THEN "ErrConflict" ELSE "nil"

MemUpdateShipment(id, s, version) ==
  memShipments' = IF MemUpdateShipmentErr(id, s, version) = "nil"
                  THEN [memShipments EXCEPT ![id] = [s EXCEPT !.version = version + 1]]
                  ELSE memShipments

MemCreateLegErr(id, l) == IF memLegs[id] # NoRow THEN "ErrConflict" ELSE "nil"

MemCreateLeg(id, l) ==
  memLegs' = IF MemCreateLegErr(id, l) = "nil" THEN [memLegs EXCEPT ![id] = l] ELSE memLegs

MemReserveCapacityErr(tenant, id, weight, version) ==
  LET l == MemGetLeg(tenant, id) IN
  IF l = NoRow THEN "ErrNotFound"
  ELSE IF l.version # version THEN "ErrConflict"
  ELSE IF ~ValidateCapacity(l, weight) THEN "ErrCapacity" ELSE "nil"

MemReservedLeg(l, weight) ==
  [l EXCEPT !.reserved = AddInt64(l.reserved, weight), !.version = l.version + 1]

MemReserveCapacity(tenant, id, weight, version) ==
  memLegs' = IF MemReserveCapacityErr(tenant, id, weight, version) = "nil"
             THEN [memLegs EXCEPT ![id] = MemReservedLeg(@, weight)]
             ELSE memLegs

(* The memory store asks LegStatus.CanTransition.                          *)
MemUpdateLegStatusErr(tenant, id, status, version) ==
  LET l == MemGetLeg(tenant, id) IN
  IF l = NoRow THEN "ErrNotFound"
  ELSE IF l.version # version THEN "ErrConflict"
  ELSE IF ~LegCanTransition(l.status, status) THEN "ErrState" ELSE "nil"

MemUpdateLegStatus(tenant, id, status, version) ==
  memLegs' = IF MemUpdateLegStatusErr(tenant, id, status, version) = "nil"
             THEN [memLegs EXCEPT ![id] = [memLegs[id] EXCEPT !.status = status, !.version = memLegs[id].version + 1]]
             ELSE memLegs

MemBookShipmentErr(tenant, id, leg, shipmentVersion, legVersion) ==
  LET s == MemGetShipment(tenant, id)
      l == MemGetLeg(tenant, leg)
  IN IF s = NoRow \/ l = NoRow THEN "ErrNotFound"
     ELSE IF s.version # shipmentVersion \/ l.version # legVersion THEN "ErrConflict"
     ELSE IF ~ShipmentCanTransition(s.status, "booked") \/ l.status # "open" THEN "ErrState"
     ELSE IF s.route # l.route THEN "ErrInvalid"
     ELSE IF ~ValidateCapacity(l, s.weight) THEN "ErrCapacity" ELSE "nil"

MemBookedShipment(s, leg) ==
  [s EXCEPT !.status = "booked", !.leg = leg, !.version = s.version + 1]

MemBookShipment(tenant, id, leg, shipmentVersion, legVersion) ==
  IF MemBookShipmentErr(tenant, id, leg, shipmentVersion, legVersion) = "nil"
  THEN /\ memLegs' = [memLegs EXCEPT ![leg] = MemReservedLeg(@, memShipments[id].weight)]
       /\ memShipments' = [memShipments EXCEPT ![id] = MemBookedShipment(@, leg)]
  ELSE UNCHANGED <<memLegs, memShipments>>

MemPutCustoms(caseId, status) ==
  memCustoms' = IF caseId \in ShipmentIds THEN [memCustoms EXCEPT ![caseId] = status]
                ELSE memCustoms

MemPutSecurity(checkId, status) ==
  memSecurity' = IF checkId \in ShipmentIds THEN [memSecurity EXCEPT ![checkId] = status]
                 ELSE memSecurity
=============================================================================
