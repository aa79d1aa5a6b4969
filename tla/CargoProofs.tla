----------------------------- MODULE CargoProofs -----------------------------
(***************************************************************************)
(* Proofs about Cargo, for every set of tenants, users, requests,          *)
(* shipments and legs and every value of the bounds: types, versions,      *)
(* bookings and capacity; then clearance, keys and tenants; that Cargo     *)
(* implements AtomicCargo; and the reservation accounting.                 *)
(***************************************************************************)
EXTENDS CargoRefinement, SetLemmas, TLAPS

(* Where a handler is determines which locals it holds.                    *)
LEMMA CallKinds ==
  ASSUME NEW c \in Call
  PROVE  /\ c.pc = "create" => c \in CreateCall
         /\ c.pc = "book.leg" => c \in BookLegCall
         /\ c.pc = "book.commit" => c \in BookCall
         /\ c.pc \in {"move.customs", "move.security", "move.commit"} => c \in MoveCall
         /\ c.pc = "open" => c \in OpenCall
         /\ c.pc \in {"customs.read", "customs.put"} => c \in CustomsCall
         /\ c.pc = "security.put" => c \in SecurityCall
BY DEF Call, Idle, CreateCall, BookLegCall, BookCall, MoveCall, OpenCall,
       CustomsCall, SecurityCall

LEMMA IdleIsCall == Idle \in Call
BY DEF Call

(* A row a read returns is a row of the table.                             *)
LEMMA ShipmentRead ==
  ASSUME StoreTypeOK, NEW tenant, NEW id \in ShipmentIds,
         GetShipment(tenant, id) # NoRow
  PROVE  /\ GetShipment(tenant, id) = shipments[id]
         /\ shipments[id] \in ShipmentRow
         /\ shipments[id].tenant = tenant
BY DEF StoreTypeOK, GetShipment

LEMMA LegRead ==
  ASSUME StoreTypeOK, NEW tenant, NEW leg \in LegIds, GetLeg(tenant, leg) # NoRow
  PROVE  /\ GetLeg(tenant, leg) = legs[leg]
         /\ legs[leg] \in LegRow
         /\ legs[leg].tenant = tenant
BY DEF StoreTypeOK, GetLeg

(* What UpdateShipment writes is a row, with the columns asked for.        *)
LEMMA UpdatedRow ==
  ASSUME NEW s \in ShipmentRow, NEW old \in ShipmentRow
  PROVE  LET w == [s EXCEPT !.key = old.key, !.version = old.version + 1] IN
         /\ w \in ShipmentRow
         /\ w.version = old.version + 1 /\ w.key = old.key /\ w.tenant = s.tenant
         /\ w.route = s.route /\ w.weight = s.weight /\ w.status = s.status
         /\ w.leg = s.leg
<1>1. PICK key \in Keys \cup {NoKey} : key = old.key
  BY DEF ShipmentRow
<1>2. PICK version \in Nat : version = old.version + 1
  BY DEF ShipmentRow
<1> DEFINE w == [s EXCEPT !.key = key, !.version = version]
<1>3. /\ w \in ShipmentRow
      /\ w.version = version /\ w.key = key /\ w.tenant = s.tenant
      /\ w.route = s.route /\ w.weight = s.weight /\ w.status = s.status
      /\ w.leg = s.leg
  BY DEF ShipmentRow
<1> QED BY <1>1, <1>2, <1>3

(* What UpdateLegStatus writes is a row.                                   *)
LEMMA OpenedRow ==
  ASSUME NEW l \in LegRow
  PROVE  LET o == OpenedLeg(l, "open") IN
         /\ o \in LegRow
         /\ o.version = l.version + 1 /\ o.tenant = l.tenant /\ o.route = l.route
         /\ o.capacity = l.capacity /\ o.reserved = l.reserved /\ o.status = "open"
<1>1. ASSUME NEW status \in LegStatus, NEW version \in Nat
      PROVE  LET o == [l EXCEPT !.status = status, !.version = version] IN
             /\ o \in LegRow
             /\ o.version = version /\ o.tenant = l.tenant /\ o.route = l.route
             /\ o.capacity = l.capacity /\ o.reserved = l.reserved /\ o.status = status
  BY DEF LegRow
<1>2. "open" \in LegStatus /\ l.version + 1 \in Nat
  BY DEF LegStatus, LegRow
<1> QED BY <1>1, <1>2 DEF OpenedLeg

(* What BookShipment writes are rows, with the columns it does not set.    *)
LEMMA BookedRow ==
  ASSUME NEW s \in ShipmentRow, NEW leg \in LegIds
  PROVE  LET w == BookedShipment(s, leg) IN
         /\ w \in ShipmentRow
         /\ w.status = "booked" /\ w.leg = leg /\ w.version = s.version + 1
         /\ w.tenant = s.tenant /\ w.route = s.route /\ w.weight = s.weight /\ w.key = s.key
<1>1. ASSUME NEW status \in ShipmentStatus, NEW version \in Nat
      PROVE  LET w == [s EXCEPT !.status = status, !.leg = leg, !.version = version] IN
             /\ w \in ShipmentRow
             /\ w.status = status /\ w.leg = leg /\ w.version = version
             /\ w.tenant = s.tenant /\ w.route = s.route /\ w.weight = s.weight /\ w.key = s.key
  BY DEF ShipmentRow
<1>2. "booked" \in ShipmentStatus /\ s.version + 1 \in Nat
  BY DEF ShipmentStatus, ShipmentRow
<1> QED BY <1>1, <1>2 DEF BookedShipment

LEMMA ReservedRow ==
  ASSUME NEW l \in LegRow, NEW weight \in Nat
  PROVE  LET w == ReservedLeg(l, weight) IN
         /\ w \in LegRow
         /\ w.reserved = l.reserved + weight /\ w.version = l.version + 1
         /\ w.tenant = l.tenant /\ w.route = l.route /\ w.capacity = l.capacity
         /\ w.status = l.status
<1>1. ASSUME NEW reserved \in Nat, NEW version \in Nat
      PROVE  LET w == [l EXCEPT !.reserved = reserved, !.version = version] IN
             /\ w \in LegRow
             /\ w.reserved = reserved /\ w.version = version
             /\ w.tenant = l.tenant /\ w.route = l.route /\ w.capacity = l.capacity
             /\ w.status = l.status
  BY DEF LegRow
<1>2. l.reserved + weight \in Nat /\ l.version + 1 \in Nat
  BY DEF LegRow
<1> QED BY <1>1, <1>2 DEF ReservedLeg

-----------------------------------------------------------------------------
(* What CreateLeg inserts is a row with a new identifier.                  *)
LEMMA LegCreated ==
  ASSUME NEW r \in Requests, CreateLeg(r)
  PROVE  \E id \in LegIds, l \in LegRow :
           /\ l.capacity \in Capacities /\ l.capacity > 0
           /\ l.reserved \in Reserves /\ l.reserved >= 0
           /\ l.status = "planned"
           /\ legs[id] = NoRow /\ legs' = [legs EXCEPT ![id] = l]
<1>1. PICK u \in Users, id \in LegIds, flight \in Flights, route \in Routes,
           capacity \in Capacities, reserved \in Reserves :
        StoreCreateLeg(id, [tenant |-> u.tenant, flight |-> flight, route |-> route,
                            capacity |-> capacity, reserved |-> reserved,
                            status |-> "planned", version |-> 1])
  BY DEF CreateLeg
<1> DEFINE l == [tenant |-> u.tenant, flight |-> flight, route |-> route,
                 capacity |-> capacity, reserved |-> reserved,
                 status |-> "planned", version |-> 1]
<1>2. /\ u.tenant \in Tenants /\ capacity \in Nat /\ reserved \in Int
      /\ l.capacity = capacity /\ l.reserved = reserved /\ l.status = "planned"
  BY CargoAssumption
<1>3. CreateLegErr(id, l) = "nil" /\ legs' = [legs EXCEPT ![id] = l]
  BY <1>1 DEF StoreCreateLeg
<1>4. capacity > 0 /\ reserved >= 0 /\ legs[id] = NoRow
  BY <1>2, <1>3 DEF CreateLegErr, DuplicateLeg
<1>5. l \in LegRow
  BY <1>2, <1>4 DEF LegRow, LegStatus
<1> HIDE DEF l
<1> QED BY <1>2, <1>3, <1>4, <1>5

(* Type correctness: every row, every handler's locals and every history   *)
(* variable stay in their sets under all interleavings of the handlers.    *)
LEMMA TypeOKStep == TypeOK /\ [Next]_vars => TypeOK'
<1> SUFFICES ASSUME TypeOK, [Next]_vars PROVE TypeOK'
  OBVIOUS
<1> USE CargoAssumption, NoValuesAssumption
<1>0. CASE UNCHANGED vars
  BY <1>0 DEF TypeOK, StoreTypeOK, vars, storeVars, historyVars
<1>a. \A r \in Requests : call[r] \in Call
  BY DEF TypeOK
<1>1. ASSUME NEW r \in Requests, CreateFind(r) PROVE TypeOK'
  <2>1. PICK u \in Users, id \in ShipmentIds, route \in Routes, weight \in Weights,
             leg \in LegIds \cup {NoLeg}, key \in Keys \cup {NoKey} :
          LET old == FindByIdempotency(u.tenant, key) IN
          /\ At(r, "idle")
          /\ u.role \in {"shipper", "coordinator"}
          /\ ValidateShipment(route, weight)
          /\ \/ /\ key # NoKey /\ old # {}
                /\ acks' = acks \cup {<<u.tenant, key, o>> : o \in old}
                /\ UNCHANGED call
             \/ /\ key = NoKey \/ old = {}
                /\ Goto(r, [pc |-> "create", user |-> u, id |-> id,
                            s |-> NewShipment(u.tenant, route, weight, leg, key)])
                /\ UNCHANGED acks
          /\ UNCHANGED <<storeVars, bookedOn, checks>>
    BY <1>1, Zenon DEF CreateFind
  <2>2. NewShipment(u.tenant, route, weight, leg, key) \in ShipmentRow
    BY DEF NewShipment, ShipmentRow, ShipmentStatus
  <2>3. [pc |-> "create", user |-> u, id |-> id,
         s |-> NewShipment(u.tenant, route, weight, leg, key)] \in Call
    BY <2>2 DEF Call, CreateCall
  <2>4. call' \in [Requests -> Call]
    BY <2>1, <2>3 DEF TypeOK, Goto
  <2>5. FindByIdempotency(u.tenant, key) \subseteq ShipmentIds
    BY DEF FindByIdempotency
  <2>6. acks' \subseteq Tenants \X Keys \X ShipmentIds
    BY <2>1, <2>5 DEF TypeOK
  <2> QED BY <2>1, <2>4, <2>6 DEF TypeOK, StoreTypeOK, storeVars
<1>2. ASSUME NEW r \in Requests, CreateInsert(r) PROVE TypeOK'
  <2>1. call[r] \in CreateCall
    BY <1>a, <1>2, CallKinds DEF CreateInsert, At
  <2>2. call' \in [Requests -> Call]
    BY <1>2, IdleIsCall DEF CreateInsert, Return, Goto, TypeOK
  <2>3. shipments' \in [ShipmentIds -> ShipmentRow \cup {NoRow}]
    BY <1>2, <2>1 DEF CreateInsert, StoreCreateShipment, CreateCall, TypeOK, StoreTypeOK
  <2>4. acks' \subseteq Tenants \X Keys \X ShipmentIds
    BY <1>2, <2>1 DEF CreateInsert, CreateCall, ShipmentRow, TypeOK
  <2> QED BY <1>2, <2>2, <2>3, <2>4 DEF CreateInsert, TypeOK, StoreTypeOK
<1>3. ASSUME NEW r \in Requests, BookReadShipment(r) PROVE TypeOK'
  <2>1. PICK u \in Users, id \in ShipmentIds, leg \in LegIds :
          /\ GetShipment(u.tenant, id) # NoRow
          /\ Goto(r, [pc |-> "book.leg", user |-> u, id |-> id, leg |-> leg,
                      s |-> GetShipment(u.tenant, id)])
    BY <1>3 DEF BookReadShipment
  <2>2. GetShipment(u.tenant, id) \in ShipmentRow
    BY <2>1, ShipmentRead DEF TypeOK
  <2>3. [pc |-> "book.leg", user |-> u, id |-> id, leg |-> leg,
         s |-> GetShipment(u.tenant, id)] \in Call
    BY <2>2 DEF Call, BookLegCall
  <2>4. call' \in [Requests -> Call]
    BY <2>1, <2>3 DEF TypeOK, Goto
  <2> QED BY <1>3, <2>4 DEF BookReadShipment, TypeOK, StoreTypeOK, storeVars, historyVars
<1>4. ASSUME NEW r \in Requests, BookReadLeg(r) PROVE TypeOK'
  <2>1. call[r] \in BookLegCall
    BY <1>a, <1>4, CallKinds DEF BookReadLeg, At
  <2> DEFINE c == call[r]
             l == GetLeg(c.user.tenant, c.leg)
             n == [pc |-> "book.commit", user |-> c.user, id |-> c.id,
                   leg |-> c.leg, s |-> c.s, l |-> l]
  <2>2. l # NoRow => l \in LegRow
    BY <2>1 DEF GetLeg, BookLegCall, TypeOK, StoreTypeOK
  <2>3. l # NoRow => n \in Call
    BY <2>1, <2>2 DEF Call, BookCall, BookLegCall
  <2>4. \/ l # NoRow /\ Goto(r, n)
        \/ Return(r)
    BY <1>4 DEF BookReadLeg
  <2>5. call' \in [Requests -> Call]
    BY <2>3, <2>4, IdleIsCall DEF TypeOK, Goto, Return
  <2> QED BY <1>4, <2>5 DEF BookReadLeg, TypeOK, StoreTypeOK, storeVars, historyVars
<1>5. ASSUME NEW r \in Requests, BookCommit(r) PROVE TypeOK'
  <2>1. call[r] \in BookCall
    BY <1>a, <1>5, CallKinds DEF BookCommit, At
  <2>2. call' \in [Requests -> Call]
    BY <1>5, IdleIsCall DEF BookCommit, Return, Goto, TypeOK
  <2>3. CASE UNCHANGED <<shipments, legs, bookedOn>>
    BY <1>5, <2>2, <2>3 DEF BookCommit, TypeOK, StoreTypeOK
  <2>4. CASE /\ StoreBookShipment(call[r].user.tenant, call[r].id, call[r].leg,
                                  call[r].s.version, call[r].l.version)
             /\ bookedOn' = [bookedOn EXCEPT ![call[r].id] = call[r].leg]
    <3>1. shipments[call[r].id] \in ShipmentRow /\ legs[call[r].leg] \in LegRow
      BY <2>1, <2>4, ShipmentRead, LegRead DEF StoreBookShipment, BookShipmentErr, BookCall, TypeOK
    <3>a. /\ BookedShipment(shipments[call[r].id], call[r].leg) \in ShipmentRow
          /\ ReservedLeg(legs[call[r].leg], shipments[call[r].id].weight) \in LegRow
      BY <2>1, <3>1, BookedRow, ReservedRow DEF BookCall, ShipmentRow
    <3>2. shipments' \in [ShipmentIds -> ShipmentRow \cup {NoRow}]
      BY <2>1, <2>4, <3>a DEF StoreBookShipment, TypeOK, StoreTypeOK
    <3>3. legs' \in [LegIds -> LegRow \cup {NoRow}]
      BY <2>1, <2>4, <3>a DEF StoreBookShipment, TypeOK, StoreTypeOK
    <3>4. bookedOn' \in [ShipmentIds -> LegIds \cup {NoLeg}]
      BY <2>1, <2>4 DEF BookCall, TypeOK
    <3> QED BY <1>5, <2>2, <3>2, <3>3, <3>4 DEF BookCommit, TypeOK, StoreTypeOK
  <2> QED BY <1>5, <2>3, <2>4 DEF BookCommit
<1>6. ASSUME NEW r \in Requests, MoveReadShipment(r) PROVE TypeOK'
  <2>1. PICK u \in Users, id \in ShipmentIds, next \in MoveTargets :
          /\ GetShipment(u.tenant, id) # NoRow
          /\ ShipmentCanTransition(GetShipment(u.tenant, id).status, next)
          /\ Goto(r, [pc |-> IF NeedsClearance(GetShipment(u.tenant, id), next)
                             THEN "move.customs" ELSE "move.commit",
                      user |-> u, id |-> id, next |-> next,
                      s |-> GetShipment(u.tenant, id)])
    BY <1>6 DEF MoveReadShipment
  <2>2. GetShipment(u.tenant, id) \in ShipmentRow
    BY <2>1, ShipmentRead DEF TypeOK
  <2>3. next \in ShipmentStatus
    BY <2>1 DEF ShipmentCanTransition, ShipmentMoves, ShipmentStatus
  <2>4. [pc |-> IF NeedsClearance(GetShipment(u.tenant, id), next)
                THEN "move.customs" ELSE "move.commit",
         user |-> u, id |-> id, next |-> next, s |-> GetShipment(u.tenant, id)] \in Call
    BY <2>2, <2>3 DEF Call, MoveCall
  <2>5. call' \in [Requests -> Call]
    BY <2>1, <2>4 DEF TypeOK, Goto
  <2> QED BY <1>6, <2>5 DEF MoveReadShipment, TypeOK, StoreTypeOK, storeVars, historyVars
<1>7. ASSUME NEW r \in Requests, MoveReadCustoms(r) \/ MoveReadSecurity(r) PROVE TypeOK'
  <2>1. call[r] \in MoveCall
    BY <1>a, <1>7, CallKinds DEF MoveReadCustoms, MoveReadSecurity, At
  <2>2. Step(r, "move.security") \/ Step(r, "move.commit") \/ Return(r)
    BY <1>7 DEF MoveReadCustoms, MoveReadSecurity
  <2>3. /\ [call[r] EXCEPT !.pc = "move.security"] \in Call
        /\ [call[r] EXCEPT !.pc = "move.commit"] \in Call
    BY <2>1 DEF Call, MoveCall
  <2>4. call' \in [Requests -> Call]
    BY <2>2, <2>3, IdleIsCall DEF TypeOK, Step, Goto, Return
  <2> QED BY <1>7, <2>4 DEF MoveReadCustoms, MoveReadSecurity, TypeOK, StoreTypeOK,
                            storeVars, historyVars
<1>8. ASSUME NEW r \in Requests, MoveCommit(r) PROVE TypeOK'
  <2>1. call[r] \in MoveCall
    BY <1>a, <1>8, CallKinds DEF MoveCommit, At
  <2>2. call' \in [Requests -> Call]
    BY <1>8, IdleIsCall DEF MoveCommit, Return, Goto, TypeOK
  <2> DEFINE c == call[r]
             moved == [c.s EXCEPT !.status = c.next]
  <2>3. moved \in ShipmentRow
    BY <2>1 DEF MoveCall, ShipmentRow
  <2>4. StoreUpdateShipment(c.id, moved, c.s.version) =>
          shipments' \in [ShipmentIds -> ShipmentRow \cup {NoRow}]
    <3> SUFFICES ASSUME StoreUpdateShipment(c.id, moved, c.s.version)
                 PROVE  shipments' \in [ShipmentIds -> ShipmentRow \cup {NoRow}]
      OBVIOUS
    <3>1. shipments[c.id] \in ShipmentRow
      BY <2>1 DEF StoreUpdateShipment, UpdateShipmentErr, UpdateMatches, MoveCall,
                  TypeOK, StoreTypeOK
    <3> HIDE DEF moved
    <3>3. [moved EXCEPT !.key = shipments[c.id].key,
                        !.version = shipments[c.id].version + 1] \in ShipmentRow
      BY <2>3, <3>1, UpdatedRow
    <3> QED BY <3>3 DEF StoreUpdateShipment, TypeOK, StoreTypeOK
  <2>5. shipments' \in [ShipmentIds -> ShipmentRow \cup {NoRow}]
    BY <1>8, <2>4 DEF MoveCommit, TypeOK, StoreTypeOK
  <2> QED BY <1>8, <2>2, <2>5 DEF MoveCommit, TypeOK, StoreTypeOK, historyVars
<1>9. ASSUME NEW r \in Requests, CreateLeg(r) PROVE TypeOK'
  <2>3. legs' \in [LegIds -> LegRow \cup {NoRow}]
    BY <1>9, LegCreated DEF TypeOK, StoreTypeOK
  <2> QED BY <1>9, <2>3 DEF CreateLeg, TypeOK, StoreTypeOK, historyVars
<1>10. ASSUME NEW r \in Requests, OpenReadLeg(r) PROVE TypeOK'
  <2>1. PICK u \in Users, id \in LegIds :
          /\ GetLeg(u.tenant, id) # NoRow
          /\ Goto(r, [pc |-> "open", user |-> u, leg |-> id, l |-> legs[id]])
    BY <1>10 DEF OpenReadLeg
  <2>2. legs[id] \in LegRow
    BY <2>1 DEF GetLeg, TypeOK, StoreTypeOK
  <2>3. [pc |-> "open", user |-> u, leg |-> id, l |-> legs[id]] \in Call
    BY <2>2 DEF Call, OpenCall
  <2>4. call' \in [Requests -> Call]
    BY <2>1, <2>3 DEF TypeOK, Goto
  <2> QED BY <1>10, <2>4 DEF OpenReadLeg, TypeOK, StoreTypeOK, storeVars, historyVars
<1>11. ASSUME NEW r \in Requests, OpenCommit(r) PROVE TypeOK'
  <2>1. call[r] \in OpenCall
    BY <1>a, <1>11, CallKinds DEF OpenCommit, At
  <2>2. call' \in [Requests -> Call]
    BY <1>11, IdleIsCall DEF OpenCommit, Return, Goto, TypeOK
  <2>3. legs' \in [LegIds -> LegRow \cup {NoRow}]
    <3>1. CASE UNCHANGED legs
      BY <3>1 DEF TypeOK, StoreTypeOK
    <3>2. CASE StoreUpdateLegStatus(call[r].user.tenant, call[r].leg, "open", call[r].l.version)
      <4>1. legs[call[r].leg] \in LegRow
        BY <2>1, <3>2, LegRead DEF StoreUpdateLegStatus, UpdateLegStatusErr, OpenCall, TypeOK
      <4>2. OpenedLeg(legs[call[r].leg], "open") \in LegRow
        BY <4>1, OpenedRow
      <4> QED BY <3>2, <4>2 DEF StoreUpdateLegStatus, TypeOK, StoreTypeOK
    <3> QED BY <1>11, <3>1, <3>2 DEF OpenCommit
  <2> QED BY <1>11, <2>2, <2>3 DEF OpenCommit, TypeOK, StoreTypeOK, historyVars
<1>12. ASSUME NEW r \in Requests, CustomsReadShipment(r) PROVE TypeOK'
  <2>1. PICK u \in Users, id \in ShipmentIds, status \in CustomsInputs :
          Goto(r, [pc |-> "customs.read", user |-> u, id |-> id, status |-> status])
    BY <1>12 DEF CustomsReadShipment
  <2>2. [pc |-> "customs.read", user |-> u, id |-> id, status |-> status] \in Call
    BY DEF Call, CustomsCall
  <2>3. call' \in [Requests -> Call]
    BY <2>1, <2>2 DEF TypeOK, Goto
  <2> QED BY <1>12, <2>3 DEF CustomsReadShipment, TypeOK, StoreTypeOK, storeVars, historyVars
<1>13. ASSUME NEW r \in Requests, CustomsReadCase(r) PROVE TypeOK'
  <2>1. call[r] \in CustomsCall
    BY <1>a, <1>13, CallKinds DEF CustomsReadCase, At
  <2>2. [call[r] EXCEPT !.pc = "customs.put"] \in Call
    BY <2>1 DEF Call, CustomsCall
  <2>3. Step(r, "customs.put") \/ Return(r)
    BY <1>13 DEF CustomsReadCase
  <2>4. call' \in [Requests -> Call]
    BY <2>2, <2>3, IdleIsCall DEF TypeOK, Step, Goto, Return
  <2> QED BY <1>13, <2>4 DEF CustomsReadCase, TypeOK, StoreTypeOK, storeVars, historyVars
<1>14. ASSUME NEW r \in Requests, CustomsPut(r) PROVE TypeOK'
  <2>1. call[r] \in CustomsCall
    BY <1>a, <1>14, CallKinds DEF CustomsPut, At
  <2>2. call' \in [Requests -> Call]
    BY <1>14, IdleIsCall DEF CustomsPut, Return, Goto, TypeOK
  <2>3. customs' \in [ShipmentIds -> CustomsInputs \cup {NoRow}]
    BY <1>14, <2>1 DEF CustomsPut, StorePutCustoms, CustomsCall, TypeOK, StoreTypeOK
  <2>4. checks' \subseteq ShipmentIds \X {"customs", "security"}
    BY <1>14, <2>1 DEF CustomsPut, CustomsCall, TypeOK
  <2> QED BY <1>14, <2>2, <2>3, <2>4 DEF CustomsPut, TypeOK, StoreTypeOK
<1>15. ASSUME NEW r \in Requests, SecurityReadShipment(r) PROVE TypeOK'
  <2>1. PICK u \in Users, id \in ShipmentIds, status \in SecurityInputs :
          Goto(r, [pc |-> "security.put", user |-> u, id |-> id, status |-> status])
    BY <1>15 DEF SecurityReadShipment
  <2>2. [pc |-> "security.put", user |-> u, id |-> id, status |-> status] \in Call
    BY DEF Call, SecurityCall
  <2>3. call' \in [Requests -> Call]
    BY <2>1, <2>2 DEF TypeOK, Goto
  <2> QED BY <1>15, <2>3 DEF SecurityReadShipment, TypeOK, StoreTypeOK, storeVars, historyVars
<1>16. ASSUME NEW r \in Requests, SecurityPut(r) PROVE TypeOK'
  <2>1. call[r] \in SecurityCall
    BY <1>a, <1>16, CallKinds DEF SecurityPut, At
  <2>2. call' \in [Requests -> Call]
    BY <1>16, IdleIsCall DEF SecurityPut, Return, Goto, TypeOK
  <2>3. security' \in [ShipmentIds -> SecurityInputs \cup {NoRow}]
    BY <1>16, <2>1 DEF SecurityPut, StorePutSecurity, SecurityCall, TypeOK, StoreTypeOK
  <2>4. checks' \subseteq ShipmentIds \X {"customs", "security"}
    BY <1>16, <2>1 DEF SecurityPut, SecurityCall, TypeOK
  <2> QED BY <1>16, <2>2, <2>3, <2>4 DEF SecurityPut, TypeOK, StoreTypeOK
<1>17. ASSUME NEW r \in Requests, Abort(r) PROVE TypeOK'
  BY <1>17, IdleIsCall DEF Abort, Return, Goto, TypeOK, StoreTypeOK, storeVars, historyVars
<1> QED
  BY <1>0, <1>1, <1>2, <1>3, <1>4, <1>5, <1>6, <1>7, <1>8, <1>9, <1>10, <1>11, <1>12,
     <1>13, <1>14, <1>15, <1>16, <1>17
  DEF Next, CreateStep, BookStep, MoveStep, LegStep, CustomsStep, SecurityStep

(* Every reachable state is well typed.                                    *)
THEOREM TypeCorrect == Spec => []TypeOK
<1>1. Init => TypeOK
  BY IdleIsCall DEF Init, StoreInit, TypeOK, StoreTypeOK
<1> QED BY <1>1, TypeOKStep, PTL DEF Spec

-----------------------------------------------------------------------------
(* Optimistic locking.  First, what a step can do to the tables: a row     *)
(* never goes away, and a row that changes gets the next version.          *)
RowsGrow ==
  /\ \A id \in ShipmentIds :
       shipments[id] # NoRow =>
         /\ shipments'[id] # NoRow
         /\ \/ shipments'[id] = shipments[id]
            \/ shipments'[id].version = shipments[id].version + 1
  /\ \A leg \in LegIds :
       legs[leg] # NoRow =>
         /\ legs'[leg] # NoRow
         /\ \/ legs'[leg] = legs[leg]
            \/ legs'[leg].version = legs[leg].version + 1

LEMMA RowsGrowStep == TypeOK /\ [Next]_vars => RowsGrow
<1> SUFFICES ASSUME TypeOK, [Next]_vars PROVE RowsGrow
  OBVIOUS
<1> USE CargoAssumption, NoValuesAssumption
<1>t. TypeOK'
  BY TypeOKStep
<1>a. \A r \in Requests : call[r] \in Call
  BY DEF TypeOK
<1>0. CASE UNCHANGED <<shipments, legs>>
  BY <1>0 DEF RowsGrow
<1>1. ASSUME NEW r \in Requests, CreateInsert(r) PROVE RowsGrow
  <2>1. call[r] \in CreateCall
    BY <1>a, <1>1, CallKinds DEF CreateInsert, At
  <2>2. CASE UNCHANGED shipments
    BY <1>1, <2>2 DEF CreateInsert, RowsGrow
  <2>3. CASE StoreCreateShipment(call[r].id, call[r].s)
    <3>1. shipments[call[r].id] = NoRow
      BY <2>3 DEF StoreCreateShipment, CreateShipmentErr, DuplicateShipment
    <3>2. \A id \in ShipmentIds : id # call[r].id => shipments'[id] = shipments[id]
      BY <2>3 DEF StoreCreateShipment, TypeOK, StoreTypeOK
    <3> QED BY <1>1, <3>1, <3>2 DEF CreateInsert, RowsGrow
  <2> QED BY <1>1, <2>2, <2>3 DEF CreateInsert
<1>2. ASSUME NEW r \in Requests, BookCommit(r) PROVE RowsGrow
  <2>1. call[r] \in BookCall
    BY <1>a, <1>2, CallKinds DEF BookCommit, At
  <2>2. CASE UNCHANGED <<shipments, legs>>
    BY <2>2 DEF RowsGrow
  <2>3. CASE StoreBookShipment(call[r].user.tenant, call[r].id, call[r].leg,
                               call[r].s.version, call[r].l.version)
    <3>1. shipments[call[r].id] \in ShipmentRow /\ legs[call[r].leg] \in LegRow
      BY <2>1, <2>3, ShipmentRead, LegRead
      DEF StoreBookShipment, BookShipmentErr, BookCall, TypeOK
    <3>2. \A id \in ShipmentIds : id # call[r].id => shipments'[id] = shipments[id]
      BY <2>3 DEF StoreBookShipment, TypeOK, StoreTypeOK
    <3>3. /\ shipments'[call[r].id].version = shipments[call[r].id].version + 1
          /\ shipments'[call[r].id] \in ShipmentRow
      <4>1. shipments'[call[r].id] = BookedShipment(shipments[call[r].id], call[r].leg)
        BY <2>1, <2>3 DEF StoreBookShipment, BookCall, TypeOK, StoreTypeOK
      <4> QED BY <2>1, <3>1, <4>1, BookedRow DEF BookCall
    <3>4. \A leg \in LegIds : leg # call[r].leg => legs'[leg] = legs[leg]
      BY <2>3 DEF StoreBookShipment, TypeOK, StoreTypeOK
    <3>5. /\ legs'[call[r].leg].version = legs[call[r].leg].version + 1
          /\ legs'[call[r].leg] \in LegRow
      <4>1. legs'[call[r].leg] = ReservedLeg(legs[call[r].leg], shipments[call[r].id].weight)
        BY <2>1, <2>3 DEF StoreBookShipment, BookCall, TypeOK, StoreTypeOK
      <4>2. shipments[call[r].id].weight \in Nat
        BY <3>1 DEF ShipmentRow
      <4> QED BY <3>1, <4>1, <4>2, ReservedRow, SMTT(60)
    <3> QED BY <3>2, <3>3, <3>4, <3>5 DEF RowsGrow
  <2> QED BY <1>2, <2>2, <2>3 DEF BookCommit
<1>3. ASSUME NEW r \in Requests, MoveCommit(r) PROVE RowsGrow
  <2>1. call[r] \in MoveCall
    BY <1>a, <1>3, CallKinds DEF MoveCommit, At
  <2> DEFINE c == call[r]
             moved == [c.s EXCEPT !.status = c.next]
  <2>2. CASE UNCHANGED shipments
    BY <1>3, <2>2 DEF MoveCommit, RowsGrow
  <2>3. CASE StoreUpdateShipment(c.id, moved, c.s.version)
    <3>1. moved \in ShipmentRow
      BY <2>1 DEF MoveCall, ShipmentRow
    <3>2. shipments[c.id] \in ShipmentRow
      BY <2>1, <2>3 DEF StoreUpdateShipment, UpdateShipmentErr, UpdateMatches, MoveCall,
                        TypeOK, StoreTypeOK
    <3> HIDE DEF moved
    <3>3. \A id \in ShipmentIds : id # c.id => shipments'[id] = shipments[id]
      BY <2>3 DEF StoreUpdateShipment, TypeOK, StoreTypeOK
    <3>4. shipments'[c.id] = [moved EXCEPT !.key = shipments[c.id].key,
                                           !.version = shipments[c.id].version + 1]
      BY <2>1, <2>3 DEF StoreUpdateShipment, MoveCall, TypeOK, StoreTypeOK
    <3>5. /\ shipments'[c.id].version = shipments[c.id].version + 1
          /\ shipments'[c.id] \in ShipmentRow
      BY <3>1, <3>2, <3>4, UpdatedRow, ZenonT(60) DEF ShipmentRow
    <3> QED BY <1>3, <3>3, <3>5 DEF MoveCommit, RowsGrow
  <2> QED BY <1>3, <2>2, <2>3 DEF MoveCommit
<1>4. ASSUME NEW r \in Requests, CreateLeg(r) PROVE RowsGrow
  <2>1. PICK id \in LegIds : /\ legs[id] = NoRow
                             /\ \A leg \in LegIds : leg # id => legs'[leg] = legs[leg]
    BY <1>4, LegCreated DEF TypeOK, StoreTypeOK
  <2> QED BY <1>4, <2>1 DEF CreateLeg, RowsGrow
<1>5. ASSUME NEW r \in Requests, OpenCommit(r) PROVE RowsGrow
  <2>1. call[r] \in OpenCall
    BY <1>a, <1>5, CallKinds DEF OpenCommit, At
  <2>2. CASE UNCHANGED legs
    BY <1>5, <2>2 DEF OpenCommit, RowsGrow
  <2>3. CASE StoreUpdateLegStatus(call[r].user.tenant, call[r].leg, "open", call[r].l.version)
    <3>1. legs[call[r].leg] \in LegRow
      BY <2>1, <2>3, LegRead DEF StoreUpdateLegStatus, UpdateLegStatusErr, OpenCall, TypeOK
    <3>2. \A leg \in LegIds : leg # call[r].leg => legs'[leg] = legs[leg]
      BY <2>3 DEF StoreUpdateLegStatus, TypeOK, StoreTypeOK
    <3>3. legs'[call[r].leg] = OpenedLeg(legs[call[r].leg], "open")
      BY <2>1, <2>3 DEF StoreUpdateLegStatus, OpenCall, TypeOK, StoreTypeOK
    <3>4. /\ legs'[call[r].leg].version = legs[call[r].leg].version + 1
          /\ legs'[call[r].leg] \in LegRow
      BY <3>1, <3>3, OpenedRow
    <3> QED BY <1>5, <3>2, <3>4 DEF OpenCommit, RowsGrow
  <2> QED BY <1>5, <2>2, <2>3 DEF OpenCommit
<1>6. CASE UNCHANGED vars
  BY <1>0, <1>6 DEF vars, storeVars
<1>7. ASSUME NEW r \in Requests,
             \/ CreateFind(r) \/ BookReadShipment(r) \/ BookReadLeg(r)
             \/ MoveReadShipment(r) \/ MoveReadCustoms(r) \/ MoveReadSecurity(r)
             \/ OpenReadLeg(r) \/ CustomsStep(r) \/ SecurityStep(r) \/ Abort(r)
      PROVE  RowsGrow
  <2>1. UNCHANGED <<shipments, legs>>
    BY <1>7, ZenonT(60) DEF CreateFind, BookReadShipment, BookReadLeg, MoveReadShipment,
                MoveReadCustoms, MoveReadSecurity, OpenReadLeg, CustomsStep,
                CustomsReadShipment, CustomsReadCase, CustomsPut, SecurityStep,
                SecurityReadShipment, SecurityPut, Abort, storeVars
  <2> QED BY <1>0, <2>1
<1> QED
  BY <1>1, <1>2, <1>3, <1>4, <1>5, <1>6, <1>7
  DEF Next, CreateStep, BookStep, MoveStep, LegStep


(* A handler's copy of a row is the one it had before the step or the row  *)
(* the step read.                                                          *)
Snapshots ==
  \A r \in Requests :
    /\ HoldsShipment(call'[r]) =>
         \/ /\ HoldsShipment(call[r])
            /\ call'[r].id = call[r].id /\ call'[r].s = call[r].s
         \/ /\ shipments[call'[r].id] # NoRow
            /\ call'[r].s = shipments[call'[r].id]
    /\ HoldsLeg(call'[r]) =>
         \/ /\ HoldsLeg(call[r])
            /\ call'[r].leg = call[r].leg /\ call'[r].l = call[r].l
         \/ /\ legs[call'[r].leg] # NoRow
            /\ call'[r].l = legs[call'[r].leg]

LEMMA SnapshotsStep == TypeOK /\ [Next]_vars => Snapshots
<1> SUFFICES ASSUME TypeOK, [Next]_vars PROVE Snapshots
  OBVIOUS
<1> USE CargoAssumption, NoValuesAssumption
<1>a. \A r \in Requests : call[r] \in Call
  BY DEF TypeOK
<1>b. ~HoldsShipment(Idle) /\ ~HoldsLeg(Idle)
  BY DEF HoldsShipment, HoldsLeg, Idle
<1>0. CASE UNCHANGED call
  BY <1>0 DEF Snapshots
<1>1. ASSUME NEW r \in Requests, Return(r) PROVE Snapshots
  BY <1>1, <1>b DEF Return, Goto, TypeOK, Snapshots
<1>2. ASSUME NEW r \in Requests, NEW c, Goto(r, c),
             ~HoldsShipment(c), ~HoldsLeg(c)
      PROVE  Snapshots
  BY <1>2 DEF Goto, TypeOK, Snapshots
<1>3. ASSUME NEW r \in Requests, CreateFind(r) PROVE Snapshots
  <2>1. CASE UNCHANGED call
    BY <1>0, <2>1
  <2>2. CASE ~UNCHANGED call
    <3>1. PICK u, id, s :
            Goto(r, [pc |-> "create", user |-> u, id |-> id, s |-> s])
      BY <1>3, <2>2, ZenonT(60) DEF CreateFind
    <3> DEFINE c == [pc |-> "create", user |-> u, id |-> id, s |-> s]
    <3>2. ~HoldsShipment(c) /\ ~HoldsLeg(c)
      BY DEF HoldsShipment, HoldsLeg
    <3> QED BY <1>2, <3>1, <3>2
  <2> QED BY <2>1, <2>2
<1>4. ASSUME NEW r \in Requests, BookReadShipment(r) PROVE Snapshots
  <2>1. PICK u \in Users, id \in ShipmentIds, leg \in LegIds :
          /\ GetShipment(u.tenant, id) # NoRow
          /\ Goto(r, [pc |-> "book.leg", user |-> u, id |-> id, leg |-> leg,
                      s |-> GetShipment(u.tenant, id)])
    BY <1>4 DEF BookReadShipment
  <2>2. GetShipment(u.tenant, id) = shipments[id] /\ shipments[id] # NoRow
    BY <2>1 DEF GetShipment
  <2> QED BY <2>1, <2>2 DEF Goto, TypeOK, Snapshots, HoldsShipment, HoldsLeg
<1>5. ASSUME NEW r \in Requests, BookReadLeg(r) PROVE Snapshots
  <2>1. CASE Return(r)
    BY <1>1, <2>1
  <2>2. CASE ~Return(r)
    <3> DEFINE c == call[r]
               l == GetLeg(c.user.tenant, c.leg)
    <3>1. /\ l # NoRow
          /\ Goto(r, [pc |-> "book.commit", user |-> c.user, id |-> c.id,
                      leg |-> c.leg, s |-> c.s, l |-> l])
      BY <1>5, <2>2 DEF BookReadLeg
    <3>2. l = legs[c.leg] /\ legs[c.leg] # NoRow
      BY <3>1 DEF GetLeg
    <3>3. HoldsShipment(c)
      BY <1>5 DEF BookReadLeg, At, HoldsShipment
    <3> QED BY <3>1, <3>2, <3>3 DEF Goto, TypeOK, Snapshots, HoldsLeg
  <2> QED BY <2>1, <2>2
<1>6. ASSUME NEW r \in Requests, MoveReadShipment(r) PROVE Snapshots
  <2>1. PICK u \in Users, id \in ShipmentIds, next \in MoveTargets :
          /\ GetShipment(u.tenant, id) # NoRow
          /\ Goto(r, [pc |-> IF NeedsClearance(GetShipment(u.tenant, id), next)
                             THEN "move.customs" ELSE "move.commit",
                      user |-> u, id |-> id, next |-> next,
                      s |-> GetShipment(u.tenant, id)])
    BY <1>6 DEF MoveReadShipment
  <2>2. GetShipment(u.tenant, id) = shipments[id] /\ shipments[id] # NoRow
    BY <2>1 DEF GetShipment
  <2> QED BY <2>1, <2>2 DEF Goto, TypeOK, Snapshots, HoldsShipment, HoldsLeg
<1>7. ASSUME NEW r \in Requests, MoveReadCustoms(r) \/ MoveReadSecurity(r) PROVE Snapshots
  <2>1. CASE Return(r)
    BY <1>1, <2>1
  <2>2. CASE ~Return(r)
    <3>1. call[r] \in MoveCall
      BY <1>a, <1>7, CallKinds DEF MoveReadCustoms, MoveReadSecurity, At
    <3>2. PICK pc \in {"move.security", "move.commit"} : Step(r, pc)
      BY <1>7, <2>2 DEF MoveReadCustoms, MoveReadSecurity
    <3>3. /\ HoldsShipment(call[r])
          /\ [call[r] EXCEPT !.pc = pc].id = call[r].id
          /\ [call[r] EXCEPT !.pc = pc].s = call[r].s
          /\ [call[r] EXCEPT !.pc = pc].pc = pc
      BY <3>1 DEF MoveCall, HoldsShipment
    <3>4. /\ call'[r].id = call[r].id /\ call'[r].s = call[r].s /\ call'[r].pc = pc
          /\ \A q \in Requests : q # r => call'[q] = call[q]
      BY <3>2, <3>3 DEF Step, Goto, TypeOK
    <3> QED BY <3>3, <3>4 DEF Snapshots, HoldsLeg
  <2> QED BY <2>1, <2>2
<1>8. ASSUME NEW r \in Requests, OpenReadLeg(r) PROVE Snapshots
  <2>1. PICK u \in Users, id \in LegIds :
          /\ GetLeg(u.tenant, id) # NoRow
          /\ Goto(r, [pc |-> "open", user |-> u, leg |-> id, l |-> legs[id]])
    BY <1>8 DEF OpenReadLeg
  <2>2. legs[id] # NoRow
    BY <2>1 DEF GetLeg
  <2> QED BY <2>1, <2>2 DEF Goto, TypeOK, Snapshots, HoldsShipment, HoldsLeg
<1>9. ASSUME NEW r \in Requests, CustomsReadShipment(r) PROVE Snapshots
  <2>1. PICK u, id, status :
          Goto(r, [pc |-> "customs.read", user |-> u, id |-> id, status |-> status])
    BY <1>9 DEF CustomsReadShipment
  <2> QED BY <2>1 DEF Goto, TypeOK, Snapshots, HoldsShipment, HoldsLeg
<1>10. ASSUME NEW r \in Requests, SecurityReadShipment(r) PROVE Snapshots
  <2>1. PICK u, id, status :
          Goto(r, [pc |-> "security.put", user |-> u, id |-> id, status |-> status])
    BY <1>10 DEF SecurityReadShipment
  <2> QED BY <2>1 DEF Goto, TypeOK, Snapshots, HoldsShipment, HoldsLeg
<1>11. ASSUME NEW r \in Requests, CustomsReadCase(r) PROVE Snapshots
  <2>1. call[r] \in CustomsCall
    BY <1>a, <1>11, CallKinds DEF CustomsReadCase, At
  <2>2. [call[r] EXCEPT !.pc = "customs.put"].pc = "customs.put"
    BY <2>1 DEF CustomsCall
  <2>3. CASE Step(r, "customs.put")
    BY <1>2, <2>2, <2>3 DEF Step, HoldsShipment, HoldsLeg
  <2> QED BY <1>1, <1>11, <2>3 DEF CustomsReadCase
<1> QED
  BY <1>0, <1>1, <1>3, <1>4, <1>5, <1>6, <1>7, <1>8, <1>9, <1>10, <1>11
  DEF Next, vars, CreateStep, CreateInsert, BookStep, BookCommit, MoveStep, MoveCommit,
      LegStep, CreateLeg, OpenCommit, CustomsStep, CustomsPut, SecurityStep, SecurityPut,
      Abort

LEMMA VersionStep ==
  TypeOK /\ VersionIdentifiesRow /\ [Next]_vars => VersionIdentifiesRow'
<1> SUFFICES ASSUME TypeOK, VersionIdentifiesRow, [Next]_vars, NEW r \in Requests
             PROVE  /\ HoldsShipment(call'[r]) =>
                         /\ shipments'[call'[r].id] # NoRow
                         /\ call'[r].s.version <= shipments'[call'[r].id].version
                         /\ call'[r].s.version = shipments'[call'[r].id].version
                              => call'[r].s = shipments'[call'[r].id]
                    /\ HoldsLeg(call'[r]) =>
                         /\ legs'[call'[r].leg] # NoRow
                         /\ call'[r].l.version <= legs'[call'[r].leg].version
                         /\ call'[r].l.version = legs'[call'[r].leg].version
                              => call'[r].l = legs'[call'[r].leg]
  BY DEF VersionIdentifiesRow, HoldsShipment, HoldsLeg
<1>1. TypeOK' /\ RowsGrow /\ Snapshots
  BY TypeOKStep, RowsGrowStep, SnapshotsStep
<1>2. ASSUME HoldsShipment(call'[r])
      PROVE  /\ shipments'[call'[r].id] # NoRow
             /\ call'[r].s.version <= shipments'[call'[r].id].version
             /\ call'[r].s.version = shipments'[call'[r].id].version
                  => call'[r].s = shipments'[call'[r].id]
  <2> DEFINE id == call'[r].id
             s  == call'[r].s
  <2>1. id \in ShipmentIds /\ s \in ShipmentRow
    <3>1. call'[r] \in Call
      BY <1>1 DEF TypeOK
    <3>2. call'[r] \in BookLegCall \cup BookCall \cup MoveCall
      BY <1>2, <3>1, CallKinds DEF HoldsShipment
    <3> QED BY <3>2 DEF BookLegCall, BookCall, MoveCall
  <2>2. /\ shipments[id] # NoRow
        /\ s.version <= shipments[id].version
        /\ s.version = shipments[id].version => s = shipments[id]
    BY <1>1, <1>2, <2>1 DEF Snapshots, VersionIdentifiesRow, ShipmentRow
  <2>3. /\ shipments'[id] # NoRow
        /\ shipments'[id] = shipments[id] \/ shipments'[id].version = shipments[id].version + 1
    BY <1>1, <2>1, <2>2 DEF RowsGrow
  <2>4. shipments[id] \in ShipmentRow
    BY <2>1, <2>2 DEF TypeOK, StoreTypeOK
  <2>5. s.version \in Nat /\ shipments[id].version \in Nat
    BY <2>1, <2>4 DEF ShipmentRow
  <2> QED BY <2>2, <2>3, <2>5
<1>3. ASSUME HoldsLeg(call'[r])
      PROVE  /\ legs'[call'[r].leg] # NoRow
             /\ call'[r].l.version <= legs'[call'[r].leg].version
             /\ call'[r].l.version = legs'[call'[r].leg].version
                  => call'[r].l = legs'[call'[r].leg]
  <2> DEFINE leg == call'[r].leg
             l   == call'[r].l
  <2>1. leg \in LegIds /\ l \in LegRow
    <3>1. call'[r] \in Call
      BY <1>1 DEF TypeOK
    <3>2. call'[r] \in BookCall \cup OpenCall
      BY <1>3, <3>1, CallKinds DEF HoldsLeg
    <3> QED BY <3>2 DEF BookCall, OpenCall
  <2>2. /\ legs[leg] # NoRow
        /\ l.version <= legs[leg].version
        /\ l.version = legs[leg].version => l = legs[leg]
    BY <1>1, <1>3, <2>1 DEF Snapshots, VersionIdentifiesRow, LegRow
  <2>3. /\ legs'[leg] # NoRow
        /\ legs'[leg] = legs[leg] \/ legs'[leg].version = legs[leg].version + 1
    BY <1>1, <2>1, <2>2 DEF RowsGrow
  <2>4. legs[leg] \in LegRow
    BY <2>1, <2>2 DEF TypeOK, StoreTypeOK
  <2>5. l.version \in Nat /\ legs[leg].version \in Nat
    BY <2>1, <2>4 DEF LegRow
  <2> QED BY <2>2, <2>3, <2>5
<1> QED BY <1>2, <1>3

(* Optimistic locking is sound: however the handlers interleave, a handler *)
(* whose copy has the row's version has the row.                           *)
THEOREM VersionsSound == Spec => []VersionIdentifiesRow
<1>1. Init => TypeOK /\ VersionIdentifiesRow
  BY IdleIsCall DEF Init, StoreInit, TypeOK, StoreTypeOK, VersionIdentifiesRow, Idle,
                    HoldsShipment, HoldsLeg
<1> QED BY <1>1, TypeOKStep, VersionStep, PTL DEF Spec


-----------------------------------------------------------------------------
(* Bookings.  A transition in flight is one the status table allows from   *)
(* the status its handler read.                                            *)
Moving(c) == c.pc \in {"move.customs", "move.security", "move.commit"}

MovesLegal ==
  \A r \in Requests :
    Moving(call[r]) => ShipmentCanTransition(call[r].s.status, call[r].next)

LEMMA MovesLegalStep == TypeOK /\ MovesLegal /\ [Next]_vars => MovesLegal'
<1> SUFFICES ASSUME TypeOK, MovesLegal, [Next]_vars
             PROVE  \A r \in Requests : Moving(call'[r]) =>
                      ShipmentCanTransition(call'[r].s.status, call'[r].next)
  BY DEF MovesLegal, Moving
<1> DEFINE Goal == \A r \in Requests : Moving(call'[r]) =>
                     ShipmentCanTransition(call'[r].s.status, call'[r].next)
<1>a. \A r \in Requests : call[r] \in Call
  BY DEF TypeOK
<1>0. CASE UNCHANGED call
  BY <1>0 DEF MovesLegal
<1>1. ASSUME NEW r \in Requests, NEW c, Goto(r, c), ~Moving(c) PROVE Goal
  BY <1>1 DEF Goto, TypeOK, MovesLegal
<1>2. ASSUME NEW r \in Requests, Return(r) PROVE Goal
  BY <1>1, <1>2 DEF Return, Idle, Moving
<1>3. ASSUME NEW r \in Requests, CreateFind(r) PROVE Goal
  <2>1. CASE UNCHANGED call
    BY <1>0, <2>1
  <2>2. CASE ~UNCHANGED call
    <3>1. PICK u, id, s :
            Goto(r, [pc |-> "create", user |-> u, id |-> id, s |-> s])
      BY <1>3, <2>2, ZenonT(60) DEF CreateFind
    <3> QED BY <1>1, <3>1 DEF Moving
  <2> QED BY <2>1, <2>2
<1>4. ASSUME NEW r \in Requests, BookReadShipment(r) PROVE Goal
  <2>1. PICK u, id, leg, s :
          Goto(r, [pc |-> "book.leg", user |-> u, id |-> id, leg |-> leg, s |-> s])
    BY <1>4 DEF BookReadShipment
  <2> QED BY <1>1, <2>1 DEF Moving
<1>5. ASSUME NEW r \in Requests, BookReadLeg(r) PROVE Goal
  <2>1. CASE Return(r)
    BY <1>2, <2>1
  <2>2. CASE ~Return(r)
    <3>1. PICK u, id, leg, s, l :
            Goto(r, [pc |-> "book.commit", user |-> u, id |-> id, leg |-> leg,
                     s |-> s, l |-> l])
      BY <1>5, <2>2 DEF BookReadLeg
    <3> QED BY <1>1, <3>1 DEF Moving
  <2> QED BY <2>1, <2>2
<1>6. ASSUME NEW r \in Requests, MoveReadShipment(r) PROVE Goal
  <2>1. PICK u, id, next, pc :
          /\ ShipmentCanTransition(GetShipment(u.tenant, id).status, next)
          /\ Goto(r, [pc |-> pc, user |-> u, id |-> id, next |-> next,
                      s |-> GetShipment(u.tenant, id)])
    BY <1>6 DEF MoveReadShipment
  <2> QED BY <2>1 DEF Goto, TypeOK, MovesLegal
<1>7. ASSUME NEW r \in Requests, MoveReadCustoms(r) \/ MoveReadSecurity(r) PROVE Goal
  <2>1. CASE Return(r)
    BY <1>2, <2>1
  <2>2. CASE ~Return(r)
    <3>1. call[r] \in MoveCall /\ Moving(call[r])
      BY <1>a, <1>7, CallKinds DEF MoveReadCustoms, MoveReadSecurity, At, Moving
    <3>2. PICK pc \in {"move.security", "move.commit"} : Step(r, pc)
      BY <1>7, <2>2 DEF MoveReadCustoms, MoveReadSecurity
    <3>3. /\ [call[r] EXCEPT !.pc = pc].next = call[r].next
          /\ [call[r] EXCEPT !.pc = pc].s = call[r].s
      BY <3>1 DEF MoveCall
    <3>4. /\ call'[r].next = call[r].next /\ call'[r].s = call[r].s
          /\ \A q \in Requests : q # r => call'[q] = call[q]
      BY <3>2, <3>3 DEF Step, Goto, TypeOK
    <3> QED BY <3>1, <3>4 DEF MovesLegal
  <2> QED BY <2>1, <2>2
<1>8. ASSUME NEW r \in Requests, OpenReadLeg(r) PROVE Goal
  <2>1. PICK u, id, l : Goto(r, [pc |-> "open", user |-> u, leg |-> id, l |-> l])
    BY <1>8 DEF OpenReadLeg
  <2> QED BY <1>1, <2>1 DEF Moving
<1>9. ASSUME NEW r \in Requests, CustomsReadShipment(r) PROVE Goal
  <2>1. PICK u, id, status :
          Goto(r, [pc |-> "customs.read", user |-> u, id |-> id, status |-> status])
    BY <1>9 DEF CustomsReadShipment
  <2> QED BY <1>1, <2>1 DEF Moving
<1>10. ASSUME NEW r \in Requests, SecurityReadShipment(r) PROVE Goal
  <2>1. PICK u, id, status :
          Goto(r, [pc |-> "security.put", user |-> u, id |-> id, status |-> status])
    BY <1>10 DEF SecurityReadShipment
  <2> QED BY <1>1, <2>1 DEF Moving
<1>11. ASSUME NEW r \in Requests, CustomsReadCase(r) PROVE Goal
  <2>1. call[r] \in CustomsCall
    BY <1>a, <1>11, CallKinds DEF CustomsReadCase, At
  <2>2. [call[r] EXCEPT !.pc = "customs.put"].pc = "customs.put"
    BY <2>1 DEF CustomsCall
  <2>3. CASE Step(r, "customs.put")
    BY <1>1, <2>2, <2>3 DEF Step, Moving
  <2> QED BY <1>2, <1>11, <2>3 DEF CustomsReadCase
<1> QED
  BY <1>0, <1>2, <1>3, <1>4, <1>5, <1>6, <1>7, <1>8, <1>9, <1>10, <1>11
  DEF Next, vars, CreateStep, CreateInsert, BookStep, BookCommit, MoveStep, MoveCommit,
      LegStep, CreateLeg, OpenCommit, CustomsStep, CustomsPut, SecurityStep, SecurityPut,
      Abort

(* What a step does to a shipment and to a leg, as far as bookings go.     *)
ShipmentMoved(id) ==
  /\ shipments[id] # NoRow /\ shipments'[id] # NoRow
  /\ shipments'[id].tenant = shipments[id].tenant
  /\ shipments'[id].route = shipments[id].route
  /\ shipments'[id].leg = shipments[id].leg
  /\ shipments'[id].status # "draft"

BookedNow(id, leg) ==
  /\ shipments[id] # NoRow /\ shipments[id].status = "draft"
  /\ shipments'[id] # NoRow /\ shipments'[id].status = "booked"
  /\ shipments'[id].leg = leg
  /\ legs[leg] # NoRow
  /\ shipments'[id].tenant = legs[leg].tenant
  /\ shipments'[id].route = legs[leg].route
  /\ legs'[leg].reserved <= legs'[leg].capacity

LegKept(leg) ==
  /\ legs'[leg] # NoRow
  /\ legs'[leg].tenant = legs[leg].tenant
  /\ legs'[leg].route = legs[leg].route
  /\ \/ legs'[leg].reserved = legs[leg].reserved /\ legs'[leg].capacity = legs[leg].capacity
     \/ legs'[leg].reserved <= legs'[leg].capacity

Effects ==
  /\ \A id \in ShipmentIds :
       \/ /\ bookedOn'[id] = bookedOn[id]
          /\ \/ shipments'[id] = shipments[id]
             \/ shipments[id] = NoRow
             \/ ShipmentMoved(id)
       \/ bookedOn'[id] \in LegIds /\ BookedNow(id, bookedOn'[id])
  /\ \A leg \in LegIds : legs[leg] # NoRow => LegKept(leg)

(* The capacity check is exact once the addition is known not to overflow. *)
LEMMA CapacityExact ==
  ASSUME NEW l \in LegRow, NEW weight \in Nat,
         ValidateCapacity(l, weight), l.reserved + weight <= MaxInt64
  PROVE  l.reserved + weight <= l.capacity
BY MaxInt64Assumption DEF ValidateCapacity, AddInt64, LegRow

LEMMA EffectsStep ==
  TypeOK /\ VersionIdentifiesRow /\ MovesLegal /\ [Next]_vars => Effects
<1> SUFFICES ASSUME TypeOK, VersionIdentifiesRow, MovesLegal, [Next]_vars PROVE Effects
  OBVIOUS
<1> USE CargoAssumption, NoValuesAssumption
<1>a. \A r \in Requests : call[r] \in Call
  BY DEF TypeOK
<1>0. CASE UNCHANGED <<shipments, legs, bookedOn>>
  BY <1>0 DEF Effects, LegKept
<1>1. ASSUME NEW r \in Requests, CreateInsert(r) PROVE Effects
  <2>1. call[r] \in CreateCall
    BY <1>a, <1>1, CallKinds DEF CreateInsert, At
  <2>2. CASE UNCHANGED shipments
    BY <1>0, <1>1, <2>2 DEF CreateInsert
  <2>3. CASE StoreCreateShipment(call[r].id, call[r].s)
    <3>1. shipments[call[r].id] = NoRow
      BY <2>3 DEF StoreCreateShipment, CreateShipmentErr, DuplicateShipment
    <3>2. \A id \in ShipmentIds : id # call[r].id => shipments'[id] = shipments[id]
      BY <2>3 DEF StoreCreateShipment, TypeOK, StoreTypeOK
    <3> QED BY <1>1, <3>1, <3>2 DEF CreateInsert, Effects, LegKept
  <2> QED BY <1>1, <2>2, <2>3 DEF CreateInsert
<1>2. ASSUME NEW r \in Requests, BookCommit(r) PROVE Effects
  <2> DEFINE id == call[r].id
             leg == call[r].leg
  <2>1. call[r] \in BookCall /\ id \in ShipmentIds /\ leg \in LegIds
    BY <1>a, <1>2, CallKinds DEF BookCommit, At, BookCall
  <2>2. CASE UNCHANGED <<shipments, legs, bookedOn>>
    BY <1>0, <2>2
  <2>3. CASE /\ StoreBookShipment(call[r].user.tenant, id, leg,
                                  call[r].s.version, call[r].l.version)
             /\ bookedOn' = [bookedOn EXCEPT ![id] = leg]
    <3>1. /\ GetShipment(call[r].user.tenant, id) # NoRow
          /\ GetLeg(call[r].user.tenant, leg) # NoRow
      BY <2>3 DEF StoreBookShipment, BookShipmentErr
    <3>2. /\ shipments[id] \in ShipmentRow /\ shipments[id] # NoRow
          /\ legs[leg] \in LegRow /\ legs[leg] # NoRow
          /\ GetShipment(call[r].user.tenant, id) = shipments[id]
          /\ GetLeg(call[r].user.tenant, leg) = legs[leg]
          /\ shipments[id].tenant = legs[leg].tenant
      BY <2>1, <3>1, ShipmentRead, LegRead DEF TypeOK
    <3>3. /\ ShipmentCanTransition(shipments[id].status, "booked")
          /\ shipments[id].route = legs[leg].route
          /\ ValidateCapacity(legs[leg], shipments[id].weight)
          /\ ~(legs[leg].reserved + shipments[id].weight > MaxInt64)
      BY <2>3, <3>2 DEF StoreBookShipment, BookShipmentErr
    <3>4. shipments[id].status = "draft"
      BY <3>3 DEF ShipmentCanTransition, ShipmentMoves
    <3>5. legs[leg].reserved + shipments[id].weight <= legs[leg].capacity
      BY <3>2, <3>3, CapacityExact, MaxInt64Assumption DEF ShipmentRow, LegRow
    <3>6. /\ \A i \in ShipmentIds : i # id => /\ shipments'[i] = shipments[i]
                                            /\ bookedOn'[i] = bookedOn[i]
          /\ bookedOn'[id] = leg
      BY <2>1, <2>3 DEF StoreBookShipment, TypeOK, StoreTypeOK
    <3>7. /\ shipments'[id] \in ShipmentRow
          /\ shipments'[id].tenant = shipments[id].tenant
          /\ shipments'[id].route = shipments[id].route
          /\ shipments'[id].status = "booked" /\ shipments'[id].leg = leg
      <4>1. shipments'[id] = BookedShipment(shipments[id], leg)
        BY <2>1, <2>3 DEF StoreBookShipment, TypeOK, StoreTypeOK
      <4> QED BY <2>1, <3>2, <4>1, BookedRow
    <3>8. /\ \A k \in LegIds : k # leg => legs'[k] = legs[k]
          /\ legs'[leg] \in LegRow
          /\ legs'[leg].tenant = legs[leg].tenant
          /\ legs'[leg].route = legs[leg].route
          /\ legs'[leg].capacity = legs[leg].capacity
          /\ legs'[leg].reserved = legs[leg].reserved + shipments[id].weight
      <4>1. /\ legs'[leg] = ReservedLeg(legs[leg], shipments[id].weight)
            /\ \A k \in LegIds : k # leg => legs'[k] = legs[k]
        BY <2>1, <2>3 DEF StoreBookShipment, TypeOK, StoreTypeOK
      <4>2. shipments[id].weight \in Nat
        BY <3>2 DEF ShipmentRow
      <4> QED BY <3>2, <4>1, <4>2, ReservedRow
    <3>9. BookedNow(id, leg)
      BY <3>2, <3>3, <3>4, <3>5, <3>7, <3>8 DEF BookedNow
    <3>10. \A k \in LegIds : legs[k] # NoRow => LegKept(k)
      BY <3>5, <3>8 DEF LegKept
    <3> QED BY <2>1, <3>6, <3>9, <3>10 DEF Effects
  <2> QED BY <1>2, <2>2, <2>3 DEF BookCommit
<1>3. ASSUME NEW r \in Requests, MoveCommit(r) PROVE Effects
  <2> DEFINE c == call[r]
             moved == [c.s EXCEPT !.status = c.next]
  <2>1. c \in MoveCall /\ c.id \in ShipmentIds /\ c.s \in ShipmentRow
    BY <1>a, <1>3, CallKinds DEF MoveCommit, At, MoveCall
  <2>2. CASE UNCHANGED shipments
    BY <1>0, <1>3, <2>2 DEF MoveCommit, historyVars
  <2>3. CASE StoreUpdateShipment(c.id, moved, c.s.version)
    <3>1. shipments[c.id] # NoRow /\ shipments[c.id].version = c.s.version
      BY <2>3 DEF StoreUpdateShipment, UpdateShipmentErr, UpdateMatches
    <3>2. c.s = shipments[c.id]
      BY <1>3, <3>1 DEF VersionIdentifiesRow, HoldsShipment, MoveCommit, At
    <3>3. /\ moved \in ShipmentRow
          /\ moved.tenant = c.s.tenant /\ moved.route = c.s.route
          /\ moved.leg = c.s.leg /\ moved.status = c.next
      BY <2>1 DEF MoveCall, ShipmentRow
    <3>4. c.next # "draft"
      BY <1>3 DEF MovesLegal, Moving, MoveCommit, At, ShipmentCanTransition, ShipmentMoves
    <3> HIDE DEF moved
    <3>5. /\ \A id \in ShipmentIds : id # c.id => shipments'[id] = shipments[id]
          /\ shipments'[c.id] = [moved EXCEPT !.key = shipments[c.id].key,
                                              !.version = shipments[c.id].version + 1]
      BY <2>1, <2>3 DEF StoreUpdateShipment, TypeOK, StoreTypeOK
    <3>6. ShipmentMoved(c.id)
      <4>1. shipments[c.id] \in ShipmentRow
        BY <2>1, <3>2
      <4> DEFINE w == [moved EXCEPT !.key = shipments[c.id].key,
                                    !.version = shipments[c.id].version + 1]
      <4>a. moved \in ShipmentRow
        BY <3>3
      <4>b. /\ w \in ShipmentRow
            /\ w.tenant = moved.tenant /\ w.route = moved.route
            /\ w.status = moved.status /\ w.leg = moved.leg
        BY <4>a, <4>1, UpdatedRow
      <4>c. shipments'[c.id] = w
        BY <3>5
      <4> HIDE DEF w
      <4>2. /\ shipments'[c.id] \in ShipmentRow
            /\ shipments'[c.id].tenant = moved.tenant
            /\ shipments'[c.id].route = moved.route
            /\ shipments'[c.id].status = moved.status
            /\ shipments'[c.id].leg = moved.leg
        BY <4>b, <4>c
      <4>3. shipments'[c.id] # NoRow
        BY <4>2
      <4> QED BY <3>1, <3>2, <3>3, <3>4, <4>2, <4>3 DEF ShipmentMoved
    <3> QED BY <1>3, <3>5, <3>6 DEF MoveCommit, historyVars, Effects, LegKept
  <2> QED BY <1>3, <2>2, <2>3 DEF MoveCommit
<1>4. ASSUME NEW r \in Requests, CreateLeg(r) PROVE Effects
  <2>1. PICK id \in LegIds : /\ legs[id] = NoRow
                             /\ \A leg \in LegIds : leg # id => legs'[leg] = legs[leg]
    BY <1>4, LegCreated DEF TypeOK, StoreTypeOK
  <2> QED BY <1>4, <2>1 DEF CreateLeg, historyVars, Effects, LegKept
<1>5. ASSUME NEW r \in Requests, OpenCommit(r) PROVE Effects
  <2>1. call[r] \in OpenCall
    BY <1>a, <1>5, CallKinds DEF OpenCommit, At
  <2>2. CASE UNCHANGED legs
    BY <1>0, <1>5, <2>2 DEF OpenCommit, historyVars
  <2>3. CASE StoreUpdateLegStatus(call[r].user.tenant, call[r].leg, "open", call[r].l.version)
    <3>1. legs[call[r].leg] \in LegRow
      BY <2>1, <2>3, LegRead DEF StoreUpdateLegStatus, UpdateLegStatusErr, OpenCall, TypeOK
    <3>2. \A leg \in LegIds : leg # call[r].leg => legs'[leg] = legs[leg]
      BY <2>3 DEF StoreUpdateLegStatus, TypeOK, StoreTypeOK
    <3>3. legs'[call[r].leg] = OpenedLeg(legs[call[r].leg], "open")
      BY <2>1, <2>3 DEF StoreUpdateLegStatus, OpenCall, TypeOK, StoreTypeOK
    <3>4. LegKept(call[r].leg)
      BY <3>1, <3>3, OpenedRow DEF LegKept
    <3> QED BY <1>5, <3>2, <3>4 DEF OpenCommit, historyVars, Effects, LegKept
  <2> QED BY <1>5, <2>2, <2>3 DEF OpenCommit
<1>6. CASE UNCHANGED vars
  BY <1>0, <1>6 DEF vars, storeVars, historyVars
<1>7. ASSUME NEW r \in Requests,
             \/ CreateFind(r) \/ BookReadShipment(r) \/ BookReadLeg(r)
             \/ MoveReadShipment(r) \/ MoveReadCustoms(r) \/ MoveReadSecurity(r)
             \/ OpenReadLeg(r) \/ CustomsStep(r) \/ SecurityStep(r) \/ Abort(r)
      PROVE  Effects
  <2>1. UNCHANGED <<shipments, legs, bookedOn>>
    BY <1>7, ZenonT(60) DEF CreateFind, BookReadShipment, BookReadLeg, MoveReadShipment,
                MoveReadCustoms, MoveReadSecurity, OpenReadLeg, CustomsStep,
                CustomsReadShipment, CustomsReadCase, CustomsPut, SecurityStep,
                SecurityReadShipment, SecurityPut, Abort, storeVars, historyVars
  <2> QED BY <1>0, <2>1
<1> QED
  BY <1>1, <1>2, <1>3, <1>4, <1>5, <1>6, <1>7
  DEF Next, CreateStep, BookStep, MoveStep, LegStep

(* The inductive invariant.  A booking survives because a stale copy of    *)
(* the row cannot be written back, which needs VersionIdentifiesRow; a leg *)
(* that is booked exists, which NoOverbooking needs for new legs.          *)
BookingInv ==
  /\ TypeOK /\ VersionIdentifiesRow /\ MovesLegal
  /\ BookingSticks /\ NoOverbooking

LEMMA BookingStep == BookingInv /\ [Next]_vars => BookingInv'
<1> SUFFICES ASSUME BookingInv, [Next]_vars PROVE BookingInv'
  OBVIOUS
<1>1. TypeOK' /\ VersionIdentifiesRow' /\ MovesLegal'
  BY TypeOKStep, VersionStep, MovesLegalStep DEF BookingInv
<1>2. Effects
  BY EffectsStep DEF BookingInv
<1>3. ASSUME NEW id \in ShipmentIds, bookedOn'[id] # NoLeg
      PROVE  /\ shipments'[id] # NoRow /\ legs'[bookedOn'[id]] # NoRow
             /\ shipments'[id].leg = bookedOn'[id]
             /\ shipments'[id].status # "draft"
             /\ shipments'[id].tenant = legs'[bookedOn'[id]].tenant
             /\ shipments'[id].route = legs'[bookedOn'[id]].route
             /\ legs'[bookedOn'[id]].reserved <= legs'[bookedOn'[id]].capacity
  <2>1. bookedOn'[id] \in LegIds
    BY <1>1, <1>3 DEF TypeOK
  <2>2. CASE bookedOn'[id] = bookedOn[id] /\ ~BookedNow(id, bookedOn'[id])
    <3>1. /\ shipments[id] # NoRow /\ legs[bookedOn[id]] # NoRow
          /\ shipments[id].leg = bookedOn[id]
          /\ shipments[id].status # "draft"
          /\ shipments[id].tenant = legs[bookedOn[id]].tenant
          /\ shipments[id].route = legs[bookedOn[id]].route
          /\ legs[bookedOn[id]].reserved <= legs[bookedOn[id]].capacity
      BY <1>3, <2>2 DEF BookingInv, BookingSticks, NoOverbooking
    <3>2. LegKept(bookedOn[id])
      BY <1>2, <2>1, <2>2, <3>1 DEF Effects
    <3>3. shipments'[id] = shipments[id] \/ ShipmentMoved(id)
      BY <1>2, <2>2, <3>1 DEF Effects
    <3> QED BY <2>2, <3>1, <3>2, <3>3 DEF LegKept, ShipmentMoved
  <2>3. CASE BookedNow(id, bookedOn'[id])
    <3>1. LegKept(bookedOn'[id])
      BY <1>2, <2>1, <2>3 DEF Effects, BookedNow
    <3> QED BY <2>3, <3>1 DEF BookedNow, LegKept
  <2> QED BY <1>2, <2>2, <2>3 DEF Effects
<1>4. BookingSticks' /\ NoOverbooking'
  BY <1>3 DEF BookingSticks, NoOverbooking
<1> QED BY <1>1, <1>4 DEF BookingInv

LEMMA BookingInit == Init => BookingInv
BY IdleIsCall DEF Init, StoreInit, BookingInv, TypeOK, StoreTypeOK, VersionIdentifiesRow,
                  Idle, HoldsShipment, HoldsLeg, MovesLegal, Moving, BookingSticks,
                  NoOverbooking

(* A booking is never lost to a concurrent write of an older row.          *)
THEOREM BookingsStick == Spec => []BookingSticks
<1>1. BookingInv => BookingSticks
  BY DEF BookingInv
<1> QED BY <1>1, BookingInit, BookingStep, PTL DEF Spec

(* Concurrent bookings never take a leg beyond its capacity, in int64      *)
(* arithmetic and for every number of requests, shipments and legs.        *)
THEOREM NeverOverbooked == Spec => []NoOverbooking
<1>1. BookingInv => NoOverbooking
  BY DEF BookingInv
<1> QED BY <1>1, BookingInit, BookingStep, PTL DEF Spec

-----------------------------------------------------------------------------
(* The further proofs rest on two facts about a step: what it can write to *)
(* the tables (Writes), and what the handler that takes it knows           *)
(* (Justified).  First what it can write.                                  *)

OthersKept(id)     == \A i \in ShipmentIds : i # id => shipments'[i] = shipments[i]
OtherLegsKept(leg) == \A k \in LegIds : k # leg => legs'[k] = legs[k]

RowInserted(id, s) ==
  /\ id \in ShipmentIds /\ s \in ShipmentRow
  /\ shipments[id] = NoRow /\ FindByIdempotency(s.tenant, s.key) = {}
  /\ s.leg # NoLeg => legs[s.leg] # NoRow
  /\ shipments'[id] = s /\ OthersKept(id) /\ UNCHANGED legs

RowBooked(id, leg, tenant) ==
  /\ id \in ShipmentIds /\ shipments[id] \in ShipmentRow
  /\ leg \in LegIds /\ legs[leg] \in LegRow
  /\ shipments[id].tenant = tenant /\ legs[leg].tenant = tenant
  /\ shipments[id].route = legs[leg].route
  /\ shipments[id].status = "draft" /\ legs[leg].status = "open"
  /\ legs[leg].reserved + shipments[id].weight <= legs[leg].capacity
  /\ shipments'[id] = BookedShipment(shipments[id], leg) /\ OthersKept(id)
  /\ legs'[leg] = ReservedLeg(legs[leg], shipments[id].weight) /\ OtherLegsKept(leg)

RowMoved(id, next) ==
  /\ id \in ShipmentIds /\ shipments[id] \in ShipmentRow /\ next \in ShipmentStatus
  /\ ShipmentCanTransition(shipments[id].status, next)
  /\ shipments'[id] \in ShipmentRow /\ shipments'[id].status = next
  /\ shipments'[id].tenant = shipments[id].tenant /\ shipments'[id].key = shipments[id].key
  /\ shipments'[id].route = shipments[id].route
  /\ shipments'[id].weight = shipments[id].weight
  /\ shipments'[id].leg = shipments[id].leg
  /\ OthersKept(id) /\ UNCHANGED legs

LegInserted(leg, l) ==
  /\ leg \in LegIds /\ l \in LegRow /\ legs[leg] = NoRow
  /\ l.capacity \in Capacities /\ l.capacity > 0
  /\ l.reserved \in Reserves /\ l.reserved >= 0
  /\ l.status = "planned"
  /\ legs'[leg] = l /\ OtherLegsKept(leg) /\ UNCHANGED shipments

LegOpened(leg, tenant) ==
  /\ leg \in LegIds /\ legs[leg] \in LegRow /\ legs[leg].tenant = tenant
  /\ legs'[leg] = OpenedLeg(legs[leg], "open") /\ OtherLegsKept(leg)
  /\ UNCHANGED shipments

(* A handler at its commit writes the row it was asked to, as the row is   *)
(* now: what it once read is still true, or nothing is written.            *)
Writes(r) ==
  \/ UNCHANGED <<shipments, legs>>
  \/ At(r, "create") /\ RowInserted(call[r].id, call[r].s)
  \/ At(r, "book.commit") /\ RowBooked(call[r].id, call[r].leg, call[r].user.tenant)
  \/ At(r, "move.commit") /\ RowMoved(call[r].id, call[r].next) /\ shipments[call[r].id] = call[r].s
  \/ At(r, "idle") /\ \E leg \in LegIds, l \in LegRow : LegInserted(leg, l)
  \/ At(r, "open") /\ LegOpened(call[r].leg, call[r].user.tenant)

HandlerStep(r) ==
  \/ CreateStep(r) \/ BookStep(r) \/ MoveStep(r) \/ LegStep(r)
  \/ CustomsStep(r) \/ SecurityStep(r) \/ Abort(r)

LEMMA WritesStep ==
  ASSUME TypeOK, VersionIdentifiesRow, MovesLegal, NEW r \in Requests, HandlerStep(r)
  PROVE  Writes(r)
<1> USE CargoAssumption, NoValuesAssumption
<1>a. call[r] \in Call
  BY DEF TypeOK
<1>0. CASE UNCHANGED <<shipments, legs>>
  BY <1>0 DEF Writes
<1>1. CASE CreateInsert(r)
  <2>1. call[r] \in CreateCall
    BY <1>a, <1>1, CallKinds DEF CreateInsert, At
  <2>2. CASE UNCHANGED shipments
    BY <1>0, <1>1, <2>2 DEF CreateInsert
  <2>3. CASE StoreCreateShipment(call[r].id, call[r].s)
    <3> DEFINE id == call[r].id
               s  == call[r].s
    <3>1. id \in ShipmentIds /\ s \in ShipmentRow
      BY <2>1 DEF CreateCall
    <3>2. /\ ~DuplicateShipment(id, s)
          /\ ~(s.leg # NoLeg /\ legs[s.leg] = NoRow)
      BY <2>3 DEF StoreCreateShipment, CreateShipmentErr
    <3>3. shipments'[id] = s /\ OthersKept(id)
      BY <2>3, <3>1 DEF StoreCreateShipment, OthersKept, TypeOK, StoreTypeOK
    <3>4. RowInserted(id, s)
      BY <1>1, <3>1, <3>2, <3>3 DEF RowInserted, DuplicateShipment, CreateInsert
    <3> QED BY <1>1, <3>4 DEF Writes, CreateInsert
  <2> QED BY <1>1, <2>2, <2>3 DEF CreateInsert
<1>2. CASE BookCommit(r)
  <2> DEFINE id == call[r].id
             leg == call[r].leg
             tenant == call[r].user.tenant
  <2>1. call[r] \in BookCall /\ id \in ShipmentIds /\ leg \in LegIds
    BY <1>a, <1>2, CallKinds DEF BookCommit, At, BookCall
  <2>2. CASE UNCHANGED <<shipments, legs>>
    BY <1>0, <2>2
  <2>3. CASE StoreBookShipment(tenant, id, leg, call[r].s.version, call[r].l.version)
    <3>1. GetShipment(tenant, id) # NoRow /\ GetLeg(tenant, leg) # NoRow
      BY <2>3 DEF StoreBookShipment, BookShipmentErr
    <3>2. /\ shipments[id] \in ShipmentRow /\ legs[leg] \in LegRow
          /\ GetShipment(tenant, id) = shipments[id]
          /\ GetLeg(tenant, leg) = legs[leg]
          /\ shipments[id].tenant = tenant /\ legs[leg].tenant = tenant
      BY <2>1, <3>1, ShipmentRead, LegRead DEF TypeOK
    <3>3. /\ ShipmentCanTransition(shipments[id].status, "booked")
          /\ legs[leg].status = "open"
          /\ shipments[id].route = legs[leg].route
          /\ ValidateCapacity(legs[leg], shipments[id].weight)
          /\ ~(legs[leg].reserved + shipments[id].weight > MaxInt64)
      BY <2>3, <3>2 DEF StoreBookShipment, BookShipmentErr
    <3>4. shipments[id].status = "draft"
      BY <3>3 DEF ShipmentCanTransition, ShipmentMoves
    <3>5. legs[leg].reserved + shipments[id].weight <= legs[leg].capacity
      BY <3>2, <3>3, CapacityExact, MaxInt64Assumption DEF ShipmentRow, LegRow
    <3>6. shipments'[id] = BookedShipment(shipments[id], leg) /\ OthersKept(id)
      BY <2>1, <2>3 DEF StoreBookShipment, OthersKept, TypeOK, StoreTypeOK
    <3>7. legs'[leg] = ReservedLeg(legs[leg], shipments[id].weight) /\ OtherLegsKept(leg)
      BY <2>1, <2>3 DEF StoreBookShipment, OtherLegsKept, TypeOK, StoreTypeOK
    <3>8. RowBooked(id, leg, tenant)
      BY <2>1, <3>2, <3>3, <3>4, <3>5, <3>6, <3>7 DEF RowBooked
    <3> QED BY <1>2, <3>8 DEF Writes, BookCommit
  <2> QED BY <1>2, <2>2, <2>3 DEF BookCommit
<1>3. CASE MoveCommit(r)
  <2> DEFINE c == call[r]
             moved == [c.s EXCEPT !.status = c.next]
  <2>1. /\ c \in MoveCall /\ c.id \in ShipmentIds /\ c.s \in ShipmentRow
        /\ c.next \in ShipmentStatus
    BY <1>a, <1>3, CallKinds DEF MoveCommit, At, MoveCall
  <2>2. CASE UNCHANGED shipments
    BY <1>0, <1>3, <2>2 DEF MoveCommit
  <2>3. CASE StoreUpdateShipment(c.id, moved, c.s.version)
    <3>1. shipments[c.id] # NoRow /\ shipments[c.id].version = c.s.version
      BY <2>3 DEF StoreUpdateShipment, UpdateShipmentErr, UpdateMatches
    <3>2. c.s = shipments[c.id]
      BY <1>3, <3>1 DEF VersionIdentifiesRow, HoldsShipment, MoveCommit, At
    <3>3. ShipmentCanTransition(c.s.status, c.next)
      BY <1>3 DEF MovesLegal, Moving, MoveCommit, At
    <3>4. /\ moved \in ShipmentRow
          /\ moved.tenant = c.s.tenant /\ moved.route = c.s.route
          /\ moved.weight = c.s.weight /\ moved.leg = c.s.leg /\ moved.status = c.next
      BY <2>1 DEF ShipmentRow
    <3> HIDE DEF moved
    <3> DEFINE w == [moved EXCEPT !.key = shipments[c.id].key,
                                  !.version = shipments[c.id].version + 1]
    <3>5. shipments'[c.id] = w /\ OthersKept(c.id)
      BY <2>1, <2>3 DEF StoreUpdateShipment, OthersKept, TypeOK, StoreTypeOK
    <3>6. shipments[c.id] \in ShipmentRow
      BY <2>1, <3>2
    <3>7. /\ w \in ShipmentRow /\ w.key = shipments[c.id].key
          /\ w.tenant = moved.tenant /\ w.route = moved.route /\ w.weight = moved.weight
          /\ w.status = moved.status /\ w.leg = moved.leg
      BY <3>4, <3>6, UpdatedRow
    <3> HIDE DEF w
    <3>8. RowMoved(c.id, c.next)
      BY <1>3, <2>1, <3>2, <3>3, <3>4, <3>5, <3>6, <3>7 DEF RowMoved, MoveCommit
    <3> QED BY <1>3, <3>2, <3>8 DEF Writes, MoveCommit
  <2> QED BY <1>3, <2>2, <2>3 DEF MoveCommit
<1>4. CASE CreateLeg(r)
  <2>1. PICK id \in LegIds, l \in LegRow :
          /\ l.capacity \in Capacities /\ l.capacity > 0
          /\ l.reserved \in Reserves /\ l.reserved >= 0
          /\ l.status = "planned"
          /\ legs[id] = NoRow /\ legs' = [legs EXCEPT ![id] = l]
    BY <1>4, LegCreated
  <2>2. legs'[id] = l /\ OtherLegsKept(id)
    BY <2>1 DEF OtherLegsKept, TypeOK, StoreTypeOK
  <2>3. LegInserted(id, l)
    BY <1>4, <2>1, <2>2 DEF LegInserted, CreateLeg
  <2> QED BY <1>4, <2>3 DEF Writes, CreateLeg
<1>5. CASE OpenCommit(r)
  <2>1. call[r] \in OpenCall /\ call[r].leg \in LegIds
    BY <1>a, <1>5, CallKinds DEF OpenCommit, At, OpenCall
  <2>2. CASE UNCHANGED legs
    BY <1>0, <1>5, <2>2 DEF OpenCommit
  <2>3. CASE StoreUpdateLegStatus(call[r].user.tenant, call[r].leg, "open", call[r].l.version)
    <3>1. legs[call[r].leg] \in LegRow /\ legs[call[r].leg].tenant = call[r].user.tenant
      BY <2>1, <2>3, LegRead DEF StoreUpdateLegStatus, UpdateLegStatusErr, TypeOK
    <3>2. /\ legs'[call[r].leg] = OpenedLeg(legs[call[r].leg], "open")
          /\ OtherLegsKept(call[r].leg)
      BY <2>1, <2>3 DEF StoreUpdateLegStatus, OtherLegsKept, TypeOK, StoreTypeOK
    <3>3. LegOpened(call[r].leg, call[r].user.tenant)
      BY <1>5, <2>1, <3>1, <3>2 DEF LegOpened, OpenCommit
    <3> QED BY <1>5, <3>3 DEF Writes, OpenCommit
  <2> QED BY <1>5, <2>2, <2>3 DEF OpenCommit
<1>6. CASE \/ CreateFind(r) \/ BookReadShipment(r) \/ BookReadLeg(r)
           \/ MoveReadShipment(r) \/ MoveReadCustoms(r) \/ MoveReadSecurity(r)
           \/ OpenReadLeg(r) \/ CustomsStep(r) \/ SecurityStep(r) \/ Abort(r)
  <2>1. UNCHANGED <<shipments, legs>>
    BY <1>6, ZenonT(60) DEF CreateFind, BookReadShipment, BookReadLeg, MoveReadShipment,
                MoveReadCustoms, MoveReadSecurity, OpenReadLeg, CustomsStep,
                CustomsReadShipment, CustomsReadCase, CustomsPut, SecurityStep,
                SecurityReadShipment, SecurityPut, Abort, storeVars
  <2> QED BY <1>0, <2>1
<1> QED
  BY <1>1, <1>2, <1>3, <1>4, <1>5, <1>6
  DEF HandlerStep, CreateStep, BookStep, MoveStep, LegStep

-----------------------------------------------------------------------------
(* What a handler in flight knows, given the shipments and the checks      *)
(* recorded: the shipment it is about to insert is a valid draft of its    *)
(* user's tenant, a row it read is of that tenant, and the checks loading  *)
(* and departure need have been made.                                      *)
Justified(c, rows, done) ==
  /\ c.pc = "create" =>
       /\ c.s.status = "draft" /\ c.s.tenant = c.user.tenant
       /\ c.s.weight \in Weights /\ ValidateShipment(c.s.route, c.s.weight)
  /\ c.pc \in {"customs.read", "customs.put", "security.put"} =>
       rows[c.id] # NoRow /\ rows[c.id].tenant = c.user.tenant
  /\ Moving(c) => c.s.tenant = c.user.tenant
  /\ c.pc = "move.security" => <<c.id, "customs">> \in done
  /\ c.pc = "move.commit" /\ NeedsClearance(c.s, c.next) =>
       {<<c.id, "customs">>, <<c.id, "security">>} \subseteq done

CallsJustified == \A r \in Requests : Justified(call[r], shipments, checks)

(* A released case and a passed check are on record.                       *)
ClearanceRecorded ==
  \A id \in ShipmentIds :
    /\ customs[id] # NoRow /\ CustomsAllowsLoading(customs[id])
         => <<id, "customs">> \in checks
    /\ security[id] # NoRow /\ SecurityAllowsLoading(security[id])
         => <<id, "security">> \in checks

(* A step changes only the call of the handler that takes it, and leaves   *)
(* it idle or with what it just read.                                      *)
LEMMA JustifiedStep ==
  ASSUME TypeOK, CallsJustified, ClearanceRecorded, NEW r \in Requests, HandlerStep(r)
  PROVE  /\ \A q \in Requests : q # r => call'[q] = call[q]
         /\ Justified(call'[r], shipments, checks)
<1> USE CargoAssumption, NoValuesAssumption
<1> DEFINE Goal == /\ \A q \in Requests : q # r => call'[q] = call[q]
                   /\ Justified(call'[r], shipments, checks)
<1>a. call[r] \in Call /\ Justified(call[r], shipments, checks)
  BY DEF TypeOK, CallsJustified
<1>0. CASE UNCHANGED call
  BY <1>a, <1>0
<1>1. ASSUME NEW c, Goto(r, c), Justified(c, shipments, checks) PROVE Goal
  BY <1>1 DEF Goto, TypeOK
<1>2. CASE Return(r)
  <2>1. Justified(Idle, shipments, checks)
    BY DEF Justified, Idle, Moving
  <2> QED BY <1>1, <1>2, <2>1 DEF Return
<1>3. CASE CreateFind(r)
  <2>1. CASE UNCHANGED call
    BY <1>0, <2>1
  <2>2. CASE ~UNCHANGED call
    <3>1. PICK u \in Users, id \in ShipmentIds, route \in Routes, weight \in Weights,
               leg \in LegIds \cup {NoLeg}, key \in Keys \cup {NoKey} :
            /\ ValidateShipment(route, weight)
            /\ Goto(r, [pc |-> "create", user |-> u, id |-> id,
                        s |-> NewShipment(u.tenant, route, weight, leg, key)])
      BY <1>3, <2>2, ZenonT(60) DEF CreateFind
    <3>2. Justified([pc |-> "create", user |-> u, id |-> id,
                     s |-> NewShipment(u.tenant, route, weight, leg, key)], shipments, checks)
      BY <3>1 DEF Justified, NewShipment, Moving
    <3> QED BY <1>1, <3>1, <3>2
  <2> QED BY <2>1, <2>2
<1>4. CASE BookReadShipment(r)
  <2>1. PICK u, id, leg, s :
          Goto(r, [pc |-> "book.leg", user |-> u, id |-> id, leg |-> leg, s |-> s])
    BY <1>4 DEF BookReadShipment
  <2> QED BY <1>1, <2>1 DEF Justified, Moving
<1>5. CASE BookReadLeg(r)
  <2>1. CASE ~Return(r)
    <3>1. PICK u, id, leg, s, l :
            Goto(r, [pc |-> "book.commit", user |-> u, id |-> id, leg |-> leg,
                     s |-> s, l |-> l])
      BY <1>5, <2>1 DEF BookReadLeg
    <3> QED BY <1>1, <3>1 DEF Justified, Moving
  <2> QED BY <1>2, <2>1
<1>6. CASE MoveReadShipment(r)
  <2>1. PICK u \in Users, id \in ShipmentIds, next \in MoveTargets :
          LET s == GetShipment(u.tenant, id) IN
          /\ s # NoRow
          /\ Goto(r, [pc |-> IF NeedsClearance(s, next) THEN "move.customs" ELSE "move.commit",
                      user |-> u, id |-> id, next |-> next, s |-> s])
    BY <1>6 DEF MoveReadShipment
  <2> DEFINE s == GetShipment(u.tenant, id)
             c == [pc |-> IF NeedsClearance(s, next) THEN "move.customs" ELSE "move.commit",
                   user |-> u, id |-> id, next |-> next, s |-> s]
  <2>2. s.tenant = u.tenant
    BY <2>1, ShipmentRead DEF TypeOK
  <2>3. /\ c.user = u /\ c.s = s /\ c.next = next
        /\ NeedsClearance(s, next) => c.pc = "move.customs"
        /\ ~NeedsClearance(s, next) => c.pc = "move.commit"
    OBVIOUS
  <2> HIDE DEF c, s
  <2>4. Justified(c, shipments, checks)
    BY <2>2, <2>3 DEF Justified
  <2> QED BY <1>1, <2>1, <2>4 DEF c, s
<1>7. CASE MoveReadCustoms(r) /\ ~Return(r)
  <2>1. call[r] \in MoveCall /\ call[r].id \in ShipmentIds /\ At(r, "move.customs")
    BY <1>a, <1>7, CallKinds DEF MoveReadCustoms, At, MoveCall
  <2>2. /\ Step(r, "move.security")
        /\ customs[call[r].id] # NoRow /\ CustomsAllowsLoading(customs[call[r].id])
    BY <1>7 DEF MoveReadCustoms, GetCustoms
  <2>3. <<call[r].id, "customs">> \in checks
    BY <2>1, <2>2 DEF ClearanceRecorded
  <2> DEFINE c == [call[r] EXCEPT !.pc = "move.security"]
  <2>4. c.pc = "move.security" /\ c.id = call[r].id /\ c.s = call[r].s /\ c.user = call[r].user
    BY <2>1 DEF MoveCall
  <2>5. Goto(r, c)
    BY <2>2 DEF Step
  <2> HIDE DEF c
  <2>6. Justified(c, shipments, checks)
    BY <1>a, <2>1, <2>3, <2>4 DEF Justified, Moving, At
  <2> QED BY <1>1, <2>5, <2>6
<1>8. CASE MoveReadSecurity(r) /\ ~Return(r)
  <2>1. call[r] \in MoveCall /\ call[r].id \in ShipmentIds /\ At(r, "move.security")
    BY <1>a, <1>8, CallKinds DEF MoveReadSecurity, At, MoveCall
  <2>2. /\ Step(r, "move.commit")
        /\ security[call[r].id] # NoRow /\ SecurityAllowsLoading(security[call[r].id])
    BY <1>8 DEF MoveReadSecurity, GetSecurity
  <2>3. <<call[r].id, "security">> \in checks
    BY <2>1, <2>2 DEF ClearanceRecorded
  <2> DEFINE c == [call[r] EXCEPT !.pc = "move.commit"]
  <2>4. c.pc = "move.commit" /\ c.id = call[r].id /\ c.s = call[r].s /\ c.user = call[r].user
    BY <2>1 DEF MoveCall
  <2>5. Goto(r, c)
    BY <2>2 DEF Step
  <2> HIDE DEF c
  <2>6. Justified(c, shipments, checks)
    BY <1>a, <2>1, <2>3, <2>4 DEF Justified, Moving, At
  <2> QED BY <1>1, <2>5, <2>6
<1>9. CASE OpenReadLeg(r)
  <2>1. PICK u, id, l : Goto(r, [pc |-> "open", user |-> u, leg |-> id, l |-> l])
    BY <1>9 DEF OpenReadLeg
  <2> QED BY <1>1, <2>1 DEF Justified, Moving
<1>10. CASE CustomsReadShipment(r)
  <2>1. PICK u \in Users, id \in ShipmentIds, status \in CustomsInputs :
          /\ GetShipment(u.tenant, id) # NoRow
          /\ Goto(r, [pc |-> "customs.read", user |-> u, id |-> id, status |-> status])
    BY <1>10 DEF CustomsReadShipment
  <2>2. shipments[id] # NoRow /\ shipments[id].tenant = u.tenant
    BY <2>1 DEF GetShipment
  <2> QED BY <1>1, <2>1, <2>2 DEF Justified, Moving
<1>11. CASE SecurityReadShipment(r)
  <2>1. PICK u \in Users, id \in ShipmentIds, status \in SecurityInputs :
          /\ GetShipment(u.tenant, id) # NoRow
          /\ Goto(r, [pc |-> "security.put", user |-> u, id |-> id, status |-> status])
    BY <1>11 DEF SecurityReadShipment
  <2>2. shipments[id] # NoRow /\ shipments[id].tenant = u.tenant
    BY <2>1 DEF GetShipment
  <2> QED BY <1>1, <2>1, <2>2 DEF Justified, Moving
<1>12. CASE CustomsReadCase(r) /\ ~Return(r)
  <2>1. call[r] \in CustomsCall /\ At(r, "customs.read") /\ Step(r, "customs.put")
    BY <1>a, <1>12, CallKinds DEF CustomsReadCase, At
  <2> DEFINE c == [call[r] EXCEPT !.pc = "customs.put"]
  <2>2. c.pc = "customs.put" /\ c.id = call[r].id /\ c.user = call[r].user
    BY <2>1 DEF CustomsCall
  <2>3. Goto(r, c)
    BY <2>1 DEF Step
  <2> HIDE DEF c
  <2>4. Justified(c, shipments, checks)
    BY <1>a, <2>1, <2>2 DEF Justified, Moving, At
  <2> QED BY <1>1, <2>3, <2>4
<1>13. CASE \/ CreateInsert(r) \/ BookCommit(r) \/ MoveCommit(r) \/ CreateLeg(r)
            \/ OpenCommit(r) \/ CustomsPut(r) \/ SecurityPut(r) \/ Abort(r)
  BY <1>0, <1>2, <1>13
  DEF CreateInsert, BookCommit, MoveCommit, CreateLeg, OpenCommit, CustomsPut, SecurityPut,
      Abort
<1> QED
  BY <1>2, <1>3, <1>4, <1>5, <1>6, <1>7, <1>8, <1>9, <1>10, <1>11, <1>12, <1>13
  DEF HandlerStep, CreateStep, BookStep, MoveStep, LegStep, CustomsStep, SecurityStep

-----------------------------------------------------------------------------
(* The idempotency keys.  The UNIQUE constraint is an invariant of the     *)
(* table, and an answered create names the row with its key.               *)
KeysUnique ==
  \A i, j \in ShipmentIds :
    /\ shipments[i] # NoRow /\ shipments[j] # NoRow
    /\ shipments[i].tenant = shipments[j].tenant /\ shipments[i].key = shipments[j].key
    => i = j

AcksNameRows ==
  \A a \in acks :
    /\ shipments[a[3]] # NoRow
    /\ shipments[a[3]].tenant = a[1] /\ shipments[a[3]].key = a[2]

(* A row keeps its tenant and its key, whatever is written to it.          *)
RowsKept ==
  \A id \in ShipmentIds :
    shipments[id] # NoRow =>
      /\ shipments'[id] # NoRow
      /\ shipments'[id].tenant = shipments[id].tenant
      /\ shipments'[id].key = shipments[id].key

LEMMA RowsKeptStep ==
  ASSUME TypeOK, NEW r \in Requests, Writes(r)
  PROVE  RowsKept
<1> USE NoValuesAssumption
<1>1. CASE UNCHANGED shipments
  BY <1>1 DEF RowsKept
<1>2. CASE RowInserted(call[r].id, call[r].s)
  BY <1>2 DEF RowsKept, RowInserted, OthersKept
<1>3. CASE RowBooked(call[r].id, call[r].leg, call[r].user.tenant)
  <2>1. LET w == shipments'[call[r].id] IN
        /\ w \in ShipmentRow
        /\ w.tenant = shipments[call[r].id].tenant /\ w.key = shipments[call[r].id].key
    BY <1>3, BookedRow DEF RowBooked
  <2> QED BY <1>3, <2>1 DEF RowsKept, RowBooked, OthersKept
<1>4. CASE RowMoved(call[r].id, call[r].next)
  BY <1>4 DEF RowsKept, RowMoved, OthersKept
<1>5. ASSUME NEW leg, NEW l, LegInserted(leg, l) PROVE RowsKept
  BY <1>1, <1>5 DEF LegInserted
<1>6. CASE LegOpened(call[r].leg, call[r].user.tenant)
  BY <1>1, <1>6 DEF LegOpened
<1> QED BY <1>1, <1>2, <1>3, <1>4, <1>5, <1>6 DEF Writes

(* The row that a step adds has a key no other row of its tenant has.      *)
LEMMA KeysUniqueStep ==
  ASSUME TypeOK, KeysUnique, NEW r \in Requests, Writes(r)
  PROVE  \A i, j \in ShipmentIds :
           /\ shipments'[i] # NoRow /\ shipments'[j] # NoRow
           /\ shipments'[i].tenant = shipments'[j].tenant
           /\ shipments'[i].key = shipments'[j].key
           => i = j
<1>1. RowsKept
  BY RowsKeptStep
<1>2. CASE \A id \in ShipmentIds : shipments'[id] # NoRow => shipments[id] # NoRow
  BY <1>1, <1>2 DEF KeysUnique, RowsKept
<1>3. CASE RowInserted(call[r].id, call[r].s)
  <2> DEFINE new == call[r].id
  <2>1. \A i \in ShipmentIds : i # new /\ shipments'[i] # NoRow =>
          /\ shipments[i] # NoRow /\ shipments'[i] = shipments[i]
          /\ ~(/\ shipments[i].tenant = shipments'[new].tenant
               /\ shipments[i].key = shipments'[new].key)
    BY <1>3 DEF RowInserted, OthersKept, FindByIdempotency
  <2> QED BY <2>1 DEF KeysUnique
<1>4. CASE UNCHANGED shipments
  BY <1>2, <1>4
<1>5. CASE RowBooked(call[r].id, call[r].leg, call[r].user.tenant)
  BY <1>2, <1>5, NoValuesAssumption DEF RowBooked, OthersKept
<1>6. CASE RowMoved(call[r].id, call[r].next)
  BY <1>2, <1>6, NoValuesAssumption DEF RowMoved, OthersKept
<1>7. ASSUME NEW leg, NEW l, LegInserted(leg, l)
      PROVE  UNCHANGED shipments
  BY <1>7 DEF LegInserted
<1>8. CASE LegOpened(call[r].leg, call[r].user.tenant)
  BY <1>4, <1>8 DEF LegOpened
<1> QED BY <1>3, <1>4, <1>5, <1>6, <1>7, <1>8 DEF Writes

(* An answer names a row that had the key before, or the row just inserted. *)
LEMMA AcksStep ==
  ASSUME TypeOK, AcksNameRows, NEW r \in Requests, HandlerStep(r), Writes(r)
  PROVE  \A a \in acks' :
           /\ shipments'[a[3]] # NoRow
           /\ shipments'[a[3]].tenant = a[1] /\ shipments'[a[3]].key = a[2]
<1> USE CargoAssumption, NoValuesAssumption
<1>1. RowsKept
  BY RowsKeptStep
<1>2. ASSUME NEW a \in acks
      PROVE  /\ shipments'[a[3]] # NoRow
             /\ shipments'[a[3]].tenant = a[1] /\ shipments'[a[3]].key = a[2]
  <2>1. a[3] \in ShipmentIds
    BY DEF TypeOK
  <2> QED BY <1>1, <2>1 DEF AcksNameRows, RowsKept
<1>3. CASE acks' = acks
  BY <1>2, <1>3
<1>4. CASE CreateFind(r) /\ acks' # acks
  <2>1. PICK u \in Users, key \in Keys \cup {NoKey} :
          /\ acks' = acks \cup {<<u.tenant, key, o>> : o \in FindByIdempotency(u.tenant, key)}
          /\ UNCHANGED shipments
    BY <1>4, ZenonT(60) DEF CreateFind, storeVars
  <2>2. \A o \in FindByIdempotency(u.tenant, key) :
          /\ shipments'[o] # NoRow
          /\ shipments'[o].tenant = u.tenant /\ shipments'[o].key = key
    BY <2>1 DEF FindByIdempotency
  <2> QED BY <1>2, <2>1, <2>2
<1>5. CASE CreateInsert(r) /\ acks' # acks
  <2>1. call[r] \in CreateCall
    BY <1>5, CallKinds DEF CreateInsert, At, TypeOK
  <2>2. /\ StoreCreateShipment(call[r].id, call[r].s)
        /\ acks' = acks \cup {<<call[r].s.tenant, call[r].s.key, call[r].id>>}
    BY <1>5 DEF CreateInsert
  <2>3. shipments'[call[r].id] = call[r].s /\ call[r].s \in ShipmentRow
    BY <2>1, <2>2 DEF StoreCreateShipment, CreateCall, TypeOK, StoreTypeOK
  <2> QED BY <1>2, <2>2, <2>3
<1>6. acks' = acks \/ CreateFind(r) \/ CreateInsert(r)
  BY ZenonT(60)
  DEF HandlerStep, CreateStep, BookStep, BookReadShipment, BookReadLeg, BookCommit,
      MoveStep, MoveReadShipment, MoveReadCustoms, MoveReadSecurity, MoveCommit,
      LegStep, CreateLeg, OpenReadLeg, OpenCommit, CustomsStep, CustomsReadShipment,
      CustomsReadCase, CustomsPut, SecurityStep, SecurityReadShipment, SecurityPut, Abort,
      historyVars
<1> QED BY <1>3, <1>4, <1>5, <1>6

-----------------------------------------------------------------------------
(* The checks.  What is on record stays, and a case or a check is on       *)
(* record as soon as it allows loading.                                    *)
LEMMA ChecksStep ==
  ASSUME TypeOK, ClearanceRecorded, NEW r \in Requests, HandlerStep(r)
  PROVE  /\ checks \subseteq checks'
         /\ \A id \in ShipmentIds :
              /\ customs'[id] # NoRow /\ CustomsAllowsLoading(customs'[id])
                   => <<id, "customs">> \in checks'
              /\ security'[id] # NoRow /\ SecurityAllowsLoading(security'[id])
                   => <<id, "security">> \in checks'
<1>1. CASE UNCHANGED <<customs, security, checks>>
  BY <1>1 DEF ClearanceRecorded
<1>2. CASE CustomsPut(r)
  <2>1. call[r] \in CustomsCall /\ call[r].id \in ShipmentIds
    BY <1>2, CallKinds DEF CustomsPut, At, TypeOK, CustomsCall
  <2>2. /\ customs'[call[r].id] = call[r].status
        /\ \A i \in ShipmentIds : i # call[r].id => customs'[i] = customs[i]
        /\ UNCHANGED security
    BY <1>2, <2>1 DEF CustomsPut, StorePutCustoms, TypeOK, StoreTypeOK
  <2>3. /\ checks \subseteq checks'
        /\ CustomsAllowsLoading(call[r].status) => <<call[r].id, "customs">> \in checks'
    BY <1>2 DEF CustomsPut
  <2> QED BY <2>2, <2>3 DEF ClearanceRecorded
<1>3. CASE SecurityPut(r)
  <2>1. call[r] \in SecurityCall /\ call[r].id \in ShipmentIds
    BY <1>3, CallKinds DEF SecurityPut, At, TypeOK, SecurityCall
  <2>2. /\ security'[call[r].id] = call[r].status
        /\ \A i \in ShipmentIds : i # call[r].id => security'[i] = security[i]
        /\ UNCHANGED customs
    BY <1>3, <2>1 DEF SecurityPut, StorePutSecurity, TypeOK, StoreTypeOK
  <2>3. /\ checks \subseteq checks'
        /\ SecurityAllowsLoading(call[r].status) => <<call[r].id, "security">> \in checks'
    BY <1>3 DEF SecurityPut
  <2> QED BY <2>2, <2>3 DEF ClearanceRecorded
<1>4. UNCHANGED <<customs, security, checks>> \/ CustomsPut(r) \/ SecurityPut(r)
  BY ZenonT(60)
  DEF HandlerStep, CreateStep, CreateFind, CreateInsert, BookStep, BookReadShipment,
      BookReadLeg, BookCommit, MoveStep, MoveReadShipment, MoveReadCustoms,
      MoveReadSecurity, MoveCommit, LegStep, CreateLeg, OpenReadLeg, OpenCommit,
      CustomsStep, CustomsReadShipment, CustomsReadCase, SecurityStep,
      SecurityReadShipment, Abort, storeVars, historyVars
<1> QED BY <1>1, <1>2, <1>3, <1>4

(* A status a shipment takes on a leg is one its checks allow.             *)
LEMMA LoadedStep ==
  ASSUME TypeOK, CallsJustified, ClearanceRecorded, LoadedNeedsClearance,
         NEW r \in Requests, HandlerStep(r), Writes(r), NEW id \in ShipmentIds,
         shipments'[id] # NoRow, shipments'[id].leg # NoLeg,
         shipments'[id].status \in {"loaded", "departed"}
  PROVE  {<<id, "customs">>, <<id, "security">>} \subseteq checks'
<1> DEFINE c == call[r]
<1>1. checks \subseteq checks'
  BY ChecksStep
<1>2. Justified(c, shipments, checks)
  BY DEF CallsJustified
<1>3. CASE shipments'[id] = shipments[id]
  BY <1>1, <1>3 DEF LoadedNeedsClearance
<1>4. CASE At(r, "create") /\ RowInserted(c.id, c.s) /\ id = c.id
  BY <1>2, <1>4 DEF Justified, RowInserted, At
<1>5. CASE RowBooked(c.id, c.leg, c.user.tenant) /\ id = c.id
  <2>1. shipments'[id].status = "booked"
    BY <1>5, BookedRow DEF RowBooked
  <2> QED BY <2>1
<1>6. CASE /\ At(r, "move.commit") /\ RowMoved(c.id, c.next) /\ shipments[c.id] = c.s
           /\ id = c.id
  <2>1. NeedsClearance(c.s, c.next)
    BY <1>6 DEF RowMoved, NeedsClearance
  <2> QED BY <1>1, <1>2, <1>6, <2>1 DEF Justified, At
<1> QED
  BY <1>3, <1>4, <1>5, <1>6
  DEF Writes, RowInserted, RowBooked, RowMoved, LegInserted, LegOpened, OthersKept

-----------------------------------------------------------------------------
(* The inductive invariant of the handlers.  LoadedNeedsClearance alone is *)
(* not inductive: a transition acts on reads it made before, so what those *)
(* reads said must be known of the handler (CallsJustified) and of the     *)
(* tables they read (ClearanceRecorded); IdempotentCreate needs the        *)
(* uniqueness of all keys, answered or not.                                *)
CargoInv ==
  /\ TypeOK /\ VersionIdentifiesRow /\ MovesLegal
  /\ CallsJustified /\ ClearanceRecorded /\ LoadedNeedsClearance
  /\ KeysUnique /\ AcksNameRows

LEMMA CargoInit == Init => CargoInv
<1> SUFFICES ASSUME Init PROVE CargoInv
  OBVIOUS
<1>1. TypeOK /\ VersionIdentifiesRow /\ MovesLegal
  BY BookingInit DEF BookingInv
<1>2. CallsJustified
  BY DEF Init, CallsJustified, Justified, Idle, Moving
<1> QED
  BY <1>1, <1>2 DEF Init, StoreInit, CargoInv, ClearanceRecorded, LoadedNeedsClearance,
                    KeysUnique, AcksNameRows

LEMMA CargoStep == CargoInv /\ [Next]_vars => CargoInv'
<1> SUFFICES ASSUME CargoInv, [Next]_vars PROVE CargoInv'
  OBVIOUS
<1>1. TypeOK' /\ VersionIdentifiesRow' /\ MovesLegal'
  BY TypeOKStep, VersionStep, MovesLegalStep DEF CargoInv
<1>2. CASE UNCHANGED vars
  <2> USE <1>2 DEF vars, storeVars, historyVars, CargoInv
  <2>1. CallsJustified'
    BY DEF CallsJustified, Justified, Moving
  <2>2. ClearanceRecorded' /\ LoadedNeedsClearance'
    BY DEF ClearanceRecorded, LoadedNeedsClearance
  <2>3. KeysUnique' /\ AcksNameRows'
    BY DEF KeysUnique, AcksNameRows
  <2> QED BY <1>1, <2>1, <2>2, <2>3
<1>3. CASE Next
  <2>1. PICK r \in Requests : HandlerStep(r)
    BY <1>3 DEF Next, HandlerStep
  <2>2. Writes(r)
    BY <2>1, WritesStep DEF CargoInv
  <2>3. RowsKept
    BY <2>2, RowsKeptStep DEF CargoInv
  <2>4. /\ checks \subseteq checks'
        /\ \A id \in ShipmentIds :
             /\ customs'[id] # NoRow /\ CustomsAllowsLoading(customs'[id])
                  => <<id, "customs">> \in checks'
             /\ security'[id] # NoRow /\ SecurityAllowsLoading(security'[id])
                  => <<id, "security">> \in checks'
    BY <2>1, ChecksStep DEF CargoInv
  <2>5. \A q \in Requests : Justified(call'[q], shipments, checks)
    BY <2>1, JustifiedStep DEF CargoInv, CallsJustified
  <2>6. \A q \in Requests : Justified(call'[q], shipments', checks')
    <3> SUFFICES ASSUME NEW q \in Requests PROVE Justified(call'[q], shipments', checks')
      OBVIOUS
    <3> DEFINE c == call'[q]
    <3>1. c \in Call
      BY <1>1 DEF TypeOK
    <3>2. c.pc \in {"customs.read", "customs.put", "security.put"} =>
            shipments'[c.id] # NoRow /\ shipments'[c.id].tenant = c.user.tenant
      <4> SUFFICES ASSUME c.pc \in {"customs.read", "customs.put", "security.put"}
                   PROVE  shipments'[c.id] # NoRow /\ shipments'[c.id].tenant = c.user.tenant
        OBVIOUS
      <4>1. c.id \in ShipmentIds
        BY <3>1, CallKinds DEF CustomsCall, SecurityCall
      <4>2. shipments[c.id] # NoRow /\ shipments[c.id].tenant = c.user.tenant
        BY <2>5 DEF Justified
      <4> QED BY <2>3, <4>1, <4>2 DEF RowsKept
    <3> QED BY <2>4, <2>5, <3>2 DEF Justified
  <2>7. CallsJustified'
    BY <2>6 DEF CallsJustified, Justified, Moving
  <2>8. ClearanceRecorded'
    BY <2>4 DEF ClearanceRecorded
  <2>9. LoadedNeedsClearance'
    BY <2>1, <2>2, LoadedStep DEF CargoInv, LoadedNeedsClearance
  <2>10. KeysUnique'
    BY <2>2, KeysUniqueStep DEF CargoInv, KeysUnique
  <2>11. AcksNameRows'
    BY <2>1, <2>2, AcksStep DEF CargoInv, AcksNameRows
  <2> QED BY <1>1, <2>7, <2>8, <2>9, <2>10, <2>11 DEF CargoInv
<1> QED BY <1>2, <1>3

LEMMA CargoAlways == Spec => []CargoInv
BY CargoInit, CargoStep, PTL DEF Spec

(* TransitionShipment loads a shipment on a leg, and lets it depart, only  *)
(* after its case was released and its check passed, whatever PutCustoms   *)
(* and PutSecurity write between its reads and its write.                  *)
THEOREM ClearanceComesFirst == Spec => []LoadedNeedsClearance
<1>1. CargoInv => LoadedNeedsClearance
  BY DEF CargoInv
<1> QED BY <1>1, CargoAlways, PTL

(* CreateShipment answers one shipment per tenant and idempotency key,     *)
(* however many creates with the key race, fail or are retried.            *)
THEOREM CreatesAreIdempotent == Spec => []IdempotentCreate
<1>1. CargoInv => IdempotentCreate
  <2> SUFFICES ASSUME CargoInv PROVE IdempotentCreate
    OBVIOUS
  <2>1. ASSUME NEW a \in acks
        PROVE  /\ a[3] \in ShipmentIds
               /\ FindByIdempotency(a[1], a[2]) = {a[3]}
    <3>1. a[3] \in ShipmentIds
      BY DEF CargoInv, TypeOK
    <3> QED BY <3>1 DEF CargoInv, AcksNameRows, KeysUnique, FindByIdempotency
  <2>2. ASSUME NEW a \in acks, NEW b \in acks, a[1] = b[1], a[2] = b[2]
        PROVE  a[3] = b[3]
    BY <2>1, <2>2
  <2> QED BY <2>1, <2>2 DEF IdempotentCreate
<1> QED BY <1>1, CargoAlways, PTL

-----------------------------------------------------------------------------
(* Tenants.  What a handler's step writes belongs to its user's tenant: it *)
(* checked that itself, or read the row through a query that did.          *)
LEMMA TenantStep ==
  ASSUME CargoInv, NEW r \in Requests, HandlerStep(r), call[r].pc # "idle"
  PROVE  LET tenant == call[r].user.tenant IN
         /\ \A id \in ShipmentIds :
              (\/ shipments'[id] # shipments[id]
               \/ customs'[id] # customs[id]
               \/ security'[id] # security[id])
              => shipments'[id].tenant = tenant
         /\ \A id \in LegIds :
              legs'[id] # legs[id] => legs'[id].tenant = tenant
<1> USE CargoAssumption, NoValuesAssumption
<1> DEFINE c == call[r]
           tenant == c.user.tenant
<1>1. TypeOK /\ c \in Call /\ Justified(c, shipments, checks)
  BY DEF CargoInv, TypeOK, CallsJustified
<1>2. Writes(r)
  BY WritesStep DEF CargoInv
<1>3. ASSUME NEW id \in ShipmentIds, shipments'[id] # shipments[id]
      PROVE  shipments'[id].tenant = tenant
  <2>1. CASE At(r, "create") /\ RowInserted(c.id, c.s)
    BY <1>1, <1>3, <2>1 DEF Justified, RowInserted, OthersKept, At
  <2>2. CASE RowBooked(c.id, c.leg, tenant)
    <3>1. shipments'[c.id].tenant = shipments[c.id].tenant
      BY <2>2, BookedRow DEF RowBooked
    <3> QED BY <1>3, <2>2, <3>1 DEF RowBooked, OthersKept
  <2>3. CASE At(r, "move.commit") /\ RowMoved(c.id, c.next) /\ shipments[c.id] = c.s
    BY <1>1, <1>3, <2>3 DEF Justified, Moving, RowMoved, OthersKept, At
  <2> QED BY <1>2, <1>3, <2>1, <2>2, <2>3 DEF Writes, LegInserted, LegOpened
<1>4. ASSUME NEW leg \in LegIds, legs'[leg] # legs[leg]
      PROVE  legs'[leg].tenant = tenant
  <2>1. CASE RowBooked(c.id, c.leg, tenant)
    <3>1. shipments[c.id].weight \in Nat
      BY <2>1 DEF RowBooked, ShipmentRow
    <3>2. legs'[c.leg].tenant = legs[c.leg].tenant
      BY <2>1, <3>1, ReservedRow DEF RowBooked
    <3> QED BY <1>4, <2>1, <3>2 DEF RowBooked, OtherLegsKept
  <2>2. CASE LegOpened(c.leg, tenant)
    <3>1. legs'[c.leg].tenant = legs[c.leg].tenant
      BY <2>2, OpenedRow DEF LegOpened
    <3> QED BY <1>4, <2>2, <3>1 DEF LegOpened, OtherLegsKept
  <2> QED BY <1>2, <1>4, <2>1, <2>2 DEF Writes, RowInserted, RowMoved, At
<1>5. ASSUME NEW id \in ShipmentIds, customs'[id] # customs[id] \/ security'[id] # security[id]
      PROVE  shipments'[id].tenant = tenant
  <2>1. CustomsPut(r) \/ SecurityPut(r)
    BY <1>5, ZenonT(60)
    DEF HandlerStep, CreateStep, CreateFind, CreateInsert, BookStep, BookReadShipment,
        BookReadLeg, BookCommit, MoveStep, MoveReadShipment, MoveReadCustoms,
        MoveReadSecurity, MoveCommit, LegStep, CreateLeg, OpenReadLeg, OpenCommit,
        CustomsStep, CustomsReadShipment, CustomsReadCase, SecurityStep,
        SecurityReadShipment, Abort, storeVars, historyVars
  <2>2. c.pc \in {"customs.put", "security.put"} /\ UNCHANGED shipments
    BY <2>1 DEF CustomsPut, SecurityPut, At
  <2>3. id = c.id
    BY <1>1, <1>5, <2>1
    DEF CustomsPut, SecurityPut, StorePutCustoms, StorePutSecurity, TypeOK, StoreTypeOK
  <2> QED BY <1>1, <2>2, <2>3 DEF Justified
<1> QED BY <1>3, <1>4, <1>5

(* A handler never changes what belongs to another tenant, also when the   *)
(* step that changes it comes long after the one that checked the tenant.  *)
THEOREM TenantsAreIsolated == Spec => TenantIsolation
<1>1. ASSUME CargoInv, Next
      PROVE  \A r \in Requests :
               call[r] # call'[r] /\ call[r].pc # "idle" =>
                 LET tenant == call[r].user.tenant IN
                 /\ \A id \in ShipmentIds :
                      (\/ shipments'[id] # shipments[id]
                       \/ customs'[id] # customs[id]
                       \/ security'[id] # security[id])
                      => shipments'[id].tenant = tenant
                 /\ \A id \in LegIds :
                      legs'[id] # legs[id] => legs'[id].tenant = tenant
  <2> SUFFICES ASSUME NEW r \in Requests, call[r] # call'[r], call[r].pc # "idle"
               PROVE  HandlerStep(r)
    BY <1>1, TenantStep
  <2>1. PICK q \in Requests : HandlerStep(q)
    BY <1>1 DEF Next, HandlerStep
  <2>2. q = r
    BY <1>1, <2>1, JustifiedStep DEF CargoInv
  <2> QED BY <2>1, <2>2
<1> QED BY <1>1, CargoAlways, PTL DEF Spec, TenantIsolation

-----------------------------------------------------------------------------
(* The refinement: what a step writes is one operation of AtomicCargo on   *)
(* the rows without their keys and versions, or nothing of them.           *)

LEMMA ParcelIsRow ==
  ASSUME NEW s \in ShipmentRow
  PROVE  /\ Parcel(s) # NoRow
         /\ Parcel(s) = [tenant |-> s.tenant, route |-> s.route, weight |-> s.weight,
                         status |-> s.status, leg |-> s.leg]
BY RefinementAssumption, NoValuesAssumption DEF Parcel, ShipmentRow

LEMMA FlightIsRow ==
  ASSUME NEW l \in LegRow
  PROVE  /\ Flight(l) # NoRow
         /\ Flight(l) = [tenant |-> l.tenant, route |-> l.route, capacity |-> l.capacity,
                         reserved |-> l.reserved, status |-> l.status]
BY RefinementAssumption, NoValuesAssumption DEF Flight, LegRow

(* The mapped tables after a step that writes one row of each, or of one.  *)
LEMMA ParcelsWritten ==
  ASSUME NEW id \in ShipmentIds, NEW p, Parcel(shipments'[id]) = p, OthersKept(id)
  PROVE  [i \in ShipmentIds |-> Parcel(shipments'[i])]
           = [[i \in ShipmentIds |-> Parcel(shipments[i])] EXCEPT ![id] = p]
BY DEF OthersKept

LEMMA FlightsWritten ==
  ASSUME NEW leg \in LegIds, NEW f, Flight(legs'[leg]) = f, OtherLegsKept(leg)
  PROVE  [k \in LegIds |-> Flight(legs'[k])]
           = [[k \in LegIds |-> Flight(legs[k])] EXCEPT ![leg] = f]
BY DEF OtherLegsKept

LEMMA RefinementInit == Init => Atomic!AtomicInit
BY DEF Init, StoreInit, Atomic!AtomicInit, Parcel, Flight

(* A create inserts a valid draft.                                         *)
LEMMA CreateRefines ==
  ASSUME NEW id, NEW s, RowInserted(id, s), TypeOK,
         s.status = "draft", s.weight \in Weights, ValidateShipment(s.route, s.weight)
  PROVE  Atomic!AtomicNext
<1> USE CargoAssumption, NoValuesAssumption
<1>1. id \in ShipmentIds /\ s \in ShipmentRow /\ shipments[id] = NoRow /\ shipments'[id] = s
  BY DEF RowInserted
<1>2. /\ Parcel(s) \in Atomic!NewParcels
      /\ Parcel(s).weight > 0 /\ Parcel(s).route[1] # Parcel(s).route[2]
      /\ Parcel(s).leg = s.leg
  BY <1>1, ParcelIsRow DEF ValidateShipment, Atomic!NewParcels, ShipmentRow
<1>3. s.leg # NoLeg => s.leg \in LegIds /\ Flight(legs[s.leg]) # NoRow
  <2> SUFFICES ASSUME s.leg # NoLeg PROVE s.leg \in LegIds /\ Flight(legs[s.leg]) # NoRow
    OBVIOUS
  <2>1. s.leg \in LegIds /\ legs[s.leg] \in LegRow
    BY <1>1 DEF RowInserted, ShipmentRow, TypeOK, StoreTypeOK
  <2> QED BY <2>1, FlightIsRow
<1>4. Atomic!AtomicCreate(id, Parcel(s))
  <2>1. [i \in ShipmentIds |-> Parcel(shipments'[i])]
          = [[i \in ShipmentIds |-> Parcel(shipments[i])] EXCEPT ![id] = Parcel(s)]
    BY <1>1, ParcelsWritten DEF RowInserted
  <2>2. Parcel(shipments[id]) = NoRow
    BY <1>1 DEF Parcel
  <2>3. legs' = legs
    BY DEF RowInserted
  <2> QED BY <1>1, <1>2, <1>3, <2>1, <2>2, <2>3 DEF Atomic!AtomicCreate
<1> QED BY <1>1, <1>2, <1>4 DEF Atomic!AtomicNext

(* A booking finds a draft and an open leg with room for it.               *)
LEMMA BookRefines ==
  ASSUME NEW id, NEW leg, NEW tenant, RowBooked(id, leg, tenant)
  PROVE  Atomic!AtomicNext
<1> DEFINE s == shipments[id]
           l == legs[leg]
           p == Parcel(s)
           f == Flight(l)
<1>1. id \in ShipmentIds /\ s \in ShipmentRow /\ leg \in LegIds /\ l \in LegRow
  BY DEF RowBooked
<1>2. /\ p # NoRow
      /\ p = [tenant |-> s.tenant, route |-> s.route, weight |-> s.weight,
              status |-> s.status, leg |-> s.leg]
      /\ f # NoRow
      /\ f = [tenant |-> l.tenant, route |-> l.route, capacity |-> l.capacity,
              reserved |-> l.reserved, status |-> l.status]
  BY <1>1, ParcelIsRow, FlightIsRow
<1>3. Parcel(shipments'[id]) = [p EXCEPT !.status = "booked", !.leg = leg]
  <2> DEFINE w == BookedShipment(s, leg)
  <2>1. /\ w \in ShipmentRow
        /\ w.status = "booked" /\ w.leg = leg
        /\ w.tenant = s.tenant /\ w.route = s.route /\ w.weight = s.weight
    BY <1>1, BookedRow
  <2> HIDE DEF w
  <2>2. Parcel(w) = [tenant |-> s.tenant, route |-> s.route, weight |-> s.weight,
                     status |-> "booked", leg |-> leg]
    BY <2>1, ParcelIsRow
  <2>3. shipments'[id] = w
    BY DEF RowBooked, w
  <2> DEFINE q == [tenant |-> s.tenant, route |-> s.route, weight |-> s.weight,
                   status |-> "booked", leg |-> s.leg]
  <2>4. [p EXCEPT !.status = "booked"] = q
    BY <1>2
  <2>5. [q EXCEPT !.leg = leg] = [tenant |-> s.tenant, route |-> s.route,
                                  weight |-> s.weight, status |-> "booked", leg |-> leg]
    OBVIOUS
  <2> HIDE DEF q, p
  <2>6. [p EXCEPT !.status = "booked", !.leg = leg] = [q EXCEPT !.leg = leg]
    BY <2>4
  <2> QED BY <2>2, <2>3, <2>5, <2>6
<1>4. Flight(legs'[leg]) = [f EXCEPT !.reserved = @ + p.weight]
  <2> DEFINE w == ReservedLeg(l, s.weight)
  <2>1. /\ w \in LegRow /\ s.weight \in Nat
        /\ w.reserved = l.reserved + s.weight
        /\ w.tenant = l.tenant /\ w.route = l.route /\ w.capacity = l.capacity
        /\ w.status = l.status
    BY <1>1, ReservedRow DEF ShipmentRow
  <2> HIDE DEF w
  <2>2. Flight(w) = [tenant |-> l.tenant, route |-> l.route, capacity |-> l.capacity,
                     reserved |-> l.reserved + s.weight, status |-> l.status]
    BY <2>1, FlightIsRow
  <2>3. legs'[leg] = w
    BY DEF RowBooked, w
  <2> QED BY <1>2, <2>2, <2>3
<1>5. Atomic!AtomicBook(id, leg)
  <2>1. /\ p.tenant = f.tenant /\ p.route = f.route
        /\ p.status = "draft" /\ f.status = "open"
        /\ f.reserved + p.weight <= f.capacity
    BY <1>2 DEF RowBooked
  <2>2. [i \in ShipmentIds |-> Parcel(shipments'[i])]
          = [[i \in ShipmentIds |-> Parcel(shipments[i])] EXCEPT
               ![id] = [p EXCEPT !.status = "booked", !.leg = leg]]
    BY <1>1, <1>3, ParcelsWritten DEF RowBooked
  <2>3. [k \in LegIds |-> Flight(legs'[k])]
          = [[k \in LegIds |-> Flight(legs[k])] EXCEPT ![leg].reserved = @ + p.weight]
    <3>1. [k \in LegIds |-> Flight(legs'[k])]
            = [[k \in LegIds |-> Flight(legs[k])] EXCEPT
                 ![leg] = [f EXCEPT !.reserved = @ + p.weight]]
      BY <1>1, <1>4, FlightsWritten DEF RowBooked
    <3> QED BY <1>1, <3>1
  <2> QED BY <1>1, <1>2, <2>1, <2>2, <2>3 DEF Atomic!AtomicBook
<1> QED BY <1>1, <1>5 DEF Atomic!AtomicNext

(* A transition is a legal move of the status the shipment then has.       *)
LEMMA MoveRefines ==
  ASSUME NEW id, NEW next, RowMoved(id, next)
  PROVE  Atomic!AtomicNext
<1> DEFINE s == shipments[id]
           p == Parcel(s)
<1>1. /\ id \in ShipmentIds /\ s \in ShipmentRow /\ shipments'[id] \in ShipmentRow
      /\ next \in ShipmentStatus /\ legs' = legs
  BY DEF RowMoved
<1>2. /\ p # NoRow
      /\ p = [tenant |-> s.tenant, route |-> s.route, weight |-> s.weight,
              status |-> s.status, leg |-> s.leg]
  BY <1>1, ParcelIsRow
<1>3. Parcel(shipments'[id]) = [p EXCEPT !.status = next]
  <2>1. Parcel(shipments'[id]) = [tenant |-> s.tenant, route |-> s.route,
                                  weight |-> s.weight, status |-> next, leg |-> s.leg]
    BY <1>1, ParcelIsRow DEF RowMoved
  <2> QED BY <1>2, <2>1
<1>4. Atomic!AtomicMove(id, next)
  <2>1. ShipmentCanTransition(p.status, next)
    BY <1>2 DEF RowMoved
  <2>2. [i \in ShipmentIds |-> Parcel(shipments'[i])]
          = [[i \in ShipmentIds |-> Parcel(shipments[i])] EXCEPT ![id].status = next]
    <3>1. [i \in ShipmentIds |-> Parcel(shipments'[i])]
            = [[i \in ShipmentIds |-> Parcel(shipments[i])] EXCEPT
                 ![id] = [p EXCEPT !.status = next]]
      BY <1>1, <1>3, ParcelsWritten DEF RowMoved
    <3> QED BY <1>1, <3>1
  <2> QED BY <1>1, <1>2, <2>1, <2>2
          DEF Atomic!AtomicMove, Atomic!ShipmentCanTransition, ShipmentCanTransition,
              Atomic!ShipmentMoves, ShipmentMoves
<1> QED BY <1>1, <1>4 DEF Atomic!AtomicNext, Atomic!ShipmentStatus, ShipmentStatus

LEMMA CreateLegRefines ==
  ASSUME NEW leg, NEW l, LegInserted(leg, l)
  PROVE  Atomic!AtomicNext
<1>1. leg \in LegIds /\ l \in LegRow /\ legs[leg] = NoRow /\ legs'[leg] = l
  BY DEF LegInserted
<1>2. /\ Flight(l) \in Atomic!NewFlights
      /\ Flight(l).capacity > 0 /\ Flight(l).reserved >= 0
  BY <1>1, FlightIsRow DEF LegInserted, Atomic!NewFlights, LegRow
<1>3. Atomic!AtomicCreateLeg(leg, Flight(l))
  <2>1. [k \in LegIds |-> Flight(legs'[k])]
          = [[k \in LegIds |-> Flight(legs[k])] EXCEPT ![leg] = Flight(l)]
    BY <1>1, FlightsWritten DEF LegInserted
  <2>2. Flight(legs[leg]) = NoRow
    BY <1>1 DEF Flight
  <2>3. shipments' = shipments
    BY DEF LegInserted
  <2> QED BY <1>1, <1>2, <2>1, <2>2, <2>3 DEF Atomic!AtomicCreateLeg
<1> QED BY <1>1, <1>2, <1>3 DEF Atomic!AtomicNext

LEMMA OpenRefines ==
  ASSUME NEW leg, NEW tenant, LegOpened(leg, tenant)
  PROVE  Atomic!AtomicNext
<1> DEFINE l == legs[leg]
           f == Flight(l)
<1>1. leg \in LegIds /\ l \in LegRow /\ shipments' = shipments
  BY DEF LegOpened
<1>2. /\ f # NoRow
      /\ f = [tenant |-> l.tenant, route |-> l.route, capacity |-> l.capacity,
              reserved |-> l.reserved, status |-> l.status]
  BY <1>1, FlightIsRow
<1>3. Flight(legs'[leg]) = [f EXCEPT !.status = "open"]
  <2> DEFINE w == OpenedLeg(l, "open")
  <2>1. /\ w \in LegRow /\ w.status = "open"
        /\ w.tenant = l.tenant /\ w.route = l.route /\ w.capacity = l.capacity
        /\ w.reserved = l.reserved
    BY <1>1, OpenedRow
  <2> HIDE DEF w
  <2>2. Flight(w) = [tenant |-> l.tenant, route |-> l.route, capacity |-> l.capacity,
                     reserved |-> l.reserved, status |-> "open"]
    BY <2>1, FlightIsRow
  <2>3. legs'[leg] = w
    BY DEF LegOpened, w
  <2> QED BY <1>2, <2>2, <2>3
<1>4. [k \in LegIds |-> Flight(legs'[k])]
        = [[k \in LegIds |-> Flight(legs[k])] EXCEPT ![leg].status = "open"]
  <2>1. [k \in LegIds |-> Flight(legs'[k])]
          = [[k \in LegIds |-> Flight(legs[k])] EXCEPT ![leg] = [f EXCEPT !.status = "open"]]
    BY <1>1, <1>3, FlightsWritten DEF LegOpened
  <2> QED BY <1>1, <2>1
<1>5. Atomic!AtomicOpen(leg)
  BY <1>1, <1>2, <1>4 DEF Atomic!AtomicOpen
<1> QED BY <1>1, <1>5 DEF Atomic!AtomicNext

LEMMA RefinementStep ==
  CargoInv /\ [Next]_vars => [Atomic!AtomicNext]_(Atomic!atomicVars)
<1> SUFFICES ASSUME CargoInv, [Next]_vars
             PROVE  Atomic!AtomicNext \/ UNCHANGED Atomic!atomicVars
  OBVIOUS
<1>1. CASE UNCHANGED <<shipments, legs>>
  BY <1>1 DEF Atomic!atomicVars
<1>2. CASE ~UNCHANGED <<shipments, legs>>
  <2>1. PICK r \in Requests : HandlerStep(r)
    BY <1>2 DEF Next, HandlerStep, vars, storeVars
  <2>2. Writes(r)
    BY <2>1, WritesStep DEF CargoInv
  <2>3. TypeOK /\ Justified(call[r], shipments, checks)
    BY DEF CargoInv, CallsJustified
  <2>4. CASE At(r, "create") /\ RowInserted(call[r].id, call[r].s)
    BY <2>3, <2>4, CreateRefines DEF Justified, At
  <2> QED BY <1>2, <2>2, <2>4, BookRefines, MoveRefines, CreateLegRefines, OpenRefines
          DEF Writes
<1> QED BY <1>1, <1>2

(* The handlers implement AtomicCargo: although they hold no lock between  *)
(* their reads and their write, each write is the whole operation made at  *)
(* once, for every number of requests, shipments and legs.                 *)
THEOREM HandlersAreAtomic == Spec => ImplementsAtomic
BY RefinementInit, RefinementStep, CargoAlways, PTL
DEF Spec, ImplementsAtomic, Atomic!AtomicSpec

-----------------------------------------------------------------------------
(* Accounting.  WeightOf is a sum of SetLemmas.                            *)

LEMMA WeightOfIsSum ==
  ASSUME NEW table, NEW ids, IsFiniteSet(ids)
  PROVE  \E g : /\ IsSum(g, [id \in ids |-> table[id].weight], ids)
                /\ WeightOf(table, ids) = g[ids]
<1> DEFINE w == [id \in ids |-> table[id].weight]
           Eq(g) == g = [s \in SUBSET ids |->
                           IF s = {} THEN 0
                           ELSE table[Pick(s)].weight + g[s \ {Pick(s)}]]
           it == CHOOSE g : Eq(g)
<1>1. \A g : Eq(g) <=> IsSum(g, w, ids)
  <2>1. \A s \in SUBSET ids : s # {} => w[Pick(s)] = table[Pick(s)].weight
    <3>1. \A s \in SUBSET ids : s # {} => Pick(s) \in ids
      BY Picked
    <3> QED BY <3>1
  <2> HIDE DEF w
  <2> QED BY <2>1 DEF IsSum
<1>2. \E g : Eq(g)
  BY <1>1, SumExists
<1>3. Eq(it)
  BY <1>2
<1>4. WeightOf(table, ids) = it[ids]
  BY DEF WeightOf, MapThenSumSet, MapThenFoldSet, Pick
<1> HIDE DEF it, Eq, w
<1>5. IsSum(it, w, ids)
  BY <1>1, <1>3
<1> QED BY <1>4, <1>5 DEF w

LEMMA WeightOfNone == ASSUME NEW table PROVE WeightOf(table, {}) = 0
<1>1. PICK g : /\ IsSum(g, [id \in {} |-> table[id].weight], {})
               /\ WeightOf(table, {}) = g[{}]
  BY WeightOfIsSum, FS_EmptySet
<1> QED BY <1>1, SumOne

LEMMA WeightOfType ==
  ASSUME NEW table, NEW ids, IsFiniteSet(ids), \A id \in ids : table[id].weight \in Int
  PROVE  WeightOf(table, ids) \in Int
<1> DEFINE w == [id \in ids |-> table[id].weight]
<1>1. PICK g : IsSum(g, w, ids) /\ WeightOf(table, ids) = g[ids]
  BY WeightOfIsSum
<1>2. \A id \in ids : w[id] \in Int
  OBVIOUS
<1> HIDE DEF w
<1>3. ids \in SUBSET ids
  OBVIOUS
<1> QED BY <1>1, <1>2, <1>3, SumType

(* Tables that agree on the weights of some shipments give them the same   *)
(* weight together.                                                        *)
LEMMA WeightOfSame ==
  ASSUME NEW table, NEW table2, NEW ids, IsFiniteSet(ids),
         \A id \in ids : table[id].weight = table2[id].weight
  PROVE  WeightOf(table, ids) = WeightOf(table2, ids)
<1> DEFINE w == [id \in ids |-> table[id].weight]
           v == [id \in ids |-> table2[id].weight]
<1>1. PICK g : IsSum(g, w, ids) /\ WeightOf(table, ids) = g[ids]
  BY WeightOfIsSum
<1>2. PICK h : IsSum(h, v, ids) /\ WeightOf(table2, ids) = h[ids]
  BY WeightOfIsSum
<1>3. \A id \in ids : w[id] = v[id]
  OBVIOUS
<1> HIDE DEF w, v
<1>4. g[ids] = h[ids]
  BY <1>1, <1>2, <1>3, SumAgree
<1> QED BY <1>1, <1>2, <1>4

(* One shipment more adds its weight.                                      *)
LEMMA WeightOfMore ==
  ASSUME NEW table, NEW ids, IsFiniteSet(ids), NEW new, new \notin ids,
         \A id \in ids \cup {new} : table[id].weight \in Int
  PROVE  WeightOf(table, ids \cup {new}) = WeightOf(table, ids) + table[new].weight
<1> DEFINE all == ids \cup {new}
           w == [id \in all |-> table[id].weight]
           v == [id \in ids |-> table[id].weight]
<1>0. IsFiniteSet(all)
  BY FS_AddElement
<1>1. PICK g : IsSum(g, w, all) /\ WeightOf(table, all) = g[all]
  BY <1>0, WeightOfIsSum
<1>2. PICK h : IsSum(h, v, ids) /\ WeightOf(table, ids) = h[ids]
  BY WeightOfIsSum
<1>3. /\ \A id \in ids : w[id] = v[id]
      /\ \A id \in all : w[id] \in Int
      /\ \A id \in ids : v[id] \in Int
      /\ w[new] = table[new].weight
  OBVIOUS
<1>4. new \in all /\ all \in SUBSET all /\ ids \subseteq all /\ all \ {new} = ids
  OBVIOUS
<1> HIDE DEF w, v, all
<1>5. g[all] = w[new] + g[all \ {new}]
  BY <1>0, <1>1, <1>3, <1>4, SumSplit
<1>6. g[ids] = h[ids]
  BY <1>1, <1>2, <1>3, <1>4, SumAgree
<1>7. h[ids] \in Int
  <2>1. ids \in SUBSET ids
    OBVIOUS
  <2> QED BY <1>2, <1>3, <2>1, SumType
<1>8. WeightOf(table, all) = w[new] + h[ids] /\ w[new] \in Int
  BY <1>1, <1>3, <1>4, <1>5, <1>6
<1> QED BY <1>2, <1>3, <1>7, <1>8 DEF all

(* A step that books nothing leaves every weight and every reservation as  *)
(* it is; a new leg has a reservation its client chose.                    *)
WeightsKept ==
  /\ UNCHANGED bookedOn
  /\ \A id \in ShipmentIds :
       shipments[id] # NoRow => shipments'[id].weight = shipments[id].weight
  /\ \A leg \in LegIds :
       /\ legs[leg] # NoRow => legs'[leg].reserved = legs[leg].reserved
       /\ legs[leg] = NoRow /\ legs'[leg] # NoRow => legs'[leg].reserved \in Reserves

Booked(id, leg, tenant) ==
  /\ RowBooked(id, leg, tenant)
  /\ bookedOn' = [bookedOn EXCEPT ![id] = leg]

LEMMA BookedRowChanges ==
  ASSUME TypeOK, NEW id, NEW leg, NEW tenant, RowBooked(id, leg, tenant)
  PROVE  shipments' # shipments
<1>1. shipments[id] \in ShipmentRow /\ shipments'[id] = BookedShipment(shipments[id], leg)
      /\ leg \in LegIds
  BY DEF RowBooked
<1>2. shipments'[id].version = shipments[id].version + 1
  BY <1>1, BookedRow
<1>3. shipments[id].version \in Nat
  BY <1>1 DEF ShipmentRow
<1> QED BY <1>2, <1>3

LEMMA AccountStep ==
  ASSUME TypeOK, VersionIdentifiesRow, MovesLegal, NEW r \in Requests, HandlerStep(r)
  PROVE  WeightsKept \/ Booked(call[r].id, call[r].leg, call[r].user.tenant)
<1> USE CargoAssumption, NoValuesAssumption
<1>w. Writes(r)
  BY WritesStep
<1>1. CASE UNCHANGED <<shipments, legs, bookedOn>>
  BY <1>1 DEF WeightsKept
<1>2. CASE BookCommit(r)
  <2>1. CASE UNCHANGED <<shipments, legs, bookedOn>>
    BY <1>1, <2>1
  <2>2. CASE /\ StoreBookShipment(call[r].user.tenant, call[r].id, call[r].leg,
                                  call[r].s.version, call[r].l.version)
             /\ bookedOn' = [bookedOn EXCEPT ![call[r].id] = call[r].leg]
    <3>1. call[r] \in BookCall /\ call[r].id \in ShipmentIds /\ call[r].leg \in LegIds
      BY <1>2, CallKinds DEF BookCommit, At, BookCall, TypeOK
    <3>2. /\ GetShipment(call[r].user.tenant, call[r].id) # NoRow
          /\ shipments'[call[r].id] = BookedShipment(shipments[call[r].id], call[r].leg)
      BY <2>2, <3>1 DEF StoreBookShipment, BookShipmentErr, TypeOK, StoreTypeOK
    <3>3. shipments[call[r].id] \in ShipmentRow
      BY <3>1, <3>2, ShipmentRead DEF TypeOK
    <3>4. shipments'[call[r].id].version = shipments[call[r].id].version + 1
      BY <3>1, <3>2, <3>3, BookedRow
    <3>5. shipments' # shipments
      BY <3>3, <3>4 DEF ShipmentRow
    <3>6. RowBooked(call[r].id, call[r].leg, call[r].user.tenant)
      BY <1>2, <1>w, <3>5 DEF Writes, BookCommit, At
    <3> QED BY <2>2, <3>6 DEF Booked
  <2> QED BY <1>2, <2>1, <2>2 DEF BookCommit
<1>3. CASE ~BookCommit(r)
  <2>1. UNCHANGED bookedOn
    BY <1>3, ZenonT(60) DEF HandlerStep, CreateStep, BookStep, MoveStep, LegStep,
       CreateFind, CreateInsert, BookReadShipment, BookReadLeg, MoveReadShipment,
       MoveReadCustoms, MoveReadSecurity, MoveCommit, CreateLeg, OpenReadLeg, OpenCommit,
       CustomsStep, CustomsReadShipment, CustomsReadCase, CustomsPut, SecurityStep,
       SecurityReadShipment, SecurityPut, Abort, historyVars
  <2>2. At(r, "book.commit") => UNCHANGED <<shipments, legs>>
    <3> SUFFICES ASSUME At(r, "book.commit") PROVE UNCHANGED <<shipments, legs>>
      OBVIOUS
    <3>1. Abort(r)
      BY <1>3 DEF HandlerStep, CreateStep, BookStep, MoveStep, LegStep, At,
       CreateFind, CreateInsert, BookReadShipment, BookReadLeg, MoveReadShipment,
       MoveReadCustoms, MoveReadSecurity, MoveCommit, CreateLeg, OpenReadLeg, OpenCommit,
       CustomsStep, CustomsReadShipment, CustomsReadCase, CustomsPut, SecurityStep,
       SecurityReadShipment, SecurityPut
    <3> QED BY <3>1 DEF Abort, storeVars
  <2>3. CASE UNCHANGED <<shipments, legs>>
    BY <1>1, <2>1, <2>3
  <2>4. CASE RowInserted(call[r].id, call[r].s)
    BY <2>1, <2>4 DEF RowInserted, OthersKept, WeightsKept
  <2>5. CASE RowMoved(call[r].id, call[r].next)
    BY <2>1, <2>5 DEF RowMoved, OthersKept, WeightsKept
  <2>6. ASSUME NEW leg \in LegIds, NEW l \in LegRow, LegInserted(leg, l) PROVE WeightsKept
    BY <2>1, <2>6 DEF LegInserted, OtherLegsKept, WeightsKept
  <2>7. CASE LegOpened(call[r].leg, call[r].user.tenant)
    <3>1. legs'[call[r].leg].reserved = legs[call[r].leg].reserved
      BY <2>7, OpenedRow DEF LegOpened
    <3> QED BY <2>1, <2>7, <3>1 DEF LegOpened, OtherLegsKept, WeightsKept
  <2> QED BY <1>w, <2>2, <2>3, <2>4, <2>5, <2>6, <2>7 DEF Writes
<1> QED BY <1>2, <1>3

(* Only finitely many shipments are ever booked on a leg, whatever the set *)
(* of identifiers is, so their weights have a sum.                         *)
AccountInv ==
  /\ BookingInv
  /\ \A leg \in LegIds : IsFiniteSet(OnLeg(leg))
  /\ ReservationAccounting

LEMMA AccountInit == Init => AccountInv
<1> SUFFICES ASSUME Init PROVE AccountInv
  OBVIOUS
<1>1. \A leg \in LegIds : OnLeg(leg) = {}
  BY NoValuesAssumption DEF Init, OnLeg
<1>2. \A leg \in LegIds : IsFiniteSet(OnLeg(leg))
  BY <1>1, FS_EmptySet
<1>3. ReservationAccounting
  BY DEF Init, StoreInit, ReservationAccounting
<1> QED BY <1>2, <1>3, BookingInit DEF AccountInv

LEMMA AccountInvStep == AccountInv /\ [Next]_vars => AccountInv'
<1> SUFFICES ASSUME AccountInv, [Next]_vars PROVE AccountInv'
  OBVIOUS
<1> USE CargoAssumption, NoValuesAssumption
<1>a. BookingInv /\ BookingInv'
  BY BookingStep DEF AccountInv
<1>b. \A id \in ShipmentIds : shipments[id] # NoRow =>
        shipments[id] \in ShipmentRow /\ shipments[id].weight \in Int
  BY <1>a DEF BookingInv, TypeOK, StoreTypeOK, ShipmentRow
<1> SUFFICES ASSUME NEW leg \in LegIds
             PROVE  /\ IsFiniteSet(OnLeg(leg)')
                    /\ legs'[leg] # NoRow =>
                         legs'[leg].reserved - WeightOf(shipments', OnLeg(leg)') \in Reserves
  BY <1>a DEF AccountInv, ReservationAccounting
<1>c. IsFiniteSet(OnLeg(leg)) /\ \A id \in OnLeg(leg) :
        id \in ShipmentIds /\ shipments[id] # NoRow /\ legs[leg] # NoRow /\ bookedOn[id] = leg
        /\ shipments[id].status # "draft"
  BY <1>a DEF AccountInv, OnLeg, BookingInv, BookingSticks
<1>d. legs[leg] # NoRow => legs[leg].reserved - WeightOf(shipments, OnLeg(leg)) \in Reserves
  BY DEF AccountInv, ReservationAccounting
<1>1. CASE WeightsKept
  <2>1. OnLeg(leg)' = OnLeg(leg)
    BY <1>1 DEF WeightsKept, OnLeg
  <2>2. \A id \in OnLeg(leg) : shipments'[id].weight = shipments[id].weight
    BY <1>1, <1>c DEF WeightsKept
  <2>3. WeightOf(shipments', OnLeg(leg)) = WeightOf(shipments, OnLeg(leg))
    BY <1>c, <2>2, WeightOfSame
  <2>4. CASE legs[leg] # NoRow
    <3>1. legs'[leg].reserved = legs[leg].reserved
      BY <1>1, <2>4 DEF WeightsKept
    <3> QED BY <1>c, <1>d, <2>1, <2>3, <2>4, <3>1
  <2>5. CASE legs[leg] = NoRow
    <3>1. OnLeg(leg) = {}
      BY <1>c, <2>5
    <3>2. WeightOf(shipments', OnLeg(leg)') = 0
      BY <2>1, <3>1, WeightOfNone
    <3>3. legs'[leg] # NoRow => legs'[leg].reserved \in Reserves
      BY <1>1, <2>5 DEF WeightsKept
    <3>4. \A n \in Reserves : n - 0 = n
      OBVIOUS
    <3> QED BY <1>c, <2>1, <3>2, <3>3, <3>4
  <2> QED BY <2>4, <2>5
<1>2. ASSUME NEW id, NEW on, NEW tenant, Booked(id, on, tenant)
      PROVE  /\ IsFiniteSet(OnLeg(leg)')
             /\ legs'[leg] # NoRow =>
                  legs'[leg].reserved - WeightOf(shipments', OnLeg(leg)') \in Reserves
  <2>1. /\ id \in ShipmentIds /\ shipments[id] \in ShipmentRow
        /\ on \in LegIds /\ legs[on] \in LegRow /\ shipments[id].status = "draft"
        /\ shipments'[id] = BookedShipment(shipments[id], on)
        /\ legs'[on] = ReservedLeg(legs[on], shipments[id].weight)
        /\ OthersKept(id) /\ OtherLegsKept(on)
        /\ bookedOn' = [bookedOn EXCEPT ![id] = on]
    BY <1>2 DEF Booked, RowBooked
  <2>2. /\ shipments[id].weight \in Nat
        /\ shipments'[id].weight = shipments[id].weight
        /\ legs'[on].reserved = legs[on].reserved + shipments[id].weight
        /\ legs[on].reserved \in Nat
    <3>1. shipments[id].weight \in Nat /\ legs[on].reserved \in Nat
      BY <2>1 DEF ShipmentRow, LegRow
    <3>2. shipments'[id].weight = shipments[id].weight
      BY <2>1, BookedRow
    <3>3. legs'[on].reserved = legs[on].reserved + shipments[id].weight
      <4>1. ReservedLeg(legs[on], shipments[id].weight).reserved
              = legs[on].reserved + shipments[id].weight
        BY <2>1, <3>1, ReservedRow, Zenon
      <4> QED BY <2>1, <4>1
    <3> QED BY <3>1, <3>2, <3>3
  <2>3. id \notin OnLeg(leg)
    BY <1>c, <2>1
  <2>4. \A i \in OnLeg(leg) :
          shipments'[i].weight = shipments[i].weight /\ shipments[i].weight \in Int
    BY <1>b, <1>c, <2>1, <2>3 DEF OthersKept
  <2>5. WeightOf(shipments', OnLeg(leg)) = WeightOf(shipments, OnLeg(leg))
    BY <1>c, <2>4, WeightOfSame
  <2>6. bookedOn \in [ShipmentIds -> LegIds \cup {NoLeg}]
    BY <1>a DEF BookingInv, TypeOK
  <2>7. CASE leg # on
    <3>1. OnLeg(leg)' = OnLeg(leg)
      BY <2>1, <2>3, <2>6, <2>7 DEF OnLeg
    <3>2. legs'[leg] = legs[leg]
      BY <2>1, <2>7 DEF OtherLegsKept
    <3> QED BY <1>c, <1>d, <2>5, <3>1, <3>2
  <2>8. CASE leg = on
    <3>1. OnLeg(leg)' = OnLeg(leg) \cup {id}
      BY <2>1, <2>6, <2>8 DEF OnLeg
    <3>2. \A i \in OnLeg(leg) \cup {id} : shipments'[i].weight \in Int
      BY <2>2, <2>4
    <3>3. WeightOf(shipments', OnLeg(leg) \cup {id})
            = WeightOf(shipments', OnLeg(leg)) + shipments'[id].weight
      BY <1>c, <2>3, <3>2, WeightOfMore
    <3>4. WeightOf(shipments', OnLeg(leg)) \in Int
      BY <1>c, <3>2, WeightOfType
    <3>5. legs[leg] # NoRow
      BY <2>1, <2>8
    <3>6. legs'[leg].reserved - WeightOf(shipments', OnLeg(leg) \cup {id})
            = legs[leg].reserved - WeightOf(shipments', OnLeg(leg))
      BY <2>2, <2>8, <3>3, <3>4
    <3>7. IsFiniteSet(OnLeg(leg) \cup {id})
      BY <1>c, FS_AddElement
    <3> QED BY <1>d, <2>5, <3>1, <3>5, <3>6, <3>7
  <2> QED BY <2>7, <2>8
<1>3. CASE UNCHANGED vars
  BY <1>1, <1>3 DEF vars, storeVars, historyVars, WeightsKept
<1>4. CASE Next
  <2>1. PICK r \in Requests : HandlerStep(r)
    BY <1>4 DEF Next, HandlerStep
  <2>2. WeightsKept \/ Booked(call[r].id, call[r].leg, call[r].user.tenant)
    BY <1>a, <2>1, AccountStep DEF BookingInv
  <2> QED BY <1>1, <1>2, <2>2
<1> QED BY <1>3, <1>4

(* BookShipment reserves every booked kilogram once: a leg's reserved      *)
(* weight is what it was created with plus the weights of the shipments    *)
(* booked on it, for any number of racing handlers, shipments and legs.    *)
THEOREM EveryKilogramReservedOnce == Spec => []ReservationAccounting
<1>1. AccountInv => ReservationAccounting
  BY DEF AccountInv
<1> QED BY <1>1, AccountInit, AccountInvStep, PTL DEF Spec

=============================================================================
