-------------------------------- MODULE Cargo --------------------------------
(***************************************************************************)
(* The cargo handlers of service.Application over the Postgres store.  The *)
(* handlers run concurrently, one per request; a handler holds no lock and *)
(* no transaction between its calls of the store, so each call is a step   *)
(* of its own and what the handler read earlier may be stale at the next.  *)
(*                                                                         *)
(* call[r] holds where request r's handler is and the locals it still      *)
(* needs.  A handler that returns before it changed anything (a role it    *)
(* refuses, a row it does not find, a validation error) is a disabled      *)
(* action if it is at its first call, and a return to Idle later.          *)
(***************************************************************************)
EXTENDS PostgresStore, FiniteSetsExt

CONSTANTS Requests,           \* requests in flight at the same time
          Users,              \* the authenticated users: [tenant, role]
          Weights, Capacities,
          Reserves,           \* the reserved_kg a client may give a new leg
          MoveTargets,        \* the statuses clients ask transitions to
          ReadsMayFail,       \* whether a database read may fail
          MaxLegVersion       \* bound: OpenLeg stops at this version

ASSUME CargoAssumption ==
  /\ Users \subseteq [tenant : Tenants, role : Role]
  /\ Weights \subseteq Nat /\ Capacities \subseteq Nat /\ Reserves \subseteq Int
  /\ ReadsMayFail \in BOOLEAN
  /\ MaxLegVersion \in Nat

VARIABLES
  call,       \* the handlers in flight
  acks,       \* history: <<tenant, key, id>> of the creates answered 201
  bookedOn,   \* history: the leg BookShipment put a shipment on
  checks      \* history: <<id, "customs">> once released, <<id, "security">>
              \*   once passed

historyVars == <<acks, bookedOn, checks>>
vars == <<storeVars, call, historyVars>>

-----------------------------------------------------------------------------
Idle == [pc |-> "idle"]

CreateCall   == [pc : {"create"}, user : Users, id : ShipmentIds, s : ShipmentRow]
BookLegCall  == [pc : {"book.leg"}, user : Users, id : ShipmentIds,
                 leg : LegIds, s : ShipmentRow]
BookCall     == [pc : {"book.commit"}, user : Users, id : ShipmentIds,
                 leg : LegIds, s : ShipmentRow, l : LegRow]
MoveCall     == [pc : {"move.customs", "move.security", "move.commit"},
                 user : Users, id : ShipmentIds, next : ShipmentStatus,
                 s : ShipmentRow]
OpenCall     == [pc : {"open"}, user : Users, leg : LegIds, l : LegRow]
CustomsCall  == [pc : {"customs.read", "customs.put"}, user : Users,
                 id : ShipmentIds, status : CustomsInputs]
SecurityCall == [pc : {"security.put"}, user : Users, id : ShipmentIds,
                 status : SecurityInputs]

Call == {Idle} \cup CreateCall \cup BookLegCall \cup BookCall \cup MoveCall
          \cup OpenCall \cup CustomsCall \cup SecurityCall

TypeOK ==
  /\ StoreTypeOK
  /\ call \in [Requests -> Call]
  /\ acks \subseteq Tenants \X Keys \X ShipmentIds
  /\ bookedOn \in [ShipmentIds -> LegIds \cup {NoLeg}]
  /\ checks \subseteq ShipmentIds \X {"customs", "security"}

Init ==
  /\ StoreInit
  /\ call = [r \in Requests |-> Idle]
  /\ acks = {}
  /\ bookedOn = [id \in ShipmentIds |-> NoLeg]
  /\ checks = {}

At(r, pc)     == call[r].pc = pc
Goto(r, c)    == call' = [call EXCEPT ![r] = c]
Step(r, pc)   == Goto(r, [call[r] EXCEPT !.pc = pc])
Return(r)     == Goto(r, Idle)

(* The context is cancelled, the connection lost or the process killed: the *)
(* handler ends and the database keeps what was committed.                 *)
Abort(r) ==
  /\ ~At(r, "idle")
  /\ Return(r)
  /\ UNCHANGED <<storeVars, historyVars>>

-----------------------------------------------------------------------------
(* CreateShipment: find the idempotency key, then insert.  The identifier  *)
(* and the leg come from the request body.                                 *)

NewShipment(tenant, route, weight, leg, key) ==
  [tenant |-> tenant, route |-> route, weight |-> weight, status |-> "draft",
   leg |-> leg, key |-> key, version |-> 1]

CreateFind(r) ==
  \E u \in Users, id \in ShipmentIds, route \in Routes, weight \in Weights,
     leg \in LegIds \cup {NoLeg}, key \in Keys \cup {NoKey} :
    LET old == FindByIdempotency(u.tenant, key) IN
    /\ At(r, "idle")
    /\ u.role \in {"shipper", "coordinator"}
    /\ ValidateShipment(route, weight)
    /\ \/ /\ key # NoKey /\ old # {}
          /\ acks' = acks \cup {<<u.tenant, key, o>> : o \in old}
          /\ UNCHANGED call
       \/ /\ key = NoKey \/ old = {}
          /\ Goto(r, [pc |-> "create", user |-> u, id |-> id,
                      s |-> NewShipment(u.tenant, route, weight, leg, key)])
          /\ UNCHANGED acks
    /\ UNCHANGED <<storeVars, bookedOn, checks>>

(* The answer may be lost after the row is inserted.                       *)
CreateInsert(r) ==
  /\ At(r, "create")
  /\ LET c == call[r] IN
     \/ /\ StoreCreateShipment(c.id, c.s)
        /\ \/ UNCHANGED acks
           \/ /\ c.s.key # NoKey
              /\ acks' = acks \cup {<<c.s.tenant, c.s.key, c.id>>}
     \/ /\ CreateShipmentErr(c.id, c.s) # "nil"
        /\ UNCHANGED <<shipments, acks>>
  /\ Return(r)
  /\ UNCHANGED <<legs, customs, security, bookedOn, checks>>

-----------------------------------------------------------------------------
(* BookShipment: read the shipment, read the leg and check both, then book *)
(* in one transaction.                                                     *)

BookReadShipment(r) ==
  \E u \in Users, id \in ShipmentIds, leg \in LegIds :
    /\ At(r, "idle")
    /\ u.role = "coordinator"
    /\ GetShipment(u.tenant, id) # NoRow
    /\ Goto(r, [pc |-> "book.leg", user |-> u, id |-> id, leg |-> leg,
                s |-> GetShipment(u.tenant, id)])
    /\ UNCHANGED <<storeVars, historyVars>>

BookChecks(s, l) ==
  /\ ShipmentCanTransition(s.status, "booked")
  /\ l.status = "open"
  /\ s.route = l.route

BookReadLeg(r) ==
  /\ At(r, "book.leg")
  /\ LET c == call[r]
         l == GetLeg(c.user.tenant, c.leg)
     IN \/ /\ l # NoRow /\ BookChecks(c.s, l)
           /\ Goto(r, [pc |-> "book.commit", user |-> c.user, id |-> c.id,
                       leg |-> c.leg, s |-> c.s, l |-> l])
        \/ /\ l # NoRow => ~BookChecks(c.s, l)
           /\ Return(r)
  /\ UNCHANGED <<storeVars, historyVars>>

BookCommit(r) ==
  /\ At(r, "book.commit")
  /\ LET c == call[r] IN
     \/ /\ StoreBookShipment(c.user.tenant, c.id, c.leg, c.s.version, c.l.version)
        /\ bookedOn' = [bookedOn EXCEPT ![c.id] = c.leg]
     \/ /\ BookShipmentErr(c.user.tenant, c.id, c.leg, c.s.version, c.l.version) # "nil"
        /\ UNCHANGED <<shipments, legs, bookedOn>>
  /\ Return(r)
  /\ UNCHANGED <<customs, security, acks, checks>>

-----------------------------------------------------------------------------
(* TransitionShipment: read the shipment, for loading and departure of a   *)
(* shipment with a leg read its customs case and its security check, then  *)
(* write the whole row back if its version is still the one read.          *)

NeedsClearance_LoadedOnly(s, next) == s.leg # NoLeg /\ next = "departed"
NeedsClearance(s, next) == s.leg # NoLeg /\ next \in {"loaded", "departed"}

MoveReadShipment(r) ==
  \E u \in Users, id \in ShipmentIds, next \in MoveTargets :
    LET s == GetShipment(u.tenant, id) IN
    /\ At(r, "idle")
    /\ u.role \in {"coordinator", "ground_agent"}
    /\ s # NoRow
    /\ ShipmentCanTransition(s.status, next)
    /\ Goto(r, [pc |-> IF NeedsClearance(s, next) THEN "move.customs" ELSE "move.commit",
                user |-> u, id |-> id, next |-> next, s |-> s])
    /\ UNCHANGED <<storeVars, historyVars>>

(* Both reads are made before either is judged; judging the first at once  *)
(* gives the same answer.                                                  *)
MoveReadCustoms(r) ==
  /\ At(r, "move.customs")
  /\ LET c == GetCustoms(call[r].id) IN
     \/ c # NoRow /\ CustomsAllowsLoading(c) /\ Step(r, "move.security")
     \/ (c # NoRow => ~CustomsAllowsLoading(c)) /\ Return(r)
  /\ UNCHANGED <<storeVars, historyVars>>

MoveReadSecurity(r) ==
  /\ At(r, "move.security")
  /\ LET c == GetSecurity(call[r].id) IN
     \/ c # NoRow /\ SecurityAllowsLoading(c) /\ Step(r, "move.commit")
     \/ (c # NoRow => ~SecurityAllowsLoading(c)) /\ Return(r)
  /\ UNCHANGED <<storeVars, historyVars>>

MoveCommit(r) ==
  /\ At(r, "move.commit")
  /\ LET c     == call[r]
         moved == [c.s EXCEPT !.status = c.next]
     IN \/ StoreUpdateShipment(c.id, moved, c.s.version)
        \/ /\ UpdateShipmentErr(c.id, moved, c.s.version) # "nil"
           /\ UNCHANGED shipments
  /\ Return(r)
  /\ UNCHANGED <<legs, customs, security, historyVars>>

-----------------------------------------------------------------------------
(* CreateLeg and OpenLeg.  The reserved weight of a new leg comes from the *)
(* request body.                                                           *)

CreateLeg(r) ==
  \E u \in Users, id \in LegIds, flight \in Flights, route \in Routes,
     capacity \in Capacities, reserved \in Reserves :
    /\ At(r, "idle")
    /\ u.role = "coordinator"
    /\ ValidateLeg(capacity)
    /\ StoreCreateLeg(id, [tenant |-> u.tenant, flight |-> flight, route |-> route,
                           capacity |-> capacity, reserved |-> reserved,
                           status |-> "planned", version |-> 1])
    /\ UNCHANGED <<shipments, customs, security, call, historyVars>>

OpenReadLeg(r) ==
  \E u \in Users, id \in LegIds :
    /\ At(r, "idle")
    /\ u.role = "coordinator"
    /\ GetLeg(u.tenant, id) # NoRow
    /\ legs[id].version < MaxLegVersion
    /\ Goto(r, [pc |-> "open", user |-> u, leg |-> id, l |-> legs[id]])
    /\ UNCHANGED <<storeVars, historyVars>>

OpenCommit(r) ==
  /\ At(r, "open")
  /\ LET c == call[r] IN
     \/ StoreUpdateLegStatus(c.user.tenant, c.leg, "open", c.l.version)
     \/ /\ UpdateLegStatusErr(c.user.tenant, c.leg, c.l.version) # "nil"
        /\ UNCHANGED legs
  /\ Return(r)
  /\ UNCHANGED <<shipments, customs, security, historyVars>>

-----------------------------------------------------------------------------
(* PutCustoms: read the shipment, read the case and check the move, then   *)
(* write.  PutSecurity: read the shipment, then write.  A write that a     *)
(* constraint refuses (PutErr: a case identifier in use, a reviewer that   *)
(* is no user) ends the handler with nothing written, as Abort does.       *)

CustomsReadShipment(r) ==
  \E u \in Users, id \in ShipmentIds, status \in CustomsInputs :
    /\ At(r, "idle")
    /\ u.role = "coordinator"
    /\ GetShipment(u.tenant, id) # NoRow
    /\ Goto(r, [pc |-> "customs.read", user |-> u, id |-> id, status |-> status])
    /\ UNCHANGED <<storeVars, historyVars>>

(* The move is checked only if the read succeeds: a missing case, and any  *)
(* other error of the read, go on to the write.                            *)
CustomsReadCase(r) ==
  /\ At(r, "customs.read")
  /\ LET old == GetCustoms(call[r].id) IN
     \/ /\ \/ old = NoRow
           \/ ReadsMayFail
           \/ CustomsCanTransition(old, call[r].status)
        /\ Step(r, "customs.put")
     \/ /\ old # NoRow /\ ~CustomsCanTransition(old, call[r].status)
        /\ Return(r)
  /\ UNCHANGED <<storeVars, historyVars>>

CustomsPut(r) ==
  /\ At(r, "customs.put")
  /\ StorePutCustoms(call[r].id, call[r].status)
  /\ checks' = IF CustomsAllowsLoading(call[r].status)
               THEN checks \cup {<<call[r].id, "customs">>} ELSE checks
  /\ Return(r)
  /\ UNCHANGED <<shipments, legs, security, acks, bookedOn>>

SecurityReadShipment(r) ==
  \E u \in Users, id \in ShipmentIds, status \in SecurityInputs :
    /\ At(r, "idle")
    /\ u.role \in {"ground_agent", "coordinator"}
    /\ GetShipment(u.tenant, id) # NoRow
    /\ Goto(r, [pc |-> "security.put", user |-> u, id |-> id, status |-> status])
    /\ UNCHANGED <<storeVars, historyVars>>

SecurityPut(r) ==
  /\ At(r, "security.put")
  /\ StorePutSecurity(call[r].id, call[r].status)
  /\ checks' = IF SecurityAllowsLoading(call[r].status)
               THEN checks \cup {<<call[r].id, "security">>} ELSE checks
  /\ Return(r)
  /\ UNCHANGED <<shipments, legs, customs, acks, bookedOn>>

-----------------------------------------------------------------------------
CreateStep(r)   == CreateFind(r) \/ CreateInsert(r)
BookStep(r)     == BookReadShipment(r) \/ BookReadLeg(r) \/ BookCommit(r)
MoveStep(r)     == \/ MoveReadShipment(r) \/ MoveReadCustoms(r)
                   \/ MoveReadSecurity(r) \/ MoveCommit(r)
LegStep(r)      == CreateLeg(r) \/ OpenReadLeg(r) \/ OpenCommit(r)
CustomsStep(r)  == CustomsReadShipment(r) \/ CustomsReadCase(r) \/ CustomsPut(r)
SecurityStep(r) == SecurityReadShipment(r) \/ SecurityPut(r)

Next ==
  \E r \in Requests :
    \/ CreateStep(r) \/ BookStep(r) \/ MoveStep(r) \/ LegStep(r)
    \/ CustomsStep(r) \/ SecurityStep(r) \/ Abort(r)

Spec == Init /\ [][Next]_vars

-----------------------------------------------------------------------------
(* Properties.                                                             *)

HoldsShipment(c) ==
  c.pc \in {"book.leg", "book.commit", "move.customs", "move.security", "move.commit"}
HoldsLeg(c) == c.pc \in {"book.commit", "open"}

(* The version column identifies the contents of a row: whatever the other *)
(* handlers did since a handler read a shipment or a leg, the row's version *)
(* is not smaller than the one read, and if it is the same the row is the  *)
(* same.  It is what makes the version checks of BookShipment,             *)
(* UpdateShipment and UpdateLegStatus detect every lost update.            *)
VersionIdentifiesRow ==
  \A r \in Requests :
    LET c == call[r] IN
    /\ HoldsShipment(c) =>
         /\ shipments[c.id] # NoRow
         /\ c.s.version <= shipments[c.id].version
         /\ c.s.version = shipments[c.id].version => c.s = shipments[c.id]
    /\ HoldsLeg(c) =>
         /\ legs[c.leg] # NoRow
         /\ c.l.version <= legs[c.leg].version
         /\ c.l.version = legs[c.leg].version => c.l = legs[c.leg]

(* A booking sticks: once BookShipment put a shipment on a leg, no         *)
(* concurrent handler's write of its own older copy of the row             *)
(* (TransitionShipment writes every column) takes the shipment off the     *)
(* leg, back to draft, or onto a leg of another tenant or route.           *)
BookingSticks ==
  \A id \in ShipmentIds :
    bookedOn[id] # NoLeg =>
      /\ shipments[id] # NoRow /\ legs[bookedOn[id]] # NoRow
      /\ shipments[id].leg = bookedOn[id]
      /\ shipments[id].status # "draft"
      /\ shipments[id].tenant = legs[bookedOn[id]].tenant
      /\ shipments[id].route = legs[bookedOn[id]].route

(* Concurrent bookings never overbook a leg: reserved_kg exceeds           *)
(* capacity_kg only if the leg was created that way, and then nothing is   *)
(* booked on it.                                                           *)
NoOverbooking ==
  \A id \in ShipmentIds :
    bookedOn[id] # NoLeg =>
      legs[bookedOn[id]].reserved <= legs[bookedOn[id]].capacity

(* Every booked kilogram is reserved, once: the reserved weight of a leg   *)
(* is the weights of the shipments BookShipment put on it plus one of the  *)
(* reserved weights a client may create a leg with, however many handlers  *)
(* raced for it and whichever of them failed half way.                     *)
OnLeg(leg) == {id \in ShipmentIds : bookedOn[id] = leg}
WeightOf(table, ids) == MapThenSumSet(LAMBDA id : table[id].weight, ids)

ReservationAccounting ==
  \A leg \in LegIds :
    legs[leg] # NoRow => legs[leg].reserved - WeightOf(shipments, OnLeg(leg)) \in Reserves

(* A shipment on a leg is loaded or departed only after its customs case   *)
(* was released and its security check was passed.                         *)
LoadedNeedsClearance ==
  \A id \in ShipmentIds :
    shipments[id] # NoRow =>
      (shipments[id].leg # NoLeg /\ shipments[id].status \in {"loaded", "departed"}
         => {<<id, "customs">>, <<id, "security">>} \subseteq checks)

(* Two creates answered with success for the same tenant and idempotency   *)
(* key, racing or retried after a lost answer, name the same shipment, and *)
(* that shipment exists under that key.                                    *)
IdempotentCreate ==
  \A a \in acks :
    /\ FindByIdempotency(a[1], a[2]) = {a[3]}
    /\ \A b \in acks : a[1] = b[1] /\ a[2] = b[2] => a[3] = b[3]

(* A step of a handler changes only shipments, legs, customs cases and     *)
(* security checks of the tenant of the user it runs for.                  *)
TenantIsolation ==
  [][\A r \in Requests :
       call[r] # call'[r] /\ call[r].pc # "idle" =>
         LET tenant == call[r].user.tenant IN
         /\ \A id \in ShipmentIds :
              (\/ shipments'[id] # shipments[id]
               \/ customs'[id] # customs[id]
               \/ security'[id] # security[id])
              => shipments'[id].tenant = tenant
         /\ \A id \in LegIds :
              legs'[id] # legs[id] => legs'[id].tenant = tenant]_vars
=============================================================================
