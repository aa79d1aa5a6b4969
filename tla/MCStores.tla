------------------------------ MODULE MCStores ------------------------------
(***************************************************************************)
(* The tests run on the memory store, production on Postgres: the same     *)
(* calls are made on both, step by step, and the answers and the rows are  *)
(* compared.  The differences of the two stores are listed below, each as  *)
(* the condition of the call that shows it.  A call that shows one ends    *)
(* the comparison, and a new one starts on empty stores.                   *)
(***************************************************************************)
EXTENDS MemoryStore, Accounts, TLC

CONSTANTS Weights,      \* of shipments
          Capacities,
          OtherCaseIds, \* identifiers of cases that are no shipment's
          Subjects,     \* the sets of calls that are made together
          MaxVersion    \* bound: versions

(* The application validates weights before it calls a store; identifiers  *)
(* and rows are not the values that stand for none.                        *)
ASSUME StoresAssumption ==
  /\ Weights \subseteq Nat \ {0}
  /\ Capacities \subseteq -(MaxInt64 + 1) .. MaxInt64
  /\ MaxVersion \in Nat
  /\ NoRow \notin ShipmentIds \cup OtherCaseIds
  /\ ShipmentIds \cap OtherCaseIds = {}
  /\ NoAccount \notin UserIds \cup UserRow \cup SessionRow

Reservations == {-1, 1, 2}   \* weights to reserve
Reserved == {-1, 0, 2}       \* of the legs to create

(* The identifier of a case or check: the client's or a random one.        *)
CaseIds == ShipmentIds \cup OtherCaseIds \cup {NoRow}

VARIABLES
  caseIds,   \* the id columns of customs_cases and security_checks in
  checkIds,  \*   Postgres, by shipment
  subject,   \* which calls are made
  answer,    \* the errors of the last call: <<Postgres, memory>>
  known      \* the last call showed a difference of the list

idVars == <<caseIds, checkIds>>
vars == <<storeVars, idVars, memVars, accountVars, subject, answer, known>>

Empty ==
  /\ StoreInit /\ MemInit /\ AccountsInit
  /\ caseIds = [id \in ShipmentIds |-> NoRow] /\ checkIds = caseIds
  /\ answer = <<"nil", "nil">> /\ known = FALSE

Init == Empty /\ subject \in Subjects

Restart ==
  /\ known
  /\ shipments' = [id \in ShipmentIds |-> NoRow] /\ memShipments' = shipments'
  /\ legs' = [id \in LegIds |-> NoRow]           /\ memLegs' = legs'
  /\ customs' = [id \in ShipmentIds |-> NoRow]   /\ memCustoms' = customs'
  /\ security' = [id \in ShipmentIds |-> NoRow]  /\ memSecurity' = security'
  /\ caseIds' = [id \in ShipmentIds |-> NoRow]   /\ checkIds' = caseIds'
  /\ memIdem' = [tk \in Tenants \X Keys |-> NoRow]
  /\ pgUsers' = [u \in UserIds |-> NoAccount]    /\ memUsers' = pgUsers'
  /\ pgSessions' = [t \in Tokens |-> NoAccount]  /\ memSessions' = pgSessions'
  /\ memByEmail' = [e \in Emails |-> NoAccount]
  /\ answer' = <<"nil", "nil">> /\ known' = FALSE
  /\ UNCHANGED subject

(* One call on both stores.                                                *)
Call(pgErr, memErr, difference) ==
  /\ ~known
  /\ answer' = <<pgErr, memErr>>
  /\ known' = difference
  /\ UNCHANGED subject

-----------------------------------------------------------------------------
Shipments ==
  [tenant : Tenants, route : Routes, weight : Weights, status : {"draft"},
   leg : LegIds \cup {NoLeg}, key : Keys \cup {NoKey}, version : {1}]

(* A second shipment of the tenant without a key, a create repeated with   *)
(* its key, and a leg that does not exist.                                 *)
CreateShipmentDiffers(id, s) ==
  IF s.key = NoKey
  THEN shipments[id] = NoRow /\ (FindByIdempotency(s.tenant, NoKey) # {}
                                 \/ (s.leg # NoLeg /\ legs[s.leg] = NoRow))
  ELSE \/ FindByIdempotency(s.tenant, s.key) = {id}
       \/ /\ ~DuplicateShipment(id, s)
          /\ s.leg # NoLeg /\ legs[s.leg] = NoRow

CallCreateShipment(id, s) ==
  /\ Call(CreateShipmentErr(id, s), MemCreateShipmentErr(id, s), CreateShipmentDiffers(id, s))
  /\ shipments' = IF CreateShipmentErr(id, s) = "nil"
                  THEN [shipments EXCEPT ![id] = s] ELSE shipments
  /\ MemCreateShipment(id, s)
  /\ UNCHANGED <<legs, customs, security, idVars, memLegs, memCustoms, memSecurity, accountVars>>

(* A missing row, a row of another tenant, a changed key, and a leg that   *)
(* does not exist.                                                         *)
UpdateShipmentDiffers(id, s, version) ==
  \/ shipments[id] = NoRow
  \/ /\ shipments[id].version = version
     /\ \/ s.tenant # shipments[id].tenant
        \/ s.key # shipments[id].key
        \/ s.leg # NoLeg /\ legs[s.leg] = NoRow

CallUpdateShipment(id, tenant, key, status, leg, version) ==
  LET s == IF shipments[id] = NoRow THEN CHOOSE row \in Shipments : TRUE
           ELSE [shipments[id] EXCEPT !.tenant = tenant, !.key = key, !.status = status,
                                      !.leg = leg]
  IN /\ Call(UpdateShipmentErr(id, s, version), MemUpdateShipmentErr(id, s, version),
             UpdateShipmentDiffers(id, s, version))
     /\ IF UpdateShipmentErr(id, s, version) = "nil"
        THEN StoreUpdateShipment(id, s, version) ELSE UNCHANGED shipments
     /\ MemUpdateShipment(id, s, version)
     /\ UNCHANGED <<legs, customs, security, idVars, memIdem, memLegs, memCustoms,
                    memSecurity, accountVars>>

(* A taken identifier, which is a raw error in Postgres; a flight the      *)
(* tenant has a leg of; and the CHECKs of the table.                       *)
CreateLegDiffers(id, l) == l.capacity <= 0 \/ l.reserved < 0 \/ DuplicateLeg(id, l)

CallCreateLeg(id, l) ==
  /\ Call(CreateLegErr(id, l), MemCreateLegErr(id, l), CreateLegDiffers(id, l))
  /\ IF CreateLegErr(id, l) = "nil" THEN StoreCreateLeg(id, l) ELSE UNCHANGED legs
  /\ MemCreateLeg(id, l)
  /\ UNCHANGED <<shipments, customs, security, idVars, memShipments, memIdem, memCustoms,
                 memSecurity, accountVars>>

(* Every refusal but that of a stale version; a weight that is not         *)
(* positive; and a sum that wraps around.                                  *)
ReserveCapacityDiffers(tenant, id, weight, version) ==
  LET l == GetLeg(tenant, id) IN
  IF l = NoRow THEN TRUE
  ELSE l.version = version /\ (weight <= 0 \/ l.reserved + weight > l.capacity)

CallReserveCapacity(tenant, id, weight, version) ==
  LET err == ReserveCapacityErr(tenant, id, weight, version) IN
  /\ Call(err, MemReserveCapacityErr(tenant, id, weight, version),
          ReserveCapacityDiffers(tenant, id, weight, version))
  /\ IF err = "nil" THEN StoreReserveCapacity(tenant, id, weight, version) ELSE UNCHANGED legs
  /\ MemReserveCapacity(tenant, id, weight, version)
  /\ UNCHANGED <<shipments, customs, security, idVars, memShipments, memIdem, memCustoms,
                 memSecurity, accountVars>>

(* A missing leg, and a move CanTransition refuses.                        *)
UpdateLegStatusDiffers(tenant, id, status, version) ==
  LET l == GetLeg(tenant, id) IN
  IF l = NoRow THEN TRUE
  ELSE l.version = version /\ ~LegCanTransition(l.status, status)

CallUpdateLegStatus(tenant, id, status, version) ==
  LET err == UpdateLegStatusErr(tenant, id, version) IN
  /\ Call(err, MemUpdateLegStatusErr(tenant, id, status, version),
          UpdateLegStatusDiffers(tenant, id, status, version))
  /\ IF err = "nil" THEN StoreUpdateLegStatus(tenant, id, status, version) ELSE UNCHANGED legs
  /\ MemUpdateLegStatus(tenant, id, status, version)
  /\ UNCHANGED <<shipments, customs, security, idVars, memShipments, memIdem, memCustoms,
                 memSecurity, accountVars>>

(* Only a sum past the largest int64.                                      *)
CallBookShipment(tenant, id, leg, sv, lv) ==
  LET err == BookShipmentErr(tenant, id, leg, sv, lv) IN
  /\ Call(err, MemBookShipmentErr(tenant, id, leg, sv, lv), err = "bigint out of range")
  /\ IF err = "nil" THEN StoreBookShipment(tenant, id, leg, sv, lv)
     ELSE UNCHANGED <<shipments, legs>>
  /\ MemBookShipment(tenant, id, leg, sv, lv)
  /\ UNCHANGED <<customs, security, idVars, memIdem, memCustoms, memSecurity, accountVars>>

(* A case or check that Postgres refuses; one that is not stored under the *)
(* shipment's own identifier, as the application does with the random one  *)
(* it makes, unless the shipment, and the shipment it is found for in      *)
(* memory if there is one, have that status already.  The status is all    *)
(* that callers read of a case.                                            *)
PutDiffers(err, table, id, caseId, status) ==
  \/ err # "nil"
  \/ caseId # id /\ \E o \in {id, caseId} \cap ShipmentIds : table[o] # status

Exists(reviewer) == reviewer = NoAccount \/ pgUsers[reviewer] # NoAccount

(* A row keeps the identifier it was inserted with.                        *)
RowIds(table, rowIds, id, caseId) ==
  IF table[id] = NoRow THEN [rowIds EXCEPT ![id] = caseId] ELSE rowIds

CallPutCustoms(id, caseId, reviewer, status) ==
  LET err == PutErr(customs, caseIds, id, caseId, Exists(reviewer)) IN
  /\ Call(err, "nil", PutDiffers(err, customs, id, caseId, status))
  /\ IF err = "nil"
     THEN StorePutCustoms(id, status) /\ caseIds' = RowIds(customs, caseIds, id, caseId)
     ELSE UNCHANGED <<customs, caseIds>>
  /\ MemPutCustoms(caseId, status)
  /\ UNCHANGED <<shipments, legs, security, checkIds, memShipments, memIdem, memLegs,
                 memSecurity, accountVars>>

CallPutSecurity(id, checkId, officer, status) ==
  LET err == PutErr(security, checkIds, id, checkId, Exists(officer)) IN
  /\ Call(err, "nil", PutDiffers(err, security, id, checkId, status))
  /\ IF err = "nil"
     THEN StorePutSecurity(id, status) /\ checkIds' = RowIds(security, checkIds, id, checkId)
     ELSE UNCHANGED <<security, checkIds>>
  /\ MemPutSecurity(checkId, status)
  /\ UNCHANGED <<shipments, legs, customs, caseIds, memShipments, memIdem, memLegs,
                 memCustoms, accountVars>>

-----------------------------------------------------------------------------
(* A taken user identifier.                                                *)
CallCreateUser(id, email) ==
  /\ Call(PgCreateUserErr(id, email), MemCreateUserErr(id, email),
          pgUsers[id] # NoAccount /\ PgGetUserByEmail(email) = NoAccount)
  /\ PgCreateUser(id, email) /\ MemCreateUser(id, email)
  /\ UNCHANGED <<storeVars, idVars, memVars, pgSessions, memSessions>>

CallDeactivateUser(id) ==
  /\ Call(PgDeactivateUserErr(id), MemDeactivateUserErr(id), FALSE)
  /\ PgDeactivateUser(id) /\ MemDeactivateUser(id)
  /\ UNCHANGED <<storeVars, idVars, memVars, memByEmail>>

(* Whatever a constraint refuses.                                          *)
CallCreateSession(token, id, user) ==
  LET err == PgCreateSessionErr(token, id, user) IN
  /\ Call(err, "nil", err # "nil")
  /\ PgCreateSession(token, id, user) /\ MemCreateSession(token, id, user)
  /\ UNCHANGED <<storeVars, idVars, memVars, pgUsers, memUsers, memByEmail>>

(* A session revoked before.                                               *)
CallRevokeSession(token) ==
  /\ Call(PgRevokeSessionErr(token), MemRevokeSessionErr(token),
          pgSessions[token] # NoAccount /\ PgRevokeSessionErr(token) # "nil")
  /\ PgRevokeSession(token) /\ MemRevokeSession(token)
  /\ UNCHANGED <<storeVars, idVars, memVars, pgUsers, memUsers, memByEmail>>

CallRevokeUserSessions(user) ==
  /\ Call("nil", "nil", FALSE)
  /\ PgRevokeUserSessions(user) /\ MemRevokeUserSessions(user)
  /\ UNCHANGED <<storeVars, idVars, memVars, pgUsers, memUsers, memByEmail>>

-----------------------------------------------------------------------------
Symmetry == Permutations(Tenants) \cup Permutations(ShipmentIds)
              \cup Permutations(LegIds) \cup Permutations(Flights)

Versions == 1 .. MaxVersion
MayGrow(row) == IF row = NoRow THEN TRUE ELSE row.version < MaxVersion

CreateCalls == \E id \in ShipmentIds, s \in Shipments : CallCreateShipment(id, s)

UpdateCalls ==
  \E id \in ShipmentIds, tenant \in Tenants, key \in Keys \cup {NoKey},
     leg \in LegIds \cup {NoLeg}, version \in Versions :
    MayGrow(shipments[id]) /\ CallUpdateShipment(id, tenant, key, "cancelled", leg, version)

NewLegs ==
  [tenant : Tenants, flight : Flights, route : Routes, capacity : Capacities,
   reserved : Reserved, status : {"planned", "open"}, version : {1}]

CreateLegCalls == \E id \in LegIds, l \in NewLegs : CallCreateLeg(id, l)

LegCalls ==
  \E tenant \in Tenants, id \in LegIds, version \in Versions :
    /\ MayGrow(legs[id])
    /\ \/ \E weight \in Reservations : CallReserveCapacity(tenant, id, weight, version)
       \/ \E status \in {"planned", "open", "closed"} :
            CallUpdateLegStatus(tenant, id, status, version)

BookCalls ==
  \E tenant \in Tenants, id \in ShipmentIds, leg \in LegIds, sv \in Versions, lv \in Versions :
    /\ MayGrow(shipments[id]) /\ MayGrow(legs[leg])
    /\ CallBookShipment(tenant, id, leg, sv, lv)

(* The reviewer of a case is the client's, or none; so is the officer of a *)
(* check, unless the application names the user.                           *)
PutCalls ==
  \E id \in ShipmentIds, caseId \in CaseIds, reviewer \in UserIds \cup {NoAccount} :
    \/ \E status \in CustomsInputs : CallPutCustoms(id, caseId, reviewer, status)
    \/ \E status \in SecurityInputs : CallPutSecurity(id, caseId, reviewer, status)

CreateUserCalls == \E id \in UserIds, email \in Emails : CallCreateUser(id, email)

AccountCalls ==
  \/ \E id \in UserIds : CallDeactivateUser(id) \/ CallRevokeUserSessions(id)
  \/ \E token \in Tokens : \/ \E id \in SessionIds, user \in UserIds :
                                CallCreateSession(token, id, user)
                           \/ CallRevokeSession(token)

Next ==
  \/ "create" \in subject /\ CreateCalls
  \/ "update" \in subject /\ UpdateCalls
  \/ "create leg" \in subject /\ CreateLegCalls
  \/ "legs" \in subject /\ LegCalls
  \/ "book" \in subject /\ BookCalls
  \/ "put" \in subject /\ PutCalls
  \/ "create user" \in subject /\ CreateUserCalls
  \/ "accounts" \in subject /\ AccountCalls
  \/ Restart

(* The sets of calls TLC checks.                                           *)
CheckedSubjects ==
  {{"create", "create leg", "update", "book"}, {"create", "create leg", "legs", "book"},
   {"create", "create user", "put"}, {"create user", "accounts"}}

Spec == Init /\ [][Next]_vars

-----------------------------------------------------------------------------
CargoReadsEqual ==
  /\ \A tenant \in Tenants :
       /\ \A id \in ShipmentIds : GetShipment(tenant, id) = MemGetShipment(tenant, id)
       /\ \A id \in LegIds : GetLeg(tenant, id) = MemGetLeg(tenant, id)
       /\ \A key \in Keys : FindByIdempotency(tenant, key) = MemFindByIdempotency(tenant, key)
  /\ \A id \in ShipmentIds : /\ GetCustoms(id) = MemGetCustoms(id)
                             /\ GetSecurity(id) = MemGetSecurity(id)

AccountReadsEqual ==
  /\ \A email \in Emails : PgGetUserByEmail(email) = MemGetUserByEmail(email)
  /\ \A id \in UserIds : PgGetUser(id) = MemGetUser(id)
  /\ \A token \in Tokens : PgGetSession(token) = MemGetSession(token)

(* A sequence of calls gets the same answers and leaves the same rows for  *)
(* every read in both stores, until the first call of the list; and every  *)
(* call of the list does make a difference.  So a test on the memory store *)
(* tells what Postgres does up to the listed calls, in whatever order it   *)
(* makes them.  In particular a session is revoked in one store exactly if *)
(* it is in the other, although the memory store revokes sessions again.   *)
StoresAgree ==
  known <=> ~(answer[1] = answer[2] /\ CargoReadsEqual /\ AccountReadsEqual)
=============================================================================
