---------------------------- MODULE StoresProofs ----------------------------
(***************************************************************************)
(* The memory store tells what Postgres does: StoresAgree for any number   *)
(* of rows, tenants, keys and accounts.  The invariant is that, until a    *)
(* call of the list, the two stores hold the same rows and the two indexes *)
(* of the memory store are what a search of its rows would find.           *)
(***************************************************************************)
EXTENDS MCStores, TLAPS

RowsTyped ==
  /\ shipments \in [ShipmentIds -> ShipmentRow \cup {NoRow}]
  /\ legs \in [LegIds -> LegRow \cup {NoRow}]
  /\ \A id \in LegIds : legs[id] # NoRow => legs[id].capacity <= MaxInt64
  /\ customs \in [ShipmentIds -> CustomsInputs \cup {NoRow}]
  /\ security \in [ShipmentIds -> SecurityInputs \cup {NoRow}]

SameRows ==
  /\ memShipments = shipments /\ memLegs = legs
  /\ memCustoms = customs /\ memSecurity = security

(* The index of the idempotency keys.                                      *)
KeyIndexed(tenant, key) ==
  LET id == memIdem[<<tenant, key>>] IN
  FindByIdempotency(tenant, key) = IF id = NoRow THEN {} ELSE {id}

IdemIsIndex ==
  /\ memIdem \in [Tenants \X Keys -> ShipmentIds \cup {NoRow}]
  /\ \A tenant \in Tenants, key \in Keys : KeyIndexed(tenant, key)

AccountsTyped ==
  /\ pgUsers \in [UserIds -> UserRow \cup {NoAccount}]
  /\ pgSessions \in [Tokens -> SessionRow \cup {NoAccount}]

SameAccounts == memUsers = pgUsers /\ memSessions = pgSessions

(* The index of the e-mail addresses.                                      *)
EmailIndexed(email) ==
  LET id == memByEmail[email] IN
  {u \in UserIds : pgUsers[u] # NoAccount /\ pgUsers[u].email = email}
    = IF id = NoAccount THEN {} ELSE {id}

ByEmailIsIndex ==
  /\ memByEmail \in [Emails -> UserIds \cup {NoAccount}]
  /\ \A email \in Emails : EmailIndexed(email)

SameCargo == RowsTyped /\ SameRows /\ IdemIsIndex
SameUsers == AccountsTyped /\ SameAccounts /\ ByEmailIsIndex

Differ == ~(answer[1] = answer[2] /\ CargoReadsEqual /\ AccountReadsEqual)

StoresInv ==
  /\ known \in BOOLEAN
  /\ known => Differ
  /\ ~known => answer[1] = answer[2] /\ SameCargo /\ SameUsers

-----------------------------------------------------------------------------
(* Equal rows and right indexes give equal reads.                          *)
LEMMA SameCargoReads == SameCargo => CargoReadsEqual
<1> SUFFICES ASSUME SameCargo PROVE CargoReadsEqual
  OBVIOUS
<1>1. \A tenant \in Tenants :
        /\ \A id \in ShipmentIds : GetShipment(tenant, id) = MemGetShipment(tenant, id)
        /\ \A id \in LegIds : GetLeg(tenant, id) = MemGetLeg(tenant, id)
  BY DEF SameCargo, SameRows, GetShipment, MemGetShipment, GetLeg, MemGetLeg
<1>2. \A tenant \in Tenants, key \in Keys :
        FindByIdempotency(tenant, key) = MemFindByIdempotency(tenant, key)
  BY DEF SameCargo, IdemIsIndex, KeyIndexed, MemFindByIdempotency
<1>3. \A id \in ShipmentIds : GetCustoms(id) = MemGetCustoms(id) /\ GetSecurity(id) = MemGetSecurity(id)
  BY DEF SameCargo, SameRows, GetCustoms, GetSecurity, MemGetCustoms, MemGetSecurity
<1> QED BY <1>1, <1>2, <1>3 DEF CargoReadsEqual

(* The user an e-mail address names, in both stores.                       *)
LEMMA SameEmail ==
  ASSUME SameUsers, NEW email \in Emails
  PROVE  /\ PgGetUserByEmail(email) = MemGetUserByEmail(email)
         /\ PgGetUserByEmail(email) = NoAccount <=> memByEmail[email] = NoAccount
<1> DEFINE ids == {u \in UserIds : pgUsers[u] # NoAccount /\ pgUsers[u].email = email}
<1>1. ids = IF memByEmail[email] = NoAccount THEN {} ELSE {memByEmail[email]}
  BY DEF SameUsers, ByEmailIsIndex, EmailIndexed
<1>2. CASE memByEmail[email] = NoAccount
  <2>1. ids = {}
    BY <1>1, <1>2
  <2> QED BY <1>2, <2>1 DEF PgGetUserByEmail, MemGetUserByEmail
<1>3. CASE memByEmail[email] # NoAccount
  <2> DEFINE u == memByEmail[email]
  <2>1. ids = {u}
    BY <1>1, <1>3
  <2>2. (CHOOSE v \in ids : TRUE) = u
    BY <2>1
  <2>3. pgUsers[u] # NoAccount /\ memUsers[u] = pgUsers[u]
    BY <2>1 DEF SameUsers, SameAccounts
  <2> QED BY <1>3, <2>1, <2>2, <2>3 DEF PgGetUserByEmail, MemGetUserByEmail
<1> QED BY <1>2, <1>3

LEMMA SameAccountReads == SameUsers => AccountReadsEqual
BY SameEmail DEF SameUsers, SameAccounts, AccountReadsEqual, PgGetUser, MemGetUser,
                 PgGetSession, MemGetSession

-----------------------------------------------------------------------------
(* A call keeps the invariant if it is on the list and makes a difference, *)
(* or is not, gets one answer and leaves the same rows.                    *)
LEMMA CallKeeps ==
  ASSUME NEW pgErr, NEW memErr, NEW difference \in BOOLEAN,
         Call(pgErr, memErr, difference),
         difference => pgErr # memErr \/ ~CargoReadsEqual' \/ ~AccountReadsEqual',
         ~difference => pgErr = memErr /\ SameCargo' /\ SameUsers'
  PROVE  StoresInv'
BY DEF Call, StoresInv, Differ

(* What the calls leave alone.                                             *)
LEMMA UsersUntouched ==
  ASSUME SameUsers, UNCHANGED accountVars PROVE SameUsers'
BY DEF SameUsers, AccountsTyped, SameAccounts, ByEmailIsIndex, EmailIndexed, accountVars

LEMMA CargoUntouched ==
  ASSUME SameCargo, UNCHANGED <<storeVars, memVars>> PROVE SameCargo'
BY DEF SameCargo, RowsTyped, SameRows, IdemIsIndex, KeyIndexed, FindByIdempotency,
       storeVars, memVars

LEMMA CreateShipmentKeeps ==
  ASSUME StoresInv, NEW id \in ShipmentIds, NEW s \in Shipments, CallCreateShipment(id, s)
  PROVE  StoresInv'
<1>1. ~known /\ SameCargo /\ SameUsers
  BY DEF CallCreateShipment, Call, StoresInv
<1>2. SameUsers'
  BY <1>1, UsersUntouched DEF CallCreateShipment
<1>3. s \in ShipmentRow /\ s # NoRow
  <2>1. /\ s = [tenant |-> s.tenant, route |-> s.route, weight |-> s.weight,
                status |-> s.status, leg |-> s.leg, key |-> s.key, version |-> s.version]
        /\ s.tenant \in Tenants /\ s.route \in Routes /\ s.weight \in Weights
        /\ s.status = "draft" /\ s.leg \in LegIds \cup {NoLeg}
        /\ s.key \in Keys \cup {NoKey} /\ s.version = 1
    BY DEF Shipments
  <2>2. s \in ShipmentRow
    BY <2>1, StoresAssumption DEF ShipmentRow, ShipmentStatus
  <2> QED BY <2>2, NoValuesAssumption
<1>4. memShipments = shipments /\ shipments \in [ShipmentIds -> ShipmentRow \cup {NoRow}]
  BY <1>1 DEF SameCargo, SameRows, RowsTyped
<1>5. s.key # NoKey => /\ s.key \in Keys /\ s.tenant \in Tenants
                       /\ memIdem[<<s.tenant, s.key>>] \in ShipmentIds \cup {NoRow}
                       /\ KeyIndexed(s.tenant, s.key)
  BY <1>1 DEF Shipments, SameCargo, IdemIsIndex
<1>0. /\ CreateShipmentDiffers(id, s) \in BOOLEAN
      /\ Call(CreateShipmentErr(id, s), MemCreateShipmentErr(id, s), CreateShipmentDiffers(id, s))
  BY DEF CallCreateShipment, CreateShipmentDiffers
<1>6. CASE CreateShipmentDiffers(id, s)
  <2>1. CreateShipmentErr(id, s) # "nil"
    <3>1. CASE s.key = NoKey
      BY <1>6, <3>1 DEF CreateShipmentDiffers, CreateShipmentErr, DuplicateShipment
    <3>2. CASE s.key # NoKey
      BY <1>6, <3>2 DEF CreateShipmentDiffers, CreateShipmentErr, DuplicateShipment
    <3> QED BY <3>1, <3>2
  <2>2. MemCreateShipmentErr(id, s) = "nil"
    <3>1. CASE s.key = NoKey
      BY <1>4, <1>6, <3>1 DEF CreateShipmentDiffers, MemCreateShipmentErr, MemKeyTaken
    <3>2. CASE s.key # NoKey /\ FindByIdempotency(s.tenant, s.key) = {id}
      BY <1>5, <3>2 DEF KeyIndexed, MemCreateShipmentErr, MemKeyTaken
    <3>3. CASE s.key # NoKey /\ ~DuplicateShipment(id, s)
      BY <1>4, <1>5, <3>3 DEF KeyIndexed, MemCreateShipmentErr, MemKeyTaken, DuplicateShipment
    <3> QED BY <1>6, <3>1, <3>2, <3>3 DEF CreateShipmentDiffers
  <2> QED BY <1>0, <1>6, <2>1, <2>2, CallKeeps
<1>7. CASE ~CreateShipmentDiffers(id, s)
  <2>1. CASE DuplicateShipment(id, s)
    <3>1. CreateShipmentErr(id, s) = "ErrConflict"
      BY <2>1 DEF CreateShipmentErr
    <3>2. MemCreateShipmentErr(id, s) = "ErrConflict"
      <4>1. CASE s.key = NoKey
        BY <1>4, <1>7, <2>1, <4>1 DEF CreateShipmentDiffers, MemCreateShipmentErr,
             MemKeyTaken, DuplicateShipment
      <4>2. CASE s.key # NoKey
        BY <1>4, <1>5, <1>7, <2>1, <4>2 DEF CreateShipmentDiffers, MemCreateShipmentErr,
             MemKeyTaken, DuplicateShipment, KeyIndexed
      <4> QED BY <4>1, <4>2
    <3>3. UNCHANGED <<storeVars, memVars>>
      BY <3>1, <3>2 DEF CallCreateShipment, MemCreateShipment, storeVars, memVars
    <3>4. SameCargo'
      BY <1>1, <3>3, CargoUntouched
    <3> QED BY <1>0, <1>2, <1>7, <3>1, <3>2, <3>4, CallKeeps
  <2>2. CASE ~DuplicateShipment(id, s)
    <3>1. shipments[id] = NoRow /\ FindByIdempotency(s.tenant, s.key) = {}
      BY <2>2 DEF DuplicateShipment
    <3>2. CreateShipmentErr(id, s) = "nil"
      BY <1>7, <2>2, <3>1 DEF CreateShipmentErr, CreateShipmentDiffers
    <3>3. ~MemKeyTaken(id, s) /\ MemCreateShipmentErr(id, s) = "nil"
      BY <1>4, <1>5, <3>1 DEF MemKeyTaken, KeyIndexed, MemCreateShipmentErr
    <3>4. /\ shipments' = [shipments EXCEPT ![id] = s] /\ memShipments' = shipments'
          /\ memIdem' = IF s.key = NoKey THEN memIdem
                        ELSE [memIdem EXCEPT ![<<s.tenant, s.key>>] = id]
          /\ UNCHANGED <<legs, customs, security, memLegs, memCustoms, memSecurity>>
      BY <1>4, <3>2, <3>3 DEF CallCreateShipment, MemCreateShipment
    <3>5. RowsTyped' /\ SameRows'
      BY <1>1, <1>3, <1>4, <3>4 DEF SameCargo, RowsTyped, SameRows
    <3>6. memIdem' \in [Tenants \X Keys -> ShipmentIds \cup {NoRow}]
      BY <1>1, <3>4 DEF SameCargo, IdemIsIndex
    <3>7. ASSUME NEW tenant \in Tenants, NEW key \in Keys PROVE KeyIndexed(tenant, key)'
      <4>1. KeyIndexed(tenant, key) /\ memIdem \in [Tenants \X Keys -> ShipmentIds \cup {NoRow}]
        BY <1>1 DEF SameCargo, IdemIsIndex
      <4>2. CASE tenant = s.tenant /\ key = s.key
        <5>1. memIdem'[<<tenant, key>>] = id
          BY <3>4, <4>1, <4>2, NoValuesAssumption
        <5>2. FindByIdempotency(tenant, key)' = {id}
          BY <1>3, <1>4, <3>1, <3>4, <4>2 DEF FindByIdempotency
        <5> QED BY <5>1, <5>2, StoresAssumption DEF KeyIndexed
      <4>3. CASE ~(tenant = s.tenant /\ key = s.key)
        <5>1. memIdem'[<<tenant, key>>] = memIdem[<<tenant, key>>]
          BY <3>4, <4>1, <4>3
        <5>2. FindByIdempotency(tenant, key)' = FindByIdempotency(tenant, key)
          BY <1>3, <1>4, <3>1, <3>4, <4>3 DEF FindByIdempotency
        <5> QED BY <4>1, <5>1, <5>2 DEF KeyIndexed
      <4> QED BY <4>2, <4>3
    <3>8. SameCargo'
      BY <3>5, <3>6, <3>7 DEF SameCargo, IdemIsIndex
    <3> QED BY <1>0, <1>2, <1>7, <3>2, <3>3, <3>8, CallKeeps
  <2> QED BY <2>1, <2>2
<1> QED BY <1>6, <1>7

(* Rows that keep their tenants and keys keep the index.                   *)
LEMMA IndexKept ==
  ASSUME IdemIsIndex, UNCHANGED memIdem,
         \A id \in ShipmentIds : /\ shipments'[id] = NoRow <=> shipments[id] = NoRow
                                 /\ shipments[id] # NoRow =>
                                      /\ shipments'[id].tenant = shipments[id].tenant
                                      /\ shipments'[id].key = shipments[id].key
  PROVE  IdemIsIndex'
<1>1. \A tenant, key : FindByIdempotency(tenant, key)' = FindByIdempotency(tenant, key)
  BY DEF FindByIdempotency
<1> QED BY <1>1 DEF IdemIsIndex, KeyIndexed

LEMMA UpdateShipmentKeeps ==
  ASSUME StoresInv, NEW id \in ShipmentIds, NEW tenant \in Tenants,
         NEW key \in Keys \cup {NoKey}, NEW status \in ShipmentStatus,
         NEW leg \in LegIds \cup {NoLeg}, NEW version \in Versions,
         CallUpdateShipment(id, tenant, key, status, leg, version)
  PROVE  StoresInv'
<1> DEFINE s == IF shipments[id] = NoRow THEN CHOOSE row \in Shipments : TRUE
                ELSE [shipments[id] EXCEPT !.tenant = tenant, !.key = key, !.status = status,
                                           !.leg = leg]
           pgErr == UpdateShipmentErr(id, s, version)
           memErr == MemUpdateShipmentErr(id, s, version)
           listed == UpdateShipmentDiffers(id, s, version)
<1>0. /\ Call(pgErr, memErr, listed) /\ listed \in BOOLEAN
      /\ IF pgErr = "nil" THEN StoreUpdateShipment(id, s, version) ELSE UNCHANGED shipments
      /\ MemUpdateShipment(id, s, version)
      /\ UNCHANGED <<legs, customs, security, memIdem, memLegs, memCustoms, memSecurity, accountVars>>
  BY DEF CallUpdateShipment, UpdateShipmentDiffers
<1>1. ~known /\ SameCargo /\ SameUsers
  BY <1>0 DEF Call, StoresInv
<1>2. SameUsers'
  BY <1>0, <1>1, UsersUntouched
<1>4. memShipments = shipments /\ shipments \in [ShipmentIds -> ShipmentRow \cup {NoRow}]
  BY <1>1 DEF SameCargo, SameRows, RowsTyped
<1>5. CASE shipments[id] = NoRow
  <2>1. pgErr # memErr
    BY <1>4, <1>5 DEF UpdateShipmentErr, UpdateMatches, MemUpdateShipmentErr
  <2>2. listed
    BY <1>5 DEF UpdateShipmentDiffers
  <2> HIDE DEF s, pgErr, memErr, listed
  <2> QED BY <1>0, <2>1, <2>2, CallKeeps
<1>6. CASE shipments[id] # NoRow /\ shipments[id].version # version
  <2>1. pgErr = "ErrConflict" /\ memErr = "ErrConflict" /\ ~listed
    BY <1>4, <1>6 DEF UpdateShipmentErr, UpdateMatches, MemUpdateShipmentErr, UpdateShipmentDiffers
  <2>2. UNCHANGED <<storeVars, memVars>>
    BY <1>0, <2>1 DEF MemUpdateShipment, storeVars, memVars
  <2>3. SameCargo'
    BY <1>1, <2>2, CargoUntouched
  <2> HIDE DEF s, pgErr, memErr, listed
  <2> QED BY <1>0, <1>2, <2>1, <2>3, CallKeeps
<1>7. CASE shipments[id] # NoRow /\ shipments[id].version = version
  <2> DEFINE old == shipments[id]
             pgRow == [s EXCEPT !.key = old.key, !.version = old.version + 1]
             memRow == [s EXCEPT !.version = version + 1]
  <2>1. s = [tenant |-> tenant, route |-> old.route, weight |-> old.weight, status |-> status,
             leg |-> leg, key |-> key, version |-> old.version]
    <3>1. old \in ShipmentRow
      BY <1>4, <1>7
    <3> QED BY <1>7, <3>1 DEF ShipmentRow
  <2>2. old \in ShipmentRow /\ memErr = "nil"
    BY <1>4, <1>7 DEF MemUpdateShipmentErr
  <2>3. memShipments' = [shipments EXCEPT ![id] = memRow]
    BY <1>0, <1>4, <2>2 DEF MemUpdateShipment
  <2>4. CASE tenant # old.tenant
    <3>1. pgErr = "ErrConflict" /\ listed
      BY <1>7, <2>1, <2>4 DEF UpdateShipmentErr, UpdateMatches, UpdateShipmentDiffers
    <3>2. pgErr # memErr
      BY <2>2, <3>1
    <3> HIDE DEF s, pgErr, memErr, listed
    <3> QED BY <1>0, <3>1, <3>2, CallKeeps
  <2>6. CASE tenant = old.tenant /\ leg # NoLeg /\ legs[leg] = NoRow
    <3>1. pgErr = "foreign key violation" /\ listed
      BY <1>7, <2>1, <2>6 DEF UpdateShipmentErr, UpdateMatches, UpdateShipmentDiffers
    <3>2. pgErr # memErr
      BY <2>2, <3>1
    <3> HIDE DEF s, pgErr, memErr, listed
    <3> QED BY <1>0, <3>1, <3>2, CallKeeps
  <2>5. CASE tenant = old.tenant /\ ~(leg # NoLeg /\ legs[leg] = NoRow)
    <3>1. pgErr = "nil"
      BY <1>7, <2>1, <2>5 DEF UpdateShipmentErr, UpdateMatches
    <3>2. shipments' = [shipments EXCEPT ![id] = pgRow]
      BY <1>0, <3>1 DEF StoreUpdateShipment
    <3>3. /\ pgRow.tenant = tenant /\ memRow.tenant = tenant
          /\ pgRow.key = old.key /\ memRow.key = key
          /\ pgRow \in ShipmentRow /\ memRow \in ShipmentRow
      <4>1. s \in ShipmentRow /\ s.tenant = tenant /\ s.key = key
        BY <2>1, <2>2 DEF ShipmentRow
      <4>2. old.key \in Keys \cup {NoKey} /\ old.version + 1 \in Nat /\ version + 1 \in Nat
        BY <1>7, <2>2 DEF ShipmentRow
      <4>3. PICK k \in Keys \cup {NoKey}, v \in Nat, w \in Nat :
              k = old.key /\ v = old.version + 1 /\ w = version + 1
        BY <4>2
      <4> HIDE DEF s, old
      <4>4. pgRow = [s EXCEPT !.key = k, !.version = v] /\ memRow = [s EXCEPT !.version = w]
        BY <4>3
      <4>5. /\ [s EXCEPT !.key = k, !.version = v] \in ShipmentRow
            /\ [s EXCEPT !.key = k, !.version = v].tenant = s.tenant
            /\ [s EXCEPT !.key = k, !.version = v].key = k
        BY <4>1 DEF ShipmentRow
      <4>6. /\ [s EXCEPT !.version = w] \in ShipmentRow
            /\ [s EXCEPT !.version = w].tenant = s.tenant
            /\ [s EXCEPT !.version = w].key = s.key
        BY <4>1 DEF ShipmentRow
      <4> HIDE DEF pgRow, memRow
      <4> QED BY <4>1, <4>3, <4>4, <4>5, <4>6
    <3>4. pgRow # NoRow /\ memRow # NoRow
      BY <3>3, NoValuesAssumption
    <3>5. shipments'[id] = pgRow /\ memShipments'[id] = memRow
      BY <1>4, <2>3, <3>2
    <3>6. CASE key # old.key
      <4>1. listed
        BY <1>7, <2>1, <3>6 DEF UpdateShipmentDiffers
      <4> HIDE DEF pgRow, memRow
      <4>2. GetShipment(tenant, id)' # MemGetShipment(tenant, id)'
        BY <3>3, <3>4, <3>5, <3>6 DEF GetShipment, MemGetShipment
      <4>3. ~CargoReadsEqual'
        BY <4>2 DEF CargoReadsEqual
      <4> HIDE DEF s, pgErr, memErr, listed
      <4> QED BY <1>0, <4>1, <4>3, CallKeeps
    <3>7. CASE key = old.key
      <4>1. ~listed
        BY <1>7, <2>1, <2>5, <3>7 DEF UpdateShipmentDiffers
      <4>2. pgRow = memRow
        BY <1>7, <2>1, <3>7
      <4> HIDE DEF pgRow, memRow
      <4>3. RowsTyped' /\ SameRows'
        BY <1>0, <1>1, <2>3, <3>2, <3>3, <4>2 DEF SameCargo, RowsTyped, SameRows
      <4>4. IdemIsIndex'
        <5>1. \A i \in ShipmentIds : i # id => shipments'[i] = shipments[i]
          BY <1>4, <3>2
        <5> QED BY <1>0, <1>1, <1>7, <2>5, <3>3, <3>4, <3>5, <5>1, IndexKept DEF SameCargo
      <4>5. SameCargo'
        BY <4>3, <4>4 DEF SameCargo
      <4> HIDE DEF s, pgErr, memErr, listed
      <4> QED BY <1>0, <1>2, <2>2, <3>1, <4>1, <4>5, CallKeeps
    <3> QED BY <3>6, <3>7
  <2> QED BY <2>4, <2>5, <2>6
<1> QED BY <1>5, <1>6, <1>7

-----------------------------------------------------------------------------
(* A call that changes legs only, and both stores alike.                   *)
LEMMA LegsWritten ==
  ASSUME SameCargo, NEW id \in LegIds, NEW l \in LegRow, l.capacity <= MaxInt64,
         legs' = [legs EXCEPT ![id] = l], memLegs' = legs',
         UNCHANGED <<shipments, customs, security, memShipments, memIdem, memCustoms, memSecurity>>
  PROVE  SameCargo'
<1>1. RowsTyped'
  <2>1. legs' \in [LegIds -> LegRow \cup {NoRow}]
    BY DEF SameCargo, RowsTyped
  <2>2. ASSUME NEW i \in LegIds, legs'[i] # NoRow PROVE legs'[i].capacity <= MaxInt64
    <3>1. legs'[i] = IF i = id THEN l ELSE legs[i]
      BY DEF SameCargo, RowsTyped
    <3> QED BY <2>2, <3>1 DEF SameCargo, RowsTyped
  <2> QED BY <2>1, <2>2 DEF SameCargo, RowsTyped
<1>2. SameRows' /\ IdemIsIndex'
  BY DEF SameCargo, SameRows, IdemIsIndex, KeyIndexed, FindByIdempotency
<1> QED BY <1>1, <1>2 DEF SameCargo

LEMMA CreateLegKeeps ==
  ASSUME StoresInv, NEW id \in LegIds, NEW l \in NewLegs, CallCreateLeg(id, l)
  PROVE  StoresInv'
<1> DEFINE listed == CreateLegDiffers(id, l)
<1>0. /\ Call(CreateLegErr(id, l), MemCreateLegErr(id, l), listed) /\ listed \in BOOLEAN
      /\ IF CreateLegErr(id, l) = "nil" THEN StoreCreateLeg(id, l) ELSE UNCHANGED legs
      /\ MemCreateLeg(id, l)
      /\ UNCHANGED <<shipments, customs, security, memShipments, memIdem, memCustoms,
                     memSecurity, accountVars>>
  BY DEF CallCreateLeg, CreateLegDiffers
<1>1. ~known /\ SameCargo /\ SameUsers
  BY <1>0 DEF Call, StoresInv
<1>2. SameUsers'
  BY <1>0, <1>1, UsersUntouched
<1>3. memLegs = legs /\ legs \in [LegIds -> LegRow \cup {NoRow}]
  BY <1>1 DEF SameCargo, SameRows, RowsTyped
<1>4. /\ l = [tenant |-> l.tenant, flight |-> l.flight, route |-> l.route,
              capacity |-> l.capacity, reserved |-> l.reserved, status |-> l.status,
              version |-> l.version]
      /\ l.tenant \in Tenants /\ l.flight \in Flights /\ l.route \in Routes
      /\ l.capacity \in Capacities /\ l.reserved \in Reserved
      /\ l.status \in {"planned", "open"} /\ l.version = 1
  BY DEF NewLegs
<1>5. l.capacity \in Int /\ l.reserved \in Int /\ l.capacity <= MaxInt64
  BY <1>4, StoresAssumption, MaxInt64Assumption DEF Reserved
<1>6. CASE listed
  <2>1. CreateLegErr(id, l) # MemCreateLegErr(id, l)
    BY <1>3, <1>5, <1>6 DEF CreateLegDiffers, CreateLegErr, MemCreateLegErr
  <2> HIDE DEF listed
  <2> QED BY <1>0, <1>6, <2>1, CallKeeps
<1>7. CASE ~listed
  <2>1. CreateLegErr(id, l) = "nil" /\ MemCreateLegErr(id, l) = "nil"
    BY <1>3, <1>5, <1>7 DEF CreateLegDiffers, CreateLegErr, MemCreateLegErr, DuplicateLeg
  <2>2. l \in LegRow
    <3>1. l.capacity \in Nat /\ l.reserved \in Nat
      BY <1>5, <1>7 DEF CreateLegDiffers
    <3>2. l.status \in LegStatus /\ l.version \in Nat
      BY <1>4 DEF LegStatus
    <3> QED BY <1>4, <3>1, <3>2 DEF LegRow
  <2>3. legs' = [legs EXCEPT ![id] = l] /\ memLegs' = legs'
    BY <1>0, <1>3, <2>1 DEF StoreCreateLeg, MemCreateLeg
  <2> HIDE DEF listed
  <2>4. SameCargo'
    BY <1>0, <1>1, <1>5, <2>2, <2>3, LegsWritten
  <2> QED BY <1>0, <1>2, <1>7, <2>1, <2>4, CallKeeps
<1> QED BY <1>6, <1>7

(* A leg read by its tenant is the row, in both stores.                    *)
LEMMA LegRead ==
  ASSUME SameCargo, NEW tenant \in Tenants, NEW id \in LegIds
  PROVE  /\ MemGetLeg(tenant, id) = GetLeg(tenant, id)
         /\ GetLeg(tenant, id) # NoRow =>
              /\ GetLeg(tenant, id) = legs[id] /\ legs[id] \in LegRow
              /\ legs[id].capacity <= MaxInt64
BY DEF SameCargo, SameRows, RowsTyped, GetLeg, MemGetLeg

(* What fits a leg is added without wrapping around.                       *)
LEMMA FitsExactly ==
  ASSUME NEW l \in LegRow, l.capacity <= MaxInt64, NEW weight \in Nat, weight > 0,
         l.reserved + weight <= l.capacity
  PROVE  /\ AddInt64(l.reserved, weight) = l.reserved + weight
         /\ MemReservedLeg(l, weight) = ReservedLeg(l, weight)
         /\ ReservedLeg(l, weight) \in LegRow
         /\ ReservedLeg(l, weight).capacity = l.capacity
<1>1. /\ l.reserved \in Nat /\ l.capacity \in Nat /\ l.version + 1 \in Nat
      /\ l.reserved + weight \in Nat
  BY DEF LegRow
<1>2. AddInt64(l.reserved, weight) = l.reserved + weight
  BY <1>1, MaxInt64Assumption DEF AddInt64
<1>3. ASSUME NEW reserved \in Nat, NEW version \in Nat
      PROVE  LET w == [l EXCEPT !.reserved = reserved, !.version = version] IN
             w \in LegRow /\ w.capacity = l.capacity
  BY DEF LegRow
<1> QED BY <1>1, <1>2, <1>3 DEF MemReservedLeg, ReservedLeg

LEMMA ReserveCapacityKeeps ==
  ASSUME StoresInv, NEW tenant \in Tenants, NEW id \in LegIds, NEW weight \in Reservations,
         NEW version \in Versions, CallReserveCapacity(tenant, id, weight, version)
  PROVE  StoresInv'
<1> DEFINE pgErr == ReserveCapacityErr(tenant, id, weight, version)
           memErr == MemReserveCapacityErr(tenant, id, weight, version)
           listed == ReserveCapacityDiffers(tenant, id, weight, version)
           l == GetLeg(tenant, id)
<1>0. /\ Call(pgErr, memErr, listed) /\ listed \in BOOLEAN
      /\ IF pgErr = "nil" THEN StoreReserveCapacity(tenant, id, weight, version)
         ELSE UNCHANGED legs
      /\ MemReserveCapacity(tenant, id, weight, version)
      /\ UNCHANGED <<shipments, customs, security, memShipments, memIdem, memCustoms,
                     memSecurity, accountVars>>
  BY DEF CallReserveCapacity, ReserveCapacityDiffers
<1>1. ~known /\ SameCargo /\ SameUsers
  BY <1>0 DEF Call, StoresInv
<1>2. SameUsers'
  BY <1>0, <1>1, UsersUntouched
<1>3. /\ MemGetLeg(tenant, id) = l
      /\ l # NoRow => l = legs[id] /\ l \in LegRow /\ l.capacity <= MaxInt64
  BY <1>1, LegRead
<1>4. memLegs = legs
  BY <1>1 DEF SameCargo, SameRows
<1>5. l # NoRow => l.reserved \in Nat /\ l.capacity \in Nat /\ l.version \in Nat
  BY <1>3 DEF LegRow
<1>6. weight \in Int /\ version \in Int /\ MaxInt64 \in Nat
  BY MaxInt64Assumption, StoresAssumption DEF Reservations, Versions
<1>7. CASE listed
  <2>1. pgErr # memErr
    <3>1. CASE l = NoRow
      BY <1>3, <3>1 DEF ReserveCapacityErr, MemReserveCapacityErr
    <3>2. CASE l # NoRow
      <4>1. l.version = version /\ (weight <= 0 \/ l.reserved + weight > l.capacity)
        BY <1>7, <3>2 DEF ReserveCapacityDiffers
      <4> HIDE DEF l
      <4>2. CASE weight <= 0
        <5>1. memErr = "ErrCapacity"
          BY <1>3, <1>6, <3>2, <4>1, <4>2 DEF l, MemReserveCapacityErr, ValidateCapacity
        <5> QED BY <5>1 DEF ReserveCapacityErr
      <4>3. CASE weight > 0
        <5>1. pgErr \in {"bigint out of range", "ErrConflict"}
          BY <1>5, <1>6, <3>2, <4>1, <4>3 DEF l, ReserveCapacityErr
        <5>2. memErr \in {"nil", "ErrCapacity"}
          BY <1>3, <3>2, <4>1 DEF l, MemReserveCapacityErr
        <5> QED BY <5>1, <5>2
      <4> QED BY <1>6, <4>2, <4>3
    <3> QED BY <3>1, <3>2
  <2> HIDE DEF pgErr, memErr, listed
  <2> QED BY <1>0, <1>7, <2>1, CallKeeps
<1>8. CASE ~listed
  <2>1. l # NoRow
    BY <1>8 DEF ReserveCapacityDiffers
  <2>2. CASE l.version # version
    <3>1. pgErr = "ErrConflict" /\ memErr = "ErrConflict"
      BY <1>3, <2>1, <2>2 DEF ReserveCapacityErr, MemReserveCapacityErr
    <3>2. UNCHANGED <<storeVars, memVars>>
      BY <1>0, <3>1 DEF MemReserveCapacity, storeVars, memVars
    <3>3. SameCargo'
      BY <1>1, <3>2, CargoUntouched
    <3> HIDE DEF pgErr, memErr, listed
    <3> QED BY <1>0, <1>2, <1>8, <3>1, <3>3, CallKeeps
  <2>3. CASE l.version = version
    <3>1. weight \in Nat /\ weight > 0 /\ l.reserved + weight <= l.capacity
      <4>1. ~(weight <= 0 \/ l.reserved + weight > l.capacity)
        BY <1>8, <2>1, <2>3 DEF ReserveCapacityDiffers
      <4> HIDE DEF l
      <4> QED BY <1>5, <1>6, <2>1, <4>1
    <3>2. /\ AddInt64(l.reserved, weight) = l.reserved + weight
          /\ MemReservedLeg(l, weight) = ReservedLeg(l, weight)
          /\ ReservedLeg(l, weight) \in LegRow
          /\ ReservedLeg(l, weight).capacity = l.capacity
      <4> HIDE DEF l
      <4> QED BY <1>3, <2>1, <3>1, FitsExactly
    <3>3. pgErr = "nil"
      <4> HIDE DEF l
      <4>1. l.reserved + weight <= MaxInt64 /\ l.reserved + weight >= 0
        BY <1>3, <1>5, <1>6, <2>1, <3>1
      <4> QED BY <1>5, <1>6, <2>1, <2>3, <3>1, <4>1 DEF l, ReserveCapacityErr
    <3>4. memErr = "nil"
      <4>1. ValidateCapacity(l, weight)
        <5> HIDE DEF l
        <5> QED BY <1>5, <2>1, <3>1, <3>2 DEF ValidateCapacity
      <4> QED BY <1>3, <2>1, <2>3, <4>1 DEF MemReserveCapacityErr
    <3>5. legs' = [legs EXCEPT ![id] = ReservedLeg(l, weight)]
      BY <1>0, <1>3, <2>1, <3>3 DEF StoreReserveCapacity
    <3>6. memLegs' = [legs EXCEPT ![id] = MemReservedLeg(l, weight)]
      BY <1>0, <1>3, <1>4, <2>1, <3>4 DEF MemReserveCapacity
    <3> HIDE DEF pgErr, memErr, listed, l
    <3>7. SameCargo'
      BY <1>0, <1>1, <1>3, <2>1, <3>2, <3>5, <3>6, LegsWritten
    <3> QED BY <1>0, <1>2, <1>8, <3>3, <3>4, <3>7, CallKeeps
  <2> QED BY <2>2, <2>3
<1> QED BY <1>7, <1>8

LEMMA UpdateLegStatusKeeps ==
  ASSUME StoresInv, NEW tenant \in Tenants, NEW id \in LegIds,
         NEW status \in {"planned", "open", "closed"},
         NEW version \in Versions, CallUpdateLegStatus(tenant, id, status, version)
  PROVE  StoresInv'
<1> DEFINE pgErr == UpdateLegStatusErr(tenant, id, version)
           memErr == MemUpdateLegStatusErr(tenant, id, status, version)
           listed == UpdateLegStatusDiffers(tenant, id, status, version)
           l == GetLeg(tenant, id)
<1>0. /\ Call(pgErr, memErr, listed) /\ listed \in BOOLEAN
      /\ IF pgErr = "nil" THEN StoreUpdateLegStatus(tenant, id, status, version)
         ELSE UNCHANGED legs
      /\ MemUpdateLegStatus(tenant, id, status, version)
      /\ UNCHANGED <<shipments, customs, security, memShipments, memIdem, memCustoms,
                     memSecurity, accountVars>>
  BY DEF CallUpdateLegStatus, UpdateLegStatusDiffers
<1>1. ~known /\ SameCargo /\ SameUsers
  BY <1>0 DEF Call, StoresInv
<1>2. SameUsers'
  BY <1>0, <1>1, UsersUntouched
<1>3. /\ MemGetLeg(tenant, id) = l
      /\ l # NoRow => l = legs[id] /\ l \in LegRow /\ l.capacity <= MaxInt64
  BY <1>1, LegRead
<1>4. memLegs = legs
  BY <1>1 DEF SameCargo, SameRows
<1>5. CASE listed
  <2>1. pgErr # memErr
    BY <1>3, <1>5 DEF UpdateLegStatusErr, MemUpdateLegStatusErr, UpdateLegStatusDiffers
  <2> HIDE DEF pgErr, memErr, listed
  <2> QED BY <1>0, <1>5, <2>1, CallKeeps
<1>6. CASE ~listed /\ l.version # version
  <2>1. l # NoRow
    BY <1>6 DEF UpdateLegStatusDiffers
  <2>2. pgErr = "ErrConflict" /\ memErr = "ErrConflict"
    BY <1>3, <1>6, <2>1 DEF UpdateLegStatusErr, MemUpdateLegStatusErr
  <2>3. UNCHANGED <<storeVars, memVars>>
    BY <1>0, <2>2 DEF MemUpdateLegStatus, storeVars, memVars
  <2>4. SameCargo'
    BY <1>1, <2>3, CargoUntouched
  <2> HIDE DEF pgErr, memErr, listed
  <2> QED BY <1>0, <1>2, <1>6, <2>2, <2>4, CallKeeps
<1>7. CASE ~listed /\ l.version = version
  <2>1. l # NoRow /\ LegCanTransition(l.status, status)
    BY <1>7 DEF UpdateLegStatusDiffers
  <2>2. pgErr = "nil" /\ memErr = "nil"
    BY <1>3, <1>7, <2>1 DEF UpdateLegStatusErr, MemUpdateLegStatusErr
  <2> DEFINE w == OpenedLeg(l, status)
  <2>3. legs' = [legs EXCEPT ![id] = w]
    BY <1>0, <1>3, <2>1, <2>2 DEF StoreUpdateLegStatus
  <2>4. memLegs' = [legs EXCEPT ![id] = w]
    BY <1>0, <1>3, <1>4, <2>1, <2>2 DEF MemUpdateLegStatus, OpenedLeg
  <2> HIDE DEF l
  <2>5. w \in LegRow /\ w.capacity = l.capacity
    <3>1. ASSUME NEW v \in Nat
          PROVE  LET x == [l EXCEPT !.status = status, !.version = v] IN
                 x \in LegRow /\ x.capacity = l.capacity
      BY <1>3, <2>1 DEF LegRow, LegStatus
    <3>2. l.version + 1 \in Nat
      BY <1>3, <2>1 DEF LegRow
    <3> QED BY <3>1, <3>2 DEF OpenedLeg
  <2> HIDE DEF pgErr, memErr, listed, w
  <2>6. SameCargo'
    BY <1>0, <1>1, <1>3, <2>1, <2>3, <2>4, <2>5, LegsWritten
  <2> QED BY <1>0, <1>2, <1>7, <2>2, <2>6, CallKeeps
<1> QED BY <1>5, <1>6, <1>7

LEMMA BookShipmentKeeps ==
  ASSUME StoresInv, NEW tenant \in Tenants, NEW id \in ShipmentIds, NEW leg \in LegIds,
         NEW sv \in Versions, NEW lv \in Versions, CallBookShipment(tenant, id, leg, sv, lv)
  PROVE  StoresInv'
<1> DEFINE pgErr == BookShipmentErr(tenant, id, leg, sv, lv)
           memErr == MemBookShipmentErr(tenant, id, leg, sv, lv)
           listed == pgErr = "bigint out of range"
           s == GetShipment(tenant, id)
           l == GetLeg(tenant, leg)
<1>0. /\ Call(pgErr, memErr, listed) /\ listed \in BOOLEAN
      /\ IF pgErr = "nil" THEN StoreBookShipment(tenant, id, leg, sv, lv)
         ELSE UNCHANGED <<shipments, legs>>
      /\ MemBookShipment(tenant, id, leg, sv, lv)
      /\ UNCHANGED <<customs, security, memIdem, memCustoms, memSecurity, accountVars>>
  BY DEF CallBookShipment
<1>1. ~known /\ SameCargo /\ SameUsers
  BY <1>0 DEF Call, StoresInv
<1>2. SameUsers'
  BY <1>0, <1>1, UsersUntouched
<1>3. /\ MemGetLeg(tenant, leg) = l
      /\ l # NoRow => l = legs[leg] /\ l \in LegRow /\ l.capacity <= MaxInt64
  BY <1>1, LegRead
<1>4. /\ MemGetShipment(tenant, id) = s
      /\ s # NoRow => s = shipments[id] /\ s \in ShipmentRow
  BY <1>1 DEF SameCargo, SameRows, RowsTyped, GetShipment, MemGetShipment
<1>5. /\ memLegs = legs /\ memShipments = shipments
      /\ legs \in [LegIds -> LegRow \cup {NoRow}]
      /\ shipments \in [ShipmentIds -> ShipmentRow \cup {NoRow}]
  BY <1>1 DEF SameCargo, SameRows, RowsTyped
<1>6. ~listed => pgErr = memErr
  BY <1>3, <1>4 DEF BookShipmentErr, MemBookShipmentErr
<1>7. CASE listed
  <2>1. memErr # "bigint out of range"
    BY DEF MemBookShipmentErr
  <2>2. pgErr # memErr
    BY <1>7, <2>1
  <2>3. listed = TRUE
    BY <1>7
  <2> HIDE DEF pgErr, memErr, listed
  <2> QED BY <1>0, <2>2, <2>3, CallKeeps
<1>8. CASE ~listed /\ pgErr # "nil"
  <2>1. UNCHANGED <<storeVars, memVars>>
    BY <1>0, <1>6, <1>8 DEF MemBookShipment, storeVars, memVars
  <2>2. SameCargo'
    BY <1>1, <2>1, CargoUntouched
  <2> HIDE DEF pgErr, memErr, listed
  <2> QED BY <1>0, <1>2, <1>6, <1>8, <2>2, CallKeeps
<1>9. CASE pgErr = "nil"
  <2>1. /\ s # NoRow /\ l # NoRow /\ ValidateCapacity(l, s.weight)
        /\ ~(l.reserved + s.weight > MaxInt64)
    BY <1>9 DEF BookShipmentErr
  <2> DEFINE weight == s.weight
             w == BookedShipment(s, leg)
             r == ReservedLeg(l, weight)
  <2>2. memErr = "nil" /\ ~listed
    BY <1>6, <1>9
  <2>3. /\ legs' = [legs EXCEPT ![leg] = r]
        /\ shipments' = [shipments EXCEPT ![id] = w]
    BY <1>0, <1>3, <1>4, <1>9, <2>1 DEF StoreBookShipment
  <2>4. /\ memLegs' = [legs EXCEPT ![leg] = MemReservedLeg(l, weight)]
        /\ memShipments' = [shipments EXCEPT ![id] = w]
    BY <1>0, <1>3, <1>4, <1>5, <2>1, <2>2 DEF MemBookShipment, MemBookedShipment, BookedShipment
  <2> HIDE DEF s, l
  <2>5. /\ MemReservedLeg(l, weight) = r
        /\ r \in LegRow /\ r.capacity = l.capacity
    <3>1. weight \in Nat /\ weight > 0 /\ l.reserved \in Nat /\ MaxInt64 \in Nat
      BY <1>3, <1>4, <2>1, MaxInt64Assumption DEF ShipmentRow, LegRow, ValidateCapacity
    <3>2. l.reserved + weight <= l.capacity
      BY <2>1, <3>1 DEF ValidateCapacity, AddInt64
    <3> QED BY <1>3, <2>1, <3>1, <3>2, FitsExactly
  <2>6. w \in ShipmentRow /\ w.tenant = s.tenant /\ w.key = s.key
    <3>1. ASSUME NEW status \in ShipmentStatus, NEW v \in Nat
          PROVE  LET x == [s EXCEPT !.status = status, !.leg = leg, !.version = v] IN
                 x \in ShipmentRow /\ x.tenant = s.tenant /\ x.key = s.key
      BY <1>4, <2>1 DEF ShipmentRow
    <3>2. "booked" \in ShipmentStatus /\ s.version + 1 \in Nat
      BY <1>4, <2>1 DEF ShipmentRow, ShipmentStatus
    <3> QED BY <3>1, <3>2 DEF BookedShipment
  <2> HIDE DEF pgErr, memErr, listed, w, r, weight
  <2>7. w # NoRow
    BY <2>6, NoValuesAssumption
  <2>8. IdemIsIndex'
    <3>1. \A i \in ShipmentIds : shipments'[i] = IF i = id THEN w ELSE shipments[i]
      BY <1>5, <2>3
    <3> QED BY <1>0, <1>1, <1>4, <2>1, <2>6, <2>7, <3>1, IndexKept DEF SameCargo
  <2>9. RowsTyped'
    <3>1. /\ legs' \in [LegIds -> LegRow \cup {NoRow}]
          /\ shipments' \in [ShipmentIds -> ShipmentRow \cup {NoRow}]
      BY <1>5, <2>3, <2>5, <2>6
    <3>2. ASSUME NEW i \in LegIds, legs'[i] # NoRow PROVE legs'[i].capacity <= MaxInt64
      <4>1. legs'[i] = IF i = leg THEN r ELSE legs[i]
        BY <1>5, <2>3
      <4> QED BY <1>1, <1>3, <2>1, <2>5, <3>2, <4>1 DEF SameCargo, RowsTyped
    <3> QED BY <1>0, <1>1, <3>1, <3>2 DEF SameCargo, RowsTyped
  <2>10. SameRows'
    BY <1>0, <1>1, <2>3, <2>4, <2>5 DEF SameCargo, SameRows
  <2>11. SameCargo'
    BY <2>8, <2>9, <2>10 DEF SameCargo
  <2> QED BY <1>0, <1>2, <1>9, <2>2, <2>11, CallKeeps
<1> QED BY <1>7, <1>8, <1>9

(* A put under another identifier shows in a table with other statuses.    *)
Elsewhere(table, id, caseId, status) ==
  caseId # id /\ \E o \in {id, caseId} \cap ShipmentIds : table[o] # status

LEMMA PutCustomsKeeps ==
  ASSUME StoresInv, NEW id \in ShipmentIds, NEW caseId \in CaseIds,
         NEW reviewer \in UserIds \cup {NoAccount}, NEW status \in CustomsInputs,
         CallPutCustoms(id, caseId, reviewer, status)
  PROVE  StoresInv'
<1> DEFINE err == PutErr(customs, caseIds, id, caseId, Exists(reviewer))
           listed == PutDiffers(err, customs, id, caseId, status)
<1>0. /\ Call(err, "nil", listed) /\ listed \in BOOLEAN
      /\ IF err = "nil" THEN StorePutCustoms(id, status) ELSE UNCHANGED customs
      /\ MemPutCustoms(caseId, status)
      /\ UNCHANGED <<shipments, legs, security, memShipments, memIdem, memLegs, memSecurity,
                     accountVars>>
  BY DEF CallPutCustoms, PutDiffers
<1>1. ~known /\ SameCargo /\ SameUsers
  BY <1>0 DEF Call, StoresInv
<1>2. SameUsers'
  BY <1>0, <1>1, UsersUntouched
<1>3. memCustoms = customs /\ customs \in [ShipmentIds -> CustomsInputs \cup {NoRow}]
  BY <1>1 DEF SameCargo, SameRows, RowsTyped
<1>4. CASE err # "nil"
  <2>1. listed = TRUE
    BY <1>4 DEF PutDiffers
  <2> HIDE DEF err, listed
  <2> QED BY <1>0, <1>4, <2>1, CallKeeps
<1>5. CASE err = "nil"
  <2>1. customs' = [customs EXCEPT ![id] = status]
    BY <1>0, <1>5 DEF StorePutCustoms
  <2>2. memCustoms' = IF caseId \in ShipmentIds THEN [customs EXCEPT ![caseId] = status] ELSE customs
    BY <1>0, <1>3 DEF MemPutCustoms
  <2>3. listed <=> Elsewhere(customs, id, caseId, status)
    BY <1>5 DEF PutDiffers, Elsewhere
  <2>4. /\ Elsewhere(customs, id, caseId, status) =>
             \E o \in ShipmentIds : customs'[o] # memCustoms'[o]
        /\ ~Elsewhere(customs, id, caseId, status) => customs' = memCustoms'
    <3> HIDE DEF err, listed
    <3>1. CASE caseId \in ShipmentIds
      BY <1>3, <2>1, <2>2, <3>1 DEF Elsewhere
    <3>2. CASE caseId \notin ShipmentIds
      BY <1>3, <2>1, <2>2, <3>2 DEF Elsewhere
    <3> QED BY <3>1, <3>2
  <2>5. customs' \in [ShipmentIds -> CustomsInputs \cup {NoRow}]
    BY <1>3, <2>1
  <2> HIDE DEF err, listed
  <2>6. listed => ~CargoReadsEqual'
    BY <2>3, <2>4 DEF CargoReadsEqual, GetCustoms, MemGetCustoms
  <2>7. ~listed => SameCargo'
    BY <1>0, <1>1, <2>3, <2>4, <2>5 DEF SameCargo, RowsTyped, SameRows, IdemIsIndex,
       KeyIndexed, FindByIdempotency
  <2> QED BY <1>0, <1>2, <1>5, <2>6, <2>7, CallKeeps
<1> QED BY <1>4, <1>5

LEMMA PutSecurityKeeps ==
  ASSUME StoresInv, NEW id \in ShipmentIds, NEW checkId \in CaseIds,
         NEW officer \in UserIds \cup {NoAccount}, NEW status \in SecurityInputs,
         CallPutSecurity(id, checkId, officer, status)
  PROVE  StoresInv'
<1> DEFINE err == PutErr(security, checkIds, id, checkId, Exists(officer))
           listed == PutDiffers(err, security, id, checkId, status)
<1>0. /\ Call(err, "nil", listed) /\ listed \in BOOLEAN
      /\ IF err = "nil" THEN StorePutSecurity(id, status) ELSE UNCHANGED security
      /\ MemPutSecurity(checkId, status)
      /\ UNCHANGED <<shipments, legs, customs, memShipments, memIdem, memLegs, memCustoms,
                     accountVars>>
  BY DEF CallPutSecurity, PutDiffers
<1>1. ~known /\ SameCargo /\ SameUsers
  BY <1>0 DEF Call, StoresInv
<1>2. SameUsers'
  BY <1>0, <1>1, UsersUntouched
<1>3. memSecurity = security /\ security \in [ShipmentIds -> SecurityInputs \cup {NoRow}]
  BY <1>1 DEF SameCargo, SameRows, RowsTyped
<1>4. CASE err # "nil"
  <2>1. listed = TRUE
    BY <1>4 DEF PutDiffers
  <2> HIDE DEF err, listed
  <2> QED BY <1>0, <1>4, <2>1, CallKeeps
<1>5. CASE err = "nil"
  <2>1. security' = [security EXCEPT ![id] = status]
    BY <1>0, <1>5 DEF StorePutSecurity
  <2>2. memSecurity' = IF checkId \in ShipmentIds THEN [security EXCEPT ![checkId] = status] ELSE security
    BY <1>0, <1>3 DEF MemPutSecurity
  <2>3. listed <=> Elsewhere(security, id, checkId, status)
    BY <1>5 DEF PutDiffers, Elsewhere
  <2>4. /\ Elsewhere(security, id, checkId, status) =>
             \E o \in ShipmentIds : security'[o] # memSecurity'[o]
        /\ ~Elsewhere(security, id, checkId, status) => security' = memSecurity'
    <3> HIDE DEF err, listed
    <3>1. CASE checkId \in ShipmentIds
      BY <1>3, <2>1, <2>2, <3>1 DEF Elsewhere
    <3>2. CASE checkId \notin ShipmentIds
      BY <1>3, <2>1, <2>2, <3>2 DEF Elsewhere
    <3> QED BY <3>1, <3>2
  <2>5. security' \in [ShipmentIds -> SecurityInputs \cup {NoRow}]
    BY <1>3, <2>1
  <2> HIDE DEF err, listed
  <2>6. listed => ~CargoReadsEqual'
    BY <2>3, <2>4 DEF CargoReadsEqual, GetSecurity, MemGetSecurity
  <2>7. ~listed => SameCargo'
    BY <1>0, <1>1, <2>3, <2>4, <2>5 DEF SameCargo, RowsTyped, SameRows, IdemIsIndex,
       KeyIndexed, FindByIdempotency
  <2> QED BY <1>0, <1>2, <1>5, <2>6, <2>7, CallKeeps
<1> QED BY <1>4, <1>5

-----------------------------------------------------------------------------
(* Users that keep their e-mail addresses keep the index.                  *)
LEMMA EmailsKept ==
  ASSUME ByEmailIsIndex, UNCHANGED memByEmail,
         \A u \in UserIds : /\ pgUsers'[u] = NoAccount <=> pgUsers[u] = NoAccount
                            /\ pgUsers[u] # NoAccount => pgUsers'[u].email = pgUsers[u].email
  PROVE  ByEmailIsIndex'
<1>1. \A email : {u \in UserIds : pgUsers'[u] # NoAccount /\ pgUsers'[u].email = email}
               = {u \in UserIds : pgUsers[u] # NoAccount /\ pgUsers[u].email = email}
  OBVIOUS
<1> QED BY <1>1 DEF ByEmailIsIndex, EmailIndexed

LEMMA CreateUserKeeps ==
  ASSUME StoresInv, NEW id \in UserIds, NEW email \in Emails, CallCreateUser(id, email)
  PROVE  StoresInv'
<1> DEFINE pgErr == PgCreateUserErr(id, email)
           memErr == MemCreateUserErr(id, email)
           listed == pgUsers[id] # NoAccount /\ PgGetUserByEmail(email) = NoAccount
<1>0. /\ Call(pgErr, memErr, listed) /\ listed \in BOOLEAN
      /\ PgCreateUser(id, email) /\ MemCreateUser(id, email)
      /\ UNCHANGED <<storeVars, idVars, memVars, pgSessions, memSessions>>
  BY DEF CallCreateUser
<1>1. ~known /\ SameCargo /\ SameUsers
  BY <1>0 DEF Call, StoresInv
<1>2. SameCargo'
  BY <1>0, <1>1, CargoUntouched
<1>3. /\ memUsers = pgUsers /\ pgUsers \in [UserIds -> UserRow \cup {NoAccount}]
      /\ memByEmail \in [Emails -> UserIds \cup {NoAccount}]
      /\ PgGetUserByEmail(email) = NoAccount <=> memByEmail[email] = NoAccount
  BY <1>1, SameEmail DEF SameUsers, SameAccounts, AccountsTyped, ByEmailIsIndex
<1>4. CASE listed
  <2>1. pgErr # memErr /\ listed = TRUE
    BY <1>3, <1>4 DEF PgCreateUserErr, MemCreateUserErr
  <2> HIDE DEF pgErr, memErr, listed
  <2> QED BY <1>0, <2>1, CallKeeps
<1>5. CASE PgGetUserByEmail(email) # NoAccount
  <2>1. pgErr = "ErrConflict" /\ memErr = "ErrConflict" /\ ~listed
    BY <1>3, <1>5 DEF PgCreateUserErr, MemCreateUserErr
  <2>2. UNCHANGED accountVars
    BY <1>0, <2>1 DEF PgCreateUser, MemCreateUser, accountVars
  <2>3. SameUsers'
    BY <1>1, <2>2, UsersUntouched
  <2> HIDE DEF pgErr, memErr, listed
  <2> QED BY <1>0, <1>2, <2>1, <2>3, CallKeeps
<1>6. CASE ~listed /\ PgGetUserByEmail(email) = NoAccount
  <2>1. pgErr = "nil" /\ memErr = "nil" /\ pgUsers[id] = NoAccount
    BY <1>3, <1>6 DEF PgCreateUserErr, MemCreateUserErr
  <2> DEFINE new == NewUser(email)
  <2>2. /\ pgUsers' = [pgUsers EXCEPT ![id] = new] /\ memUsers' = pgUsers'
        /\ memByEmail' = [memByEmail EXCEPT ![email] = id]
    BY <1>0, <1>3, <2>1 DEF PgCreateUser, MemCreateUser
  <2>3. new \in UserRow /\ new.email = email
    BY DEF NewUser, UserRow
  <2> HIDE DEF new
  <2>4. new # NoAccount
    BY <2>3, StoresAssumption
  <2>5. AccountsTyped' /\ SameAccounts'
    BY <1>0, <1>1, <1>3, <2>2, <2>3 DEF SameUsers, AccountsTyped, SameAccounts
  <2>6. memByEmail' \in [Emails -> UserIds \cup {NoAccount}]
    BY <1>3, <2>2
  <2>7. ASSUME NEW e \in Emails PROVE EmailIndexed(e)'
    <3>1. EmailIndexed(e) /\ EmailIndexed(email)
      BY <1>1 DEF SameUsers, ByEmailIsIndex
    <3>2. \A u \in UserIds : pgUsers'[u] = IF u = id THEN new ELSE pgUsers[u]
      BY <1>3, <2>2
    <3>3. CASE e = email
      <4>1. memByEmail'[e] = id /\ memByEmail[e] = NoAccount
        BY <1>3, <1>6, <2>2, <3>3
      <4>2. {u \in UserIds : pgUsers'[u] # NoAccount /\ pgUsers'[u].email = e} = {id}
        BY <2>3, <2>4, <3>1, <3>2, <3>3, <4>1 DEF EmailIndexed
      <4> QED BY <4>1, <4>2, StoresAssumption DEF EmailIndexed
    <3>4. CASE e # email
      <4>1. memByEmail'[e] = memByEmail[e]
        BY <1>3, <2>2, <3>4
      <4>2. {u \in UserIds : pgUsers'[u] # NoAccount /\ pgUsers'[u].email = e}
            = {u \in UserIds : pgUsers[u] # NoAccount /\ pgUsers[u].email = e}
        BY <2>1, <2>3, <3>2, <3>4
      <4> QED BY <3>1, <4>1, <4>2 DEF EmailIndexed
    <3> QED BY <3>3, <3>4
  <2>8. SameUsers'
    BY <2>5, <2>6, <2>7 DEF SameUsers, ByEmailIsIndex
  <2> HIDE DEF pgErr, memErr, listed
  <2> QED BY <1>0, <1>2, <1>6, <2>1, <2>8, CallKeeps
<1> QED BY <1>4, <1>5, <1>6

(* The sessions of a user end alike in both stores.                        *)
LEMMA SessionsEnded ==
  ASSUME AccountsTyped, SameAccounts, NEW user,
         PgRevokeUserSessions(user), MemRevokeUserSessions(user)
  PROVE  memSessions' = pgSessions' /\ pgSessions' \in [Tokens -> SessionRow \cup {NoAccount}]
<1>1. memSessions' = pgSessions'
  BY DEF SameAccounts, PgRevokeUserSessions, MemRevokeUserSessions
<1>2. \A r \in SessionRow : [r EXCEPT !.revoked = TRUE] \in SessionRow
  BY DEF SessionRow
<1> QED BY <1>1, <1>2 DEF AccountsTyped, PgRevokeUserSessions

LEMMA DeactivateUserKeeps ==
  ASSUME StoresInv, NEW id \in UserIds, CallDeactivateUser(id)
  PROVE  StoresInv'
<1>0. /\ Call(PgDeactivateUserErr(id), MemDeactivateUserErr(id), FALSE)
      /\ PgDeactivateUser(id) /\ MemDeactivateUser(id)
      /\ UNCHANGED <<storeVars, idVars, memVars, memByEmail>>
  BY DEF CallDeactivateUser
<1>1. ~known /\ SameCargo /\ SameUsers
  BY <1>0 DEF Call, StoresInv
<1>2. SameCargo'
  BY <1>0, <1>1, CargoUntouched
<1>3. /\ memUsers = pgUsers /\ pgUsers \in [UserIds -> UserRow \cup {NoAccount}]
      /\ AccountsTyped /\ SameAccounts /\ ByEmailIsIndex
  BY <1>1 DEF SameUsers, SameAccounts, AccountsTyped
<1>4. PgDeactivateUserErr(id) = MemDeactivateUserErr(id)
  BY <1>3 DEF PgDeactivateUserErr, MemDeactivateUserErr
<1>5. SameUsers'
  <2>1. CASE pgUsers[id] = NoAccount
    <3>1. UNCHANGED accountVars
      BY <1>0, <1>4, <2>1 DEF PgDeactivateUser, MemDeactivateUser, PgDeactivateUserErr, accountVars
    <3> QED BY <1>1, <3>1, UsersUntouched
  <2>2. CASE pgUsers[id] # NoAccount
    <3> DEFINE w == [pgUsers[id] EXCEPT !.active = FALSE]
    <3>1. /\ pgUsers' = [pgUsers EXCEPT ![id] = w] /\ memUsers' = pgUsers'
          /\ PgRevokeUserSessions(id) /\ MemRevokeUserSessions(id)
      BY <1>0, <1>3, <1>4, <2>2 DEF PgDeactivateUser, MemDeactivateUser, PgDeactivateUserErr
    <3>2. w \in UserRow /\ w.email = pgUsers[id].email
      <4>1. pgUsers[id] \in UserRow
        BY <1>3, <2>2
      <4> QED BY <4>1 DEF UserRow
    <3> HIDE DEF w
    <3>3. w # NoAccount
      BY <3>2, StoresAssumption
    <3>4. memSessions' = pgSessions' /\ pgSessions' \in [Tokens -> SessionRow \cup {NoAccount}]
      BY <1>3, <3>1, SessionsEnded
    <3>5. \A u \in UserIds : pgUsers'[u] = IF u = id THEN w ELSE pgUsers[u]
      BY <1>3, <3>1
    <3>6. ByEmailIsIndex'
      BY <1>0, <1>3, <2>2, <3>2, <3>3, <3>5, EmailsKept
    <3>7. pgUsers' \in [UserIds -> UserRow \cup {NoAccount}]
      BY <1>3, <3>1, <3>2
    <3> QED BY <3>1, <3>4, <3>6, <3>7 DEF SameUsers, AccountsTyped, SameAccounts
  <2> QED BY <2>1, <2>2
<1> QED BY <1>0, <1>2, <1>4, <1>5, CallKeeps

(* A call that changes sessions only, and both stores alike.               *)
LEMMA SessionsWritten ==
  ASSUME SameUsers, UNCHANGED <<pgUsers, memUsers, memByEmail>>, memSessions' = pgSessions',
         pgSessions' \in [Tokens -> SessionRow \cup {NoAccount}]
  PROVE  SameUsers'
BY DEF SameUsers, AccountsTyped, SameAccounts, ByEmailIsIndex, EmailIndexed

LEMMA CreateSessionKeeps ==
  ASSUME StoresInv, NEW token \in Tokens, NEW id \in SessionIds, NEW user \in UserIds,
         CallCreateSession(token, id, user)
  PROVE  StoresInv'
<1> DEFINE err == PgCreateSessionErr(token, id, user)
           listed == err # "nil"
<1>0. /\ Call(err, "nil", listed) /\ listed \in BOOLEAN
      /\ PgCreateSession(token, id, user) /\ MemCreateSession(token, id, user)
      /\ UNCHANGED <<storeVars, idVars, memVars, pgUsers, memUsers, memByEmail>>
  BY DEF CallCreateSession
<1>1. ~known /\ SameCargo /\ SameUsers
  BY <1>0 DEF Call, StoresInv
<1>2. SameCargo'
  BY <1>0, <1>1, CargoUntouched
<1>3. listed => err # "nil"
  OBVIOUS
<1>4. ~listed => err = "nil" /\ SameUsers'
  <2> SUFFICES ASSUME err = "nil" PROVE SameUsers'
    OBVIOUS
  <2>1. /\ memSessions = pgSessions /\ pgSessions \in [Tokens -> SessionRow \cup {NoAccount}]
    BY <1>1 DEF SameUsers, SameAccounts, AccountsTyped
  <2>2. NewSession(id, user) \in SessionRow
    BY DEF NewSession, SessionRow
  <2>3. /\ pgSessions' = [pgSessions EXCEPT ![token] = NewSession(id, user)]
        /\ memSessions' = pgSessions'
    BY <1>0, <2>1 DEF PgCreateSession, MemCreateSession
  <2>4. pgSessions' \in [Tokens -> SessionRow \cup {NoAccount}]
    BY <2>1, <2>2, <2>3
  <2> QED BY <1>0, <1>1, <2>3, <2>4, SessionsWritten
<1> HIDE DEF err, listed
<1> QED BY <1>0, <1>2, <1>3, <1>4, CallKeeps

LEMMA RevokeSessionKeeps ==
  ASSUME StoresInv, NEW token \in Tokens, CallRevokeSession(token)
  PROVE  StoresInv'
<1> DEFINE pgErr == PgRevokeSessionErr(token)
           memErr == MemRevokeSessionErr(token)
           listed == pgSessions[token] # NoAccount /\ pgErr # "nil"
<1>0. /\ Call(pgErr, memErr, listed) /\ listed \in BOOLEAN
      /\ PgRevokeSession(token) /\ MemRevokeSession(token)
      /\ UNCHANGED <<storeVars, idVars, memVars, pgUsers, memUsers, memByEmail>>
  BY DEF CallRevokeSession
<1>1. ~known /\ SameCargo /\ SameUsers
  BY <1>0 DEF Call, StoresInv
<1>2. SameCargo'
  BY <1>0, <1>1, CargoUntouched
<1>3. /\ memSessions = pgSessions /\ pgSessions \in [Tokens -> SessionRow \cup {NoAccount}]
  BY <1>1 DEF SameUsers, SameAccounts, AccountsTyped
<1>4. listed => pgErr # memErr
  BY <1>3 DEF PgRevokeSessionErr, MemRevokeSessionErr
<1>5. ~listed => pgErr = memErr
  BY <1>3 DEF PgRevokeSessionErr, MemRevokeSessionErr
<1>6. ~listed => SameUsers'
  <2> SUFFICES ASSUME ~listed PROVE SameUsers'
    OBVIOUS
  <2>1. memSessions' = pgSessions'
    BY <1>0, <1>3, <1>5 DEF PgRevokeSession, MemRevokeSession
  <2>2. pgSessions' \in [Tokens -> SessionRow \cup {NoAccount}]
    <3>1. \A r \in SessionRow : [r EXCEPT !.revoked = TRUE] \in SessionRow
      BY DEF SessionRow
    <3>2. CASE pgErr = "nil"
      <4>1. pgSessions[token] \in SessionRow
        BY <1>3, <3>2 DEF PgRevokeSessionErr
      <4>2. pgSessions' = [pgSessions EXCEPT ![token] = [pgSessions[token] EXCEPT !.revoked = TRUE]]
        BY <1>0, <3>2 DEF PgRevokeSession
      <4> QED BY <1>3, <3>1, <4>1, <4>2
    <3>3. CASE pgErr # "nil"
      BY <1>0, <1>3, <3>3 DEF PgRevokeSession
    <3> QED BY <3>2, <3>3
  <2> QED BY <1>0, <1>1, <2>1, <2>2, SessionsWritten
<1> HIDE DEF pgErr, memErr, listed
<1> QED BY <1>0, <1>2, <1>4, <1>5, <1>6, CallKeeps

LEMMA RevokeUserSessionsKeeps ==
  ASSUME StoresInv, NEW user \in UserIds, CallRevokeUserSessions(user)
  PROVE  StoresInv'
<1>0. /\ Call("nil", "nil", FALSE)
      /\ PgRevokeUserSessions(user) /\ MemRevokeUserSessions(user)
      /\ UNCHANGED <<storeVars, idVars, memVars, pgUsers, memUsers, memByEmail>>
  BY DEF CallRevokeUserSessions
<1>1. ~known /\ SameCargo /\ SameUsers
  BY <1>0 DEF Call, StoresInv
<1>2. SameCargo'
  BY <1>0, <1>1, CargoUntouched
<1>3. SameUsers'
  BY <1>0, <1>1, SessionsEnded, SessionsWritten DEF SameUsers
<1> QED BY <1>0, <1>2, <1>3, CallKeeps

-----------------------------------------------------------------------------
(* Empty stores are the same, at the start and after a restart.            *)
LEMMA EmptyStores == Empty => StoresInv
<1> SUFFICES ASSUME Empty PROVE StoresInv
  OBVIOUS
<1>1. RowsTyped /\ SameRows
  BY DEF Empty, StoreInit, MemInit, RowsTyped, SameRows
<1>2. IdemIsIndex
  <2>1. \A tenant, key : FindByIdempotency(tenant, key) = {}
    BY DEF Empty, StoreInit, FindByIdempotency
  <2>2. \A tenant \in Tenants, key \in Keys : memIdem[<<tenant, key>>] = NoRow
    BY DEF Empty, MemInit
  <2> QED BY <2>1, <2>2 DEF Empty, MemInit, IdemIsIndex, KeyIndexed
<1>3. SameUsers
  BY DEF Empty, AccountsInit, SameUsers, AccountsTyped, SameAccounts, ByEmailIsIndex, EmailIndexed
<1> QED BY <1>1, <1>2, <1>3 DEF Empty, StoresInv, SameCargo

LEMMA RestartEmpties == Restart => Empty'
BY DEF Restart, Empty, StoreInit, MemInit, AccountsInit

LEMMA StoresInvStep == StoresInv /\ [Next]_vars => StoresInv'
<1> SUFFICES ASSUME StoresInv, [Next]_vars PROVE StoresInv'
  OBVIOUS
<1>1. CASE UNCHANGED vars
  <2>1. UNCHANGED <<known, answer, storeVars, memVars, accountVars>>
    BY <1>1 DEF vars
  <2>2. SameCargo /\ SameUsers => SameCargo' /\ SameUsers'
    BY <2>1, CargoUntouched, UsersUntouched
  <2>3. Differ => Differ'
    BY <2>1 DEF Differ, CargoReadsEqual, AccountReadsEqual, GetShipment, MemGetShipment, GetLeg,
         MemGetLeg, FindByIdempotency, MemFindByIdempotency, GetCustoms, MemGetCustoms,
         GetSecurity, MemGetSecurity, PgGetUserByEmail, MemGetUserByEmail, PgGetUser, MemGetUser,
         PgGetSession, MemGetSession, storeVars, memVars, accountVars
  <2> QED BY <2>1, <2>2, <2>3 DEF StoresInv
<1>2. CASE CreateCalls
  BY <1>2, CreateShipmentKeeps DEF CreateCalls
<1>3. CASE UpdateCalls
  <2>1. "cancelled" \in ShipmentStatus
    BY DEF ShipmentStatus
  <2> QED BY <1>3, <2>1, UpdateShipmentKeeps DEF UpdateCalls
<1>4. CASE CreateLegCalls \/ LegCalls
  BY <1>4, CreateLegKeeps, ReserveCapacityKeeps, UpdateLegStatusKeeps
  DEF CreateLegCalls, LegCalls
<1>5. CASE BookCalls
  BY <1>5, BookShipmentKeeps DEF BookCalls
<1>7. CASE PutCalls
  BY <1>7, PutCustomsKeeps, PutSecurityKeeps DEF PutCalls
<1>8. CASE CreateUserCalls
  BY <1>8, CreateUserKeeps DEF CreateUserCalls
<1>9. CASE AccountCalls
  BY <1>9, DeactivateUserKeeps, RevokeUserSessionsKeeps, CreateSessionKeeps,
     RevokeSessionKeeps DEF AccountCalls
<1>6. CASE Restart
  <2>1. Empty'
    BY <1>6, RestartEmpties
  <2> QED BY <2>1, EmptyStores, PTL
<1> QED BY <1>1, <1>2, <1>3, <1>4, <1>5, <1>6, <1>7, <1>8, <1>9 DEF Next

(* Whatever calls are made, in whatever order: the memory store and        *)
(* Postgres give the same answers and the same reads until the first call  *)
(* of the list, and every call of the list makes them differ.              *)
THEOREM MemoryTellsPostgres == Spec => []StoresAgree
<1>1. Init => StoresInv
  BY EmptyStores DEF Init
<1>2. StoresInv /\ [Next]_vars => StoresInv'
  BY StoresInvStep
<1>3. StoresInv => StoresAgree
  BY SameCargoReads, SameAccountReads DEF StoresInv, StoresAgree, Differ
<1> QED BY <1>1, <1>2, <1>3, PTL DEF Spec
=============================================================================
