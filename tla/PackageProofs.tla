---------------------------- MODULE PackageProofs ----------------------------
(***************************************************************************)
(* What the packages without goroutines promise, proved for every set of   *)
(* callers, keys and identifiers, every limit and every length of a run.   *)
(***************************************************************************)
EXTENDS Transport, Clearance, Idempotency, Sequence, CapacityBook,
        ShipmentAggregate, Warehouse, BookingLedger, FinanceLedger,
        RateLimit, RoutePlanner, Pricing, Timeline, Reconciliation,
        PriorityQueue, SequenceTheorems, SetLemmas

-----------------------------------------------------------------------------
(* Transport.  No assignment is ever cancelled, so ~Taken says that the    *)
(* vehicle has none at all; and an identifier names one assignment, so the *)
(* time kept for it is that of the assignment that is there.               *)
Assignment ==
  [id : AssignmentIds, vehicle : Vehicles, weight : VehicleKg, status : {"assigned", "completed"}]

PlannerTypeOK ==
  /\ DOMAIN vehicles = Vehicles /\ DOMAIN assignedAt = AssignmentIds
  /\ assignments \subseteq Assignment

OnePerId ==
  \A a, b \in assignments : a.id = b.id => a = b

OnAVehicle ==
  \A a \in assignments : vehicles[a.vehicle] # NoVehicle

PlannerInv == PlannerTypeOK /\ OnePerId /\ OnAVehicle /\ OneLoadPerVehicle

LEMMA PlannerStep == PlannerInv /\ [PlannerNext]_plannerVars => PlannerInv'
<1> SUFFICES ASSUME PlannerInv, [PlannerNext]_plannerVars PROVE PlannerInv'
  OBVIOUS
<1>a. PlannerTypeOK /\ OnePerId /\ OnAVehicle /\ OneLoadPerVehicle
  BY DEF PlannerInv
<1>0. CASE UNCHANGED plannerVars
  BY <1>0, <1>a DEF plannerVars, PlannerInv, PlannerTypeOK, OnePerId, OnAVehicle, OneLoadPerVehicle
<1>1. ASSUME NEW id \in Vehicles, NEW max \in VehicleKg, NEW from \in Days, NEW to \in Days,
             AddVehicle(id, max, from, to)
      PROVE  PlannerInv'
  <2>1. /\ vehicles[id] = NoVehicle /\ UNCHANGED <<assignments, assignedAt>>
        /\ DOMAIN vehicles' = Vehicles
        /\ \A v \in Vehicles : v # id => vehicles'[v] = vehicles[v]
    BY <1>1, <1>a DEF AddVehicle, PlannerTypeOK
  <2>2. \A a \in assignments : a.vehicle # id /\ vehicles'[a.vehicle] = vehicles[a.vehicle]
    BY <1>a, <2>1 DEF OnAVehicle, PlannerTypeOK, Assignment
  <2> QED BY <1>a, <2>1, <2>2
          DEF PlannerInv, PlannerTypeOK, OnePerId, OnAVehicle, OneLoadPerVehicle
<1>2. ASSUME NEW id \in AssignmentIds, NEW v \in Vehicles, NEW kg \in VehicleKg, NEW at \in Days,
             Assign(id, v, kg, at)
      PROVE  PlannerInv'
  <2> DEFINE new == [id |-> id, vehicle |-> v, weight |-> kg, status |-> "assigned"]
  <2>1. /\ kg <= vehicles[v].max /\ vehicles[v].from <= at /\ at < vehicles[v].to
        /\ vehicles[v] # NoVehicle /\ ~Taken(v) /\ UNCHANGED vehicles
        /\ assignments' = {a \in assignments : a.id # id} \cup {new}
        /\ assignedAt' = [assignedAt EXCEPT ![id] = at]
    BY <1>2 DEF Assign
  <2>2. new \in Assignment /\ new.id = id /\ new.vehicle = v /\ new.weight = kg
    BY DEF Assignment
  <2>3. \A a \in assignments : a \in Assignment /\ a.vehicle # v
    BY <1>a, <2>1 DEF PlannerTypeOK, Assignment, Taken
  <2>4. /\ DOMAIN assignedAt' = AssignmentIds /\ assignedAt'[id] = at
        /\ \A a \in assignments : a.id # id => assignedAt'[a.id] = assignedAt[a.id]
    BY <1>a, <2>1, <2>3 DEF PlannerTypeOK, Assignment
  <2> HIDE DEF new
  <2>5. PlannerTypeOK' /\ OnePerId' /\ OnAVehicle'
    BY <1>a, <2>1, <2>2, <2>3, <2>4 DEF PlannerTypeOK, OnePerId, OnAVehicle
  <2>6. OneLoadPerVehicle'
    BY <1>a, <2>1, <2>2, <2>3, <2>4 DEF OneLoadPerVehicle
  <2> QED BY <2>5, <2>6 DEF PlannerInv
<1>3. ASSUME NEW a \in assignments, CompleteAssignment(a) PROVE PlannerInv'
  <2> DEFINE done == [a EXCEPT !.status = "completed"]
  <2>1. /\ assignments' = (assignments \ {a}) \cup {done}
        /\ UNCHANGED <<vehicles, assignedAt>>
    BY <1>3 DEF CompleteAssignment
  <2>2. /\ a \in Assignment /\ done \in Assignment
        /\ done.id = a.id /\ done.vehicle = a.vehicle /\ done.weight = a.weight
    BY <1>a DEF PlannerTypeOK, Assignment
  <2> HIDE DEF done
  <2>3. PlannerTypeOK' /\ OnePerId' /\ OnAVehicle'
    BY <1>a, <2>1, <2>2 DEF PlannerTypeOK, OnePerId, OnAVehicle
  <2>4. OneLoadPerVehicle'
    BY <1>a, <2>1, <2>2 DEF OneLoadPerVehicle
  <2> QED BY <2>3, <2>4 DEF PlannerInv
<1> QED BY <1>0, <1>1, <1>2, <1>3 DEF PlannerNext

(* A vehicle never has two assignments, and every assignment fits its      *)
(* vehicle and its time, also one that took over an identifier.            *)
THEOREM VehiclesAreNotShared == PlannerSpec => []OneLoadPerVehicle
<1>1. PlannerInit => PlannerInv
  BY DEF PlannerInit, PlannerInv, PlannerTypeOK, OnePerId, OnAVehicle, OneLoadPerVehicle
<1>2. PlannerInv => OneLoadPerVehicle
  BY DEF PlannerInv
<1> QED BY <1>1, <1>2, PlannerStep, PTL DEF PlannerSpec

-----------------------------------------------------------------------------
(* Clearance.  Documents are never removed: the one that held a case is    *)
(* still there when a later review releases it, and that review is dated   *)
(* before the expiry of every document.                                    *)
ClearanceTypeOK ==
  /\ documents \subseteq DocNumbers \X Times /\ releasedAt \in Int /\ heldAt \subseteq Times

HeldForADocument ==
  /\ \A t \in heldAt : \E d \in documents : t >= d[2]
  /\ customsCase = "none" => heldAt = {}

ClearanceInv == ClearanceTypeOK /\ HeldForADocument /\ ReleaseBeforeHolds /\ BlockedByLastCheck

LEMMA ClearanceStep == ClearanceInv /\ [ClearanceNext]_clearanceVars => ClearanceInv'
<1> SUFFICES ASSUME ClearanceInv, [ClearanceNext]_clearanceVars PROVE ClearanceInv'
  OBVIOUS
<1> USE ClearanceAssumption
<1>a. ClearanceTypeOK /\ HeldForADocument /\ ReleaseBeforeHolds /\ BlockedByLastCheck
  BY DEF ClearanceInv
<1>b. ASSUME UNCHANGED scanVars PROVE BlockedByLastCheck'
  BY <1>a, <1>b DEF scanVars, BlockedByLastCheck
<1>0. CASE UNCHANGED clearanceVars
  BY <1>0, <1>a DEF clearanceVars, ClearanceInv, ClearanceTypeOK, HeldForADocument,
                    ReleaseBeforeHolds, BlockedByLastCheck
<1>1. ASSUME NEW docs \in SUBSET (DocNumbers \X Times), Open(docs) PROVE ClearanceInv'
  BY <1>1, <1>a, <1>b DEF Open, ClearanceInv, ClearanceTypeOK, HeldForADocument, ReleaseBeforeHolds
<1>2. ASSUME NEW number \in DocNumbers, NEW expiry \in Times, Attach(number, expiry)
      PROVE  ClearanceInv'
  BY <1>2, <1>a, <1>b DEF Attach, ClearanceInv, ClearanceTypeOK, HeldForADocument, ReleaseBeforeHolds
<1>3. ASSUME NEW now \in Times, Review(now) PROVE ClearanceInv'
  <2>1. customsCase # "none" /\ UNCHANGED <<documents, scanVars>>
    BY <1>3 DEF Review
  <2>2. CASE \E d \in documents : now >= d[2]
    <3>1. customsCase' = "held" /\ heldAt' = heldAt \cup {now} /\ UNCHANGED releasedAt
      BY <1>3, <2>2 DEF Review
    <3> QED BY <1>a, <1>b, <2>1, <2>2, <3>1
            DEF ClearanceInv, ClearanceTypeOK, HeldForADocument, ReleaseBeforeHolds
  <2>3. CASE ~ \E d \in documents : now >= d[2]
    <3>1. customsCase' = "released" /\ releasedAt' = now /\ UNCHANGED heldAt
      BY <1>3, <2>3 DEF Review
    <3>2. ASSUME NEW t \in heldAt PROVE now < t
      <4>1. PICK d \in documents : t >= d[2]
        BY <1>a DEF HeldForADocument
      <4>2. d[2] \in Int /\ t \in Int /\ ~(now >= d[2])
        BY <1>a, <2>3 DEF ClearanceTypeOK
      <4> QED BY <4>1, <4>2
    <3> QED BY <1>a, <1>b, <2>1, <3>1, <3>2
            DEF ClearanceInv, ClearanceTypeOK, HeldForADocument, ReleaseBeforeHolds
  <2> QED BY <2>2, <2>3
<1>4. ASSUME NEW bad \in SUBSET Signals, Check(bad) PROVE ClearanceInv'
  <2>1. UNCHANGED customsVars /\ BlockedByLastCheck'
    BY <1>4 DEF Check, BlockedByLastCheck
  <2> QED BY <1>a, <2>1
          DEF customsVars, ClearanceInv, ClearanceTypeOK, HeldForADocument, ReleaseBeforeHolds
<1> QED BY <1>0, <1>1, <1>2, <1>3, <1>4 DEF ClearanceNext

(* A case is released only by a review dated before every review that held *)
(* it, and a shipment is blocked exactly if its last check failed.         *)
THEOREM ClearanceIsSound == ClearanceSpec => []ClearanceSound
<1>1. ClearanceInit => ClearanceInv
  BY DEF ClearanceInit, ClearanceInv, ClearanceTypeOK, HeldForADocument, ReleaseBeforeHolds,
         BlockedByLastCheck
<1>2. ClearanceInv => ClearanceSound
  BY DEF ClearanceInv, ClearanceSound
<1> QED BY <1>1, <1>2, ClearanceStep, PTL DEF ClearanceSpec

-----------------------------------------------------------------------------
(* Idempotency.  A request at work has outlived its record, or the record  *)
(* is still the one it began.                                              *)
IdemTypeOK ==
  /\ idemClock \in Int /\ record.expires \in Int
  /\ record = [fingerprint |-> record.fingerprint, body |-> record.body, expires |-> record.expires]
  /\ DOMAIN request = IdemRequests
  /\ \A r \in IdemRequests :
       /\ request[r].at \in Int /\ request[r].expires \in Int
       /\ request[r].state = "working" => request[r].fingerprint \in Fingerprints
       /\ request[r] = [state |-> request[r].state, fingerprint |-> request[r].fingerprint,
                        at |-> request[r].at, expires |-> request[r].expires]

OwnRecord ==
  \A r \in IdemRequests :
    request[r].state = "working" =>
      \/ request[r].expires <= idemClock
      \/ record.expires = request[r].expires /\ record.fingerprint = request[r].fingerprint

OwnBody == record.body \in {"none", record.fingerprint} \cup overdue

IdemInv == IdemTypeOK /\ OwnRecord /\ OwnBody /\ OneAtWork /\ RepliesOwnBody

LEMMA IdemStep == IdemInv /\ [IdemNext]_idemVars => IdemInv'
<1> SUFFICES ASSUME IdemInv, [IdemNext]_idemVars PROVE IdemInv'
  OBVIOUS
<1> USE IdempotencyAssumption
<1>a. IdemTypeOK /\ OwnRecord /\ OwnBody /\ OneAtWork /\ RepliesOwnBody
  BY DEF IdemInv
<1>0. CASE UNCHANGED idemVars
  BY <1>0, <1>a DEF idemVars, IdemInv, IdemTypeOK, OwnRecord, OwnBody, OneAtWork, RepliesOwnBody
<1>1. ASSUME NEW r \in IdemRequests, Complete(r) PROVE IdemInv'
  <2>1. /\ request[r].state = "working" /\ UNCHANGED <<idemClock, replies>>
        /\ DOMAIN request' = IdemRequests
        /\ \A q \in IdemRequests : q # r => request'[q] = request[q]
        /\ request'[r] = [state |-> "completed", fingerprint |-> "none", at |-> 0, expires |-> 0]
    BY <1>1, <1>a DEF Complete, IdemTypeOK, NotAtWork
  <2>2. /\ record'.expires = record.expires /\ record'.fingerprint = record.fingerprint
        /\ record' = record \/ record'.body = request[r].fingerprint
        /\ record' = [fingerprint |-> record'.fingerprint, body |-> record'.body,
                      expires |-> record'.expires]
    BY <1>1, <1>a DEF Complete, IdemTypeOK
  <2>3. /\ idemClock < request[r].expires => overdue' = overdue
        /\ ~(idemClock < request[r].expires) => overdue' = overdue \cup {request[r].fingerprint}
    BY <1>1 DEF Complete
  <2>4. IdemTypeOK' /\ OwnRecord' /\ OneAtWork'
    BY <1>a, <2>1, <2>2 DEF IdemTypeOK, OwnRecord, OneAtWork
  <2>5. OwnBody'
    BY <1>a, <2>1, <2>2, <2>3 DEF IdemTypeOK, OwnRecord, OwnBody
  <2>6. RepliesOwnBody'
    BY <1>a, <2>1, <2>3 DEF RepliesOwnBody
  <2> QED BY <2>4, <2>5, <2>6 DEF IdemInv
<1>2. ASSUME NEW r \in IdemRequests, NEW fp \in Fingerprints, NEW now \in Readings,
             Begin(r, fp, now)
      PROVE  IdemInv'
  <2>1. /\ UNCHANGED <<idemClock, overdue>> /\ DOMAIN request' = IdemRequests
        /\ \A q \in IdemRequests : q # r => request'[q] = request[q]
        /\ now \in Int /\ now <= idemClock
    BY <1>2, <1>a DEF Begin, IdemTypeOK, Readings
  <2>2. CASE ~Live(now)
    <3>1. /\ UNCHANGED replies
          /\ request'[r] = [state |-> "working", fingerprint |-> fp,
                            at |-> idemClock, expires |-> now + Lifetime]
          /\ record' = [fingerprint |-> fp, body |-> "none", expires |-> now + Lifetime]
      BY <1>2, <1>a, <2>2 DEF Begin, BeginOutcome, IdemTypeOK
    <3>2. \A q \in IdemRequests : request[q].state = "working" => request[q].expires <= idemClock
      BY <1>a, <2>1, <2>2 DEF Live, NoRecord, OwnRecord, IdemTypeOK
    <3>3. IdemTypeOK' /\ OwnRecord' /\ OwnBody' /\ RepliesOwnBody'
      BY <1>a, <2>1, <3>1, <3>2 DEF IdemTypeOK, OwnRecord, OwnBody, RepliesOwnBody
    <3>4. OneAtWork'
      BY <1>a, <2>1, <3>1, <3>2 DEF IdemTypeOK, OneAtWork
    <3> QED BY <3>3, <3>4 DEF IdemInv
  <2>3. CASE Live(now)
    <3>1. /\ request'[r] = [state |-> BeginOutcome(fp, now), fingerprint |-> "none",
                            at |-> 0, expires |-> 0]
          /\ BeginOutcome(fp, now) # "working" /\ UNCHANGED record
          /\ BeginOutcome(fp, now) = "replayed" => record.fingerprint = fp
          /\ \/ UNCHANGED replies
             \/ BeginOutcome(fp, now) = "replayed" /\ replies' = replies \cup {<<fp, record.body>>}
      BY <1>2, <1>a, <2>3 DEF Begin, BeginOutcome, IdemTypeOK, NotAtWork
    <3>2. IdemTypeOK' /\ OwnRecord' /\ OwnBody' /\ OneAtWork'
      BY <1>a, <2>1, <3>1 DEF IdemTypeOK, OwnRecord, OwnBody, OneAtWork
    <3>3. RepliesOwnBody'
      BY <1>a, <2>1, <3>1 DEF OwnBody, RepliesOwnBody
    <3> QED BY <3>2, <3>3 DEF IdemInv
  <2> QED BY <2>2, <2>3
<1>3. ASSUME NEW now \in Readings, Cleanup(now) PROVE IdemInv'
  <2>1. /\ ~Live(now) /\ record' = NoRecord /\ UNCHANGED <<idemClock, request, replies, overdue>>
        /\ now \in Int /\ now <= idemClock
    BY <1>3, <1>a DEF Cleanup, Readings, IdemTypeOK
  <2>2. IdemTypeOK' /\ OwnRecord'
    BY <1>a, <2>1 DEF Live, NoRecord, IdemTypeOK, OwnRecord
  <2> QED BY <1>a, <2>1, <2>2 DEF NoRecord, IdemInv, OwnBody, OneAtWork, RepliesOwnBody
<1>4. ASSUME IdemTick PROVE IdemInv'
  <2>1. idemClock' = idemClock + 1 /\ UNCHANGED <<record, request, replies, overdue>>
    BY <1>4 DEF IdemTick
  <2> QED BY <1>a, <2>1 DEF IdemInv, IdemTypeOK, OwnRecord, OwnBody, OneAtWork, RepliesOwnBody
<1> QED BY <1>0, <1>1, <1>2, <1>3, <1>4 DEF IdemNext

(* Until a record ends at most one request works under its key, whatever   *)
(* old readings of the clock Begin and Cleanup bring; and a replay carries *)
(* the answer of its own request, none yet, or that of a request which     *)
(* completed after the end of its record.                                  *)
THEOREM IdempotencyIsSound == IdemSpec => []IdempotencySound
<1>1. IdemInit => IdemInv
  BY DEF IdemInit, NoRecord, NotAtWork, IdemInv, IdemTypeOK, OwnRecord, OwnBody, OneAtWork, RepliesOwnBody
<1>2. IdemInv => IdempotencySound
  BY DEF IdemInv, IdempotencySound
<1> QED BY <1>1, <1>2, IdemStep, PTL DEF IdemSpec
-----------------------------------------------------------------------------
(* Sequence.  As long as no number was drawn for a day that was over, no   *)
(* identifier is of a later day than the generator's, and the generator    *)
(* has counted those of its day.                                           *)
Drawn(ids, day, n) == {j \in 1 .. n : ids[j][1] = day}

SequenceTypeOK ==
  /\ today \in Nat \ {0} /\ genDay \in Nat /\ genNext \in Nat
  /\ dayRead \in [Drawers -> Nat] /\ issued \in Seq(Nat \X Nat) /\ wentBack \in BOOLEAN

CountsItsDay ==
  wentBack \/ /\ genNext = Cardinality(Drawn(issued, genDay, Len(issued)))
              /\ \A i \in 1 .. Len(issued) : issued[i][1] <= genDay

SequenceInv == SequenceTypeOK /\ CountsItsDay /\ NumbersOfADay

LEMMA DrawnAppend ==
  ASSUME NEW ids \in Seq(Nat \X Nat), NEW day \in Nat, NEW number \in Nat
  PROVE  LET new == Append(ids, <<day, number>>)
             n   == Len(ids)
         IN  /\ \A d, i : i \in 1 .. n => Drawn(new, d, i) = Drawn(ids, d, i)
             /\ Cardinality(Drawn(new, day, n + 1)) = Cardinality(Drawn(ids, day, n)) + 1
             /\ Cardinality(Drawn(ids, day, n)) \in Nat
<1> DEFINE new == Append(ids, <<day, number>>)
           n   == Len(ids)
<1>1. /\ n \in Nat /\ <<day, number>> \in Nat \X Nat
      /\ \A j \in 1 .. n : new[j] = ids[j] /\ new[n + 1] = <<day, number>>
  BY LenProperties, AppendProperties
<1>2. new[n + 1] = <<day, number>> /\ new[n + 1][1] = day
  BY <1>1, AppendProperties
<1> HIDE DEF new, n
<1>3. ASSUME NEW d, NEW i \in 1 .. n PROVE Drawn(new, d, i) = Drawn(ids, d, i)
  <2>1. \A j \in 1 .. i : j \in 1 .. n
    BY <1>1
  <2> QED BY <1>1, <2>1 DEF Drawn
<1>4. Drawn(new, day, n + 1) = Drawn(ids, day, n) \cup {n + 1} /\ n + 1 \notin Drawn(ids, day, n)
  <2>0. n \in Nat
    BY <1>1
  <2>1. 1 .. n + 1 = (1 .. n) \cup {n + 1}
    BY <2>0
  <2>2. n + 1 \notin 1 .. n
    BY <1>1
  <2> QED BY <1>1, <1>2, <2>1, <2>2 DEF Drawn
<1>5. IsFiniteSet(Drawn(ids, day, n))
  <2>1. IsFiniteSet(1 .. n)
    BY <1>1, FS_Interval
  <2> QED BY <2>1, FS_Subset DEF Drawn
<1>6. /\ Cardinality(Drawn(ids, day, n) \cup {n + 1}) = Cardinality(Drawn(ids, day, n)) + 1
      /\ Cardinality(Drawn(ids, day, n)) \in Nat
  BY <1>4, <1>5, FS_AddElement, FS_CardinalityType
<1> QED BY <1>3, <1>4, <1>6 DEF new, n

LEMMA SequenceStep == SequenceInv /\ [SequenceNext]_sequenceVars => SequenceInv'
<1> SUFFICES ASSUME SequenceInv, [SequenceNext]_sequenceVars PROVE SequenceInv'
  OBVIOUS
<1>a. SequenceTypeOK /\ CountsItsDay /\ NumbersOfADay
  BY DEF SequenceInv
<1>0. CASE UNCHANGED sequenceVars
  BY <1>0, <1>a DEF sequenceVars, SequenceInv, SequenceTypeOK, CountsItsDay, NumbersOfADay
<1>1. ASSUME NEW c \in Drawers, ReadDay(c) PROVE SequenceInv'
  BY <1>1, <1>a DEF ReadDay, SequenceInv, SequenceTypeOK, CountsItsDay, NumbersOfADay
<1>2. CASE Midnight
  BY <1>2, <1>a DEF Midnight, SequenceInv, SequenceTypeOK, CountsItsDay, NumbersOfADay
<1>3. ASSUME NEW c \in Drawers, NextNumber(c) PROVE SequenceInv'
  <2>1. PICK day \in Nat, number \in Nat, n \in Nat, ids \in Seq(Nat \X Nat),
             new \in Seq(Nat \X Nat) :
          /\ number = (IF day = genDay THEN genNext ELSE 0) + 1
          /\ ids = issued /\ n = Len(ids) /\ new = Append(ids, <<day, number>>)
          /\ day # 0 /\ genDay' = day /\ genNext' = number /\ issued' = new
          /\ dayRead' = [dayRead EXCEPT ![c] = 0]
          /\ wentBack' = (wentBack \/ day < genDay) /\ UNCHANGED today
    <3> DEFINE number == (IF dayRead[c] = genDay THEN genNext ELSE 0) + 1
    <3>1. dayRead[c] \in Nat /\ number \in Nat /\ issued \in Seq(Nat \X Nat) /\ Len(issued) \in Nat
      BY <1>a, LenProperties DEF SequenceTypeOK
    <3>2. Append(issued, <<dayRead[c], number>>) \in Seq(Nat \X Nat)
      BY <3>1, AppendProperties
    <3> QED BY <1>3, <3>1, <3>2 DEF NextNumber, NewDay
  <2>2. /\ Len(new) = n + 1 /\ new[n + 1] = <<day, number>>
        /\ \A i \in 1 .. n : new[i] = ids[i] /\ ids[i][1] \in Nat
    <3>1. <<day, number>> \in Nat \X Nat
      OBVIOUS
    <3> QED BY <2>1, <3>1, AppendProperties, ElementOfSeq
  <2>3. /\ \A d, i : i \in 1 .. n => Drawn(new, d, i) = Drawn(ids, d, i)
        /\ Cardinality(Drawn(new, day, n + 1)) = Cardinality(Drawn(ids, day, n)) + 1
    BY <2>1, DrawnAppend
  <2>4. SequenceTypeOK'
    BY <1>a, <2>1 DEF SequenceTypeOK
  <2>5. ASSUME ~wentBack' PROVE /\ number = Cardinality(Drawn(new, day, n + 1))
                                /\ \A i \in 1 .. n + 1 : new[i][1] <= day
    <3>1. /\ ~wentBack /\ genDay \in Nat /\ ~(day < genDay)
      BY <1>a, <2>1, <2>5 DEF SequenceTypeOK
    <3>2. /\ genNext = Cardinality(Drawn(ids, genDay, n))
          /\ \A i \in 1 .. n : ids[i][1] <= genDay
      BY <1>a, <2>1, <3>1 DEF CountsItsDay
    <3>3. ASSUME day = genDay PROVE number = Cardinality(Drawn(new, day, n + 1))
      BY <2>1, <2>3, <3>2, <3>3
    <3>4. ASSUME day # genDay PROVE number = Cardinality(Drawn(new, day, n + 1))
      <4>1. ASSUME NEW i \in 1 .. n PROVE ids[i][1] # day
        <5>1. PICK x \in Nat : x = ids[i][1] /\ x <= genDay
          BY <2>2, <3>2
        <5> QED BY <3>1, <3>4, <5>1
      <4>2. Drawn(ids, day, n) = {}
        BY <4>1 DEF Drawn
      <4>3. Cardinality(Drawn(ids, day, n)) = 0
        BY <4>2, FS_EmptySet
      <4> QED BY <2>1, <2>3, <3>4, <4>3
    <3>5. ASSUME NEW i \in 1 .. n + 1 PROVE new[i][1] <= day
      <4>1. CASE i \in 1 .. n
        <5>1. PICK x \in Nat : x = ids[i][1] /\ x <= genDay
          BY <2>2, <3>2, <4>1
        <5>2. x <= day
          BY <3>1, <5>1
        <5> QED BY <2>2, <4>1, <5>1, <5>2
      <4>2. CASE i = n + 1
        BY <2>2, <4>2
      <4> QED BY <4>1, <4>2
    <3> QED BY <3>3, <3>4, <3>5
  <2>6. CountsItsDay'
    BY <2>1, <2>2, <2>5 DEF CountsItsDay
  <2>7. NumbersOfADay'
    <3>0. NumbersOfADay' <=>
            wentBack' \/ \A i \in 1 .. Len(new) : new[i][2] = Cardinality(Drawn(new, new[i][1], i))
      BY <2>1 DEF NumbersOfADay, Drawn
    <3> SUFFICES ASSUME ~wentBack', NEW i \in 1 .. n + 1
                 PROVE  new[i][2] = Cardinality(Drawn(new, new[i][1], i))
      BY <2>2, <3>0
    <3>1. CASE i = n + 1
      BY <2>2, <2>5, <3>1
    <3>2. CASE i \in 1 .. n
      <4>1. ids[i][2] = Cardinality(Drawn(ids, ids[i][1], i))
        BY <1>a, <2>1, <3>2 DEF NumbersOfADay, SequenceTypeOK, Drawn
      <4> QED BY <2>2, <2>3, <3>2, <4>1
    <3> QED BY <3>1, <3>2
  <2> QED BY <2>4, <2>6, <2>7 DEF SequenceInv
<1> QED BY <1>0, <1>1, <1>2, <1>3 DEF SequenceNext

(* The identifiers of a day are its numbers from 1 on, without a gap and   *)
(* none twice, unless a caller's time was overtaken by midnight.           *)
THEOREM NumbersAreUnique == SequenceSpec => []NumbersOfADay
<1>1. SequenceInit => SequenceInv
  <2> SUFFICES ASSUME SequenceInit PROVE SequenceInv
    OBVIOUS
  <2>1. issued = <<>> /\ issued \in Seq(Nat \X Nat) /\ Len(issued) = 0
    BY EmptySeq DEF SequenceInit
  <2>2. Drawn(issued, genDay, Len(issued)) = {} /\ 1 .. Len(issued) = {}
    BY <2>1 DEF Drawn
  <2>3. Cardinality(Drawn(issued, genDay, Len(issued))) = 0
    BY <2>2, FS_EmptySet
  <2>4. NumbersOfADay
    BY <2>2 DEF NumbersOfADay
  <2>5. CountsItsDay
    BY <2>2, <2>3 DEF SequenceInit, CountsItsDay
  <2>6. SequenceTypeOK
    <3>1. today = 1 /\ genDay = 0 /\ genNext = 0
      BY DEF SequenceInit
    <3>2. dayRead \in [Drawers -> Nat] /\ wentBack \in BOOLEAN
      BY DEF SequenceInit
    <3>3. issued \in Seq(Nat \X Nat)
      BY <2>1
    <3> QED BY <3>1, <3>2, <3>3 DEF SequenceTypeOK
  <2> QED BY <2>4, <2>5, <2>6 DEF SequenceInv
<1>2. SequenceInv => NumbersOfADay
  BY DEF SequenceInv
<1> QED BY <1>1, <1>2, SequenceStep, PTL DEF SequenceSpec
-----------------------------------------------------------------------------
(* CapacityBook.  A sum in int64 is right up to a multiple of 2^64: what   *)
(* the book says is used differs by one from what was held.                *)
LEMMA DivMod ==
  ASSUME NEW N \in Nat \ {0}, NEW x \in Int
  PROVE  x % N \in 0 .. N - 1 /\ x \div N \in Int /\ x = N * (x \div N) + (x % N)
OBVIOUS

LEMMA MultipleMod == ASSUME NEW N \in Nat \ {0}, NEW k \in Int PROVE (N * k) % N = 0
<1>1. PICK y \in Int : y = N * k
  OBVIOUS
<1>2. PICK d \in Int, r \in 0 .. N - 1 : y % N = r /\ y = N * d + r
  BY DivMod
<1>3. PICK e \in Int : e = k - d
  OBVIOUS
<1>4. r = N * e
  BY <1>1, <1>2, <1>3
<1>5. CASE e >= 1
  <2>1. N * e >= N
    BY <1>5
  <2> QED BY <1>4, <2>1
<1>6. CASE e <= -1
  <2>1. N * e <= -N
    BY <1>6
  <2> QED BY <1>4, <2>1
<1>7. CASE e = 0
  BY <1>1, <1>2, <1>4, <1>7
<1> QED BY <1>5, <1>6, <1>7

LEMMA ModMinus == ASSUME NEW N \in Nat \ {0}, NEW x \in Int, x % N = 0 PROVE (x - N) % N = 0
<1>1. PICK d \in Int : x = N * d
  <2>1. x \div N \in Int /\ x = N * (x \div N) + 0
    BY DivMod
  <2> QED BY <2>1
<1>2. x - N = N * (d - 1)
  BY <1>1
<1> QED BY <1>2, MultipleMod

Int64 == -(MaxInt64 + 1) .. MaxInt64

(* Adding a positive amount: the exact sum if it is an int64, and 2^64     *)
(* less otherwise.                                                         *)
LEMMA SubtractPositive ==
  ASSUME NEW a \in Int64, NEW b \in Int, b > 0, b <= a PROVE a - b \in Int64
BY MaxInt64Assumption DEF Int64

LEMMA AddPositive ==
  ASSUME NEW a \in Int64, NEW b \in 1 .. MaxInt64
  PROVE  /\ AddInt64(a, b) \in Int64
         /\ a + b <= MaxInt64 => AddInt64(a, b) = a + b
         /\ ~(a + b <= MaxInt64) => AddInt64(a, b) = a + b - 2 * (MaxInt64 + 1)
BY MaxInt64Assumption DEF AddInt64, Int64

Bucket == [limit : Int, used : Int64, version : Int]

LEMMA BucketWritten ==
  ASSUME NEW b \in Bucket, NEW amount \in Int
  PROVE  /\ b.used - amount \in Int64 =>
              /\ Released(b, amount) \in Bucket
              /\ Released(b, amount).used = b.used - amount
              /\ Released(b, amount).version = b.version + 1
              /\ Released(b, amount).limit = b.limit
         /\ AddInt64(b.used, amount) \in Int64 =>
              /\ Held(b, amount) \in Bucket
              /\ Held(b, amount).used = AddInt64(b.used, amount)
              /\ Held(b, amount).version = b.version + 1
              /\ Held(b, amount).limit = b.limit
<1>1. ASSUME NEW used \in Int64, NEW version \in Int
      PROVE  LET w == [b EXCEPT !.used = used, !.version = version] IN
             w \in Bucket /\ w.used = used /\ w.version = version /\ w.limit = b.limit
  BY DEF Bucket
<1>2. b.version + 1 \in Int
  BY DEF Bucket
<1> QED BY <1>1, <1>2 DEF Released, Held

BookTypeOK ==
  /\ DOMAIN buckets = Buckets /\ DOMAIN seen = Holders /\ net \in [Buckets -> Int]
  /\ \A k \in Buckets : buckets[k] # NoBucket => buckets[k] \in Bucket

UndefinedIsEmpty == \A k \in Buckets : buckets[k] = NoBucket => net[k] = 0

(* What a caller saw has an older version, or is the bucket as it is.      *)
SeenIsOlder ==
  \A c \in Holders :
    seen[c] # <<>> =>
      /\ seen[c][1] \in Buckets /\ buckets[seen[c][1]] # NoBucket
      /\ seen[c][2].version \in Int
      /\ \/ seen[c][2].version < buckets[seen[c][1]].version
         \/ seen[c][2] = buckets[seen[c][1]]

BookInv == BookTypeOK /\ UndefinedIsEmpty /\ SeenIsOlder /\ HoldsAccounted

(* A step that gives bucket k the next version leaves every view of it     *)
(* older, and those of the other buckets as they are.                      *)
LEMMA NextVersion ==
  ASSUME BookTypeOK, SeenIsOlder, NEW k \in Buckets, UNCHANGED seen,
         buckets[k] # NoBucket, buckets'[k] # NoBucket,
         buckets'[k].version = buckets[k].version + 1,
         \A j \in Buckets : j # k => buckets'[j] = buckets[j]
  PROVE  SeenIsOlder'
<1> SUFFICES ASSUME NEW c \in Holders, seen[c] # <<>>
             PROVE  /\ seen[c][1] \in Buckets /\ buckets'[seen[c][1]] # NoBucket
                    /\ seen[c][2].version \in Int
                    /\ \/ seen[c][2].version < buckets'[seen[c][1]].version
                       \/ seen[c][2] = buckets'[seen[c][1]]
  BY DEF SeenIsOlder
<1>1. PICK j, b : j \in Buckets /\ j = seen[c][1] /\ b = seen[c][2]
  BY DEF SeenIsOlder
<1>2. /\ buckets[j] # NoBucket /\ b.version \in Int
      /\ b.version < buckets[j].version \/ b = buckets[j]
  BY <1>1 DEF SeenIsOlder
<1>3. buckets[k].version \in Int
  BY DEF BookTypeOK, Bucket
<1>4. /\ buckets'[j] # NoBucket
      /\ b.version < buckets'[j].version \/ b = buckets'[j]
  BY <1>1, <1>2, <1>3
<1> QED BY <1>1, <1>2, <1>4

LEMMA BookStep == BookInv /\ [BookNext]_bookVars => BookInv'
<1> SUFFICES ASSUME BookInv, [BookNext]_bookVars PROVE BookInv'
  OBVIOUS
<1> USE CapacityBookAssumption, MaxInt64Assumption
<1>a. BookTypeOK /\ UndefinedIsEmpty /\ SeenIsOlder /\ HoldsAccounted
  BY DEF BookInv
<1>b. NoBucket \notin Bucket
  BY DEF Bucket, Int64
<1>0. CASE UNCHANGED bookVars
  BY <1>0, <1>a DEF bookVars, BookInv, BookTypeOK, UndefinedIsEmpty, SeenIsOlder, HoldsAccounted
<1>1. ASSUME NEW k \in Buckets, NEW limit \in Limits, Define(k, limit) PROVE BookInv'
  <2> DEFINE b == [limit |-> limit, used |-> 0, version |-> 1]
  <2>1. /\ limit > 0 /\ buckets[k] = NoBucket /\ buckets'[k] = b
        /\ \A j \in Buckets : j # k => buckets'[j] = buckets[j]
        /\ DOMAIN buckets' = Buckets /\ UNCHANGED <<seen, net, bookWrapped>>
    BY <1>1, <1>a DEF Define, BookTypeOK
  <2>2. b \in Bucket /\ b # NoBucket /\ b.used = 0 /\ b.limit = limit
    BY <1>b DEF Bucket, Int64
  <2> HIDE DEF b
  <2>3. BookTypeOK' /\ UndefinedIsEmpty'
    BY <1>a, <2>1, <2>2 DEF BookTypeOK, UndefinedIsEmpty
  <2>4. SeenIsOlder'
    BY <1>a, <2>1 DEF SeenIsOlder
  <2>5. HoldsAccounted'
    <3>1. net[k] = 0 /\ (0 - 0) % (2 * (MaxInt64 + 1)) = 0
      BY <1>a, <2>1 DEF UndefinedIsEmpty
    <3> QED BY <1>a, <2>1, <2>2, <3>1 DEF HoldsAccounted
  <2> QED BY <2>3, <2>4, <2>5 DEF BookInv
<1>2. ASSUME NEW k \in Buckets, NEW amount \in Amounts, Release(k, amount) PROVE BookInv'
  <2>1. PICK used \in Int64, limit \in Int, version \in Int, held \in Int :
          /\ used = buckets[k].used /\ limit = buckets[k].limit /\ version = buckets[k].version
          /\ held = net[k] /\ buckets[k] # NoBucket /\ buckets[k] \in Bucket
    <3>1. buckets[k] # NoBucket /\ buckets[k] \in Bucket /\ net[k] \in Int
      BY <1>2, <1>a DEF Release, BookTypeOK
    <3>2. buckets[k].used \in Int64 /\ buckets[k].limit \in Int /\ buckets[k].version \in Int
      BY <3>1 DEF Bucket
    <3> QED BY <3>1, <3>2
  <2>2. /\ amount \in Int /\ amount > 0 /\ amount <= used
        /\ DOMAIN buckets' = Buckets /\ net' \in [Buckets -> Int]
        /\ buckets'[k] = Released(buckets[k], amount)
        /\ net'[k] = held - amount
        /\ \A j \in Buckets : j # k => buckets'[j] = buckets[j] /\ net'[j] = net[j]
        /\ UNCHANGED <<seen, bookWrapped>>
    BY <1>2, <1>a, <2>1 DEF Release, BookTypeOK
  <2>3. used - amount \in Int64 /\ version + 1 \in Int
    BY <2>2, SubtractPositive
  <2>4. /\ buckets'[k] \in Bucket /\ buckets'[k].used = used - amount
        /\ buckets'[k].version = version + 1 /\ buckets'[k].limit = limit
    BY <2>1, <2>2, <2>3, BucketWritten
  <2>5. buckets'[k] \in Bucket /\ buckets'[k] # NoBucket
    BY <1>b, <2>4
  <2>6. BookTypeOK' /\ UndefinedIsEmpty'
    BY <1>a, <2>2, <2>5 DEF BookTypeOK, UndefinedIsEmpty
  <2>7. SeenIsOlder'
    BY <1>a, <2>1, <2>2, <2>4, <2>5, NextVersion
  <2>8. HoldsAccounted'
    <3>1. /\ used <= limit /\ (used - held) % (2 * (MaxInt64 + 1)) = 0
          /\ k \notin bookWrapped => used = held /\ held >= 0
      BY <1>a, <2>1 DEF HoldsAccounted
    <3>2. /\ (used - amount) - (held - amount) = used - held /\ used - amount <= limit
          /\ k \notin bookWrapped => used - amount = held - amount /\ held - amount >= 0
      BY <2>2, <3>1 DEF Int64
    <3> QED BY <1>a, <2>2, <2>4, <3>1, <3>2 DEF HoldsAccounted
  <2> QED BY <2>6, <2>7, <2>8 DEF BookInv
<1>3. ASSUME NEW k \in Buckets, NEW c \in Holders, Get(c, k) PROVE BookInv'
  <2>1. /\ buckets[k] # NoBucket /\ seen'[c] = <<k, buckets[k]>> /\ DOMAIN seen' = Holders
        /\ \A d \in Holders : d # c => seen'[d] = seen[d]
        /\ UNCHANGED <<buckets, net, bookWrapped>>
    BY <1>3, <1>a DEF Get, BookTypeOK
  <2>2. SeenIsOlder'
    <3>1. seen'[c][1] = k /\ seen'[c][2] = buckets[k] /\ buckets[k].version \in Int
      BY <1>a, <2>1 DEF BookTypeOK, Bucket
    <3> QED BY <1>a, <2>1, <3>1 DEF SeenIsOlder
  <2> QED BY <1>a, <2>1, <2>2 DEF BookInv, BookTypeOK, UndefinedIsEmpty, HoldsAccounted
<1>4. ASSUME NEW c \in Holders, NEW amount \in Amounts, Hold(c, amount) PROVE BookInv'
  <2>1. PICK k \in Buckets : k = seen[c][1] /\ buckets[k] # NoBucket
    BY <1>4, <1>a DEF Hold, SeenIsOlder
  <2>2. PICK used \in Int64, limit \in Int, version \in Int, held \in Int :
          /\ used = buckets[k].used /\ limit = buckets[k].limit /\ version = buckets[k].version
          /\ held = net[k] /\ buckets[k] \in Bucket
    <3>1. buckets[k] \in Bucket /\ net[k] \in Int
      BY <1>a, <2>1 DEF BookTypeOK
    <3>2. buckets[k].used \in Int64 /\ buckets[k].limit \in Int /\ buckets[k].version \in Int
      BY <3>1 DEF Bucket
    <3> QED BY <3>1, <3>2
  <2> DEFINE after == AddInt64(used, amount)
  <2>3. /\ amount \in 1 .. MaxInt64 /\ after <= limit
        /\ DOMAIN buckets' = Buckets /\ net' \in [Buckets -> Int]
        /\ buckets'[k] = Held(buckets[k], amount)
        /\ net'[k] = held + amount
        /\ \A j \in Buckets : j # k => buckets'[j] = buckets[j] /\ net'[j] = net[j]
        /\ bookWrapped' = IF used + amount > MaxInt64 THEN bookWrapped \cup {k} ELSE bookWrapped
        /\ UNCHANGED seen
    BY <1>4, <1>a, <2>1, <2>2 DEF Hold, HoldFits, BookTypeOK
  <2>4. /\ after \in Int64
        /\ used + amount <= MaxInt64 => after = used + amount
        /\ ~(used + amount <= MaxInt64) => after = used + amount - 2 * (MaxInt64 + 1)
    BY <2>3, AddPositive
  <2>a. /\ buckets'[k] \in Bucket /\ buckets'[k].used = after
        /\ buckets'[k].version = version + 1 /\ buckets'[k].limit = limit
    BY <2>2, <2>3, <2>4, BucketWritten
  <2> HIDE DEF after
  <2>5. buckets'[k] \in Bucket /\ buckets'[k] # NoBucket
    BY <1>b, <2>a
  <2>6. BookTypeOK' /\ UndefinedIsEmpty'
    BY <1>a, <2>3, <2>5 DEF BookTypeOK, UndefinedIsEmpty
  <2>7. SeenIsOlder'
    BY <1>a, <2>1, <2>2, <2>3, <2>a, <2>5, NextVersion
  <2>8. HoldsAccounted'
    <3>1. /\ (used - held) % (2 * (MaxInt64 + 1)) = 0
          /\ k \notin bookWrapped => used = held /\ held >= 0
      BY <1>a, <2>1, <2>2 DEF HoldsAccounted
    <3>2. (after - (held + amount)) % (2 * (MaxInt64 + 1)) = 0
      <4>1. CASE used + amount <= MaxInt64
        <5>1. after - (held + amount) = used - held
          BY <2>3, <2>4, <4>1 DEF Int64
        <5> QED BY <3>1, <5>1
      <4>2. CASE ~(used + amount <= MaxInt64)
        <5>1. after - (held + amount) = (used - held) - 2 * (MaxInt64 + 1)
          BY <2>3, <2>4, <4>2 DEF Int64
        <5>2. used - held \in Int /\ 2 * (MaxInt64 + 1) \in Nat \ {0}
          BY DEF Int64
        <5> QED BY <3>1, <5>1, <5>2, ModMinus
      <4> QED BY <4>1, <4>2
    <3>3. k \notin bookWrapped' => after = held + amount /\ held + amount >= 0
      BY <2>3, <2>4, <3>1 DEF Int64
    <3> QED BY <1>a, <2>3, <2>a, <3>2, <3>3 DEF HoldsAccounted
  <2> QED BY <2>6, <2>7, <2>8 DEF BookInv
<1> QED BY <1>0, <1>1, <1>2, <1>3, <1>4 DEF BookNext

(* A hold is decided on the bucket its caller saw, and what is used is     *)
(* what was held and not released, up to the wrap-around of int64.         *)
THEOREM BookIsSound == BookSpec => []BookSound
<1>1. BookInit => BookInv
  BY DEF BookInit, BookInv, BookTypeOK, UndefinedIsEmpty, SeenIsOlder, HoldsAccounted
<1>2. BookInv => BookSound
  <2> SUFFICES ASSUME BookInv PROVE SeenIsCurrent
    BY DEF BookInv, BookSound
  <2> SUFFICES ASSUME NEW c \in Holders, seen[c] # <<>>,
                      buckets[seen[c][1]].version = seen[c][2].version
               PROVE  buckets[seen[c][1]] = seen[c][2]
    BY DEF SeenIsCurrent
  <2> QED BY DEF BookInv, SeenIsOlder
<1> QED BY <1>1, <1>2, BookStep, PTL DEF BookSpec

-----------------------------------------------------------------------------
(* Warehouse.  A slot that is there stays, with its opening hours.         *)
Slot == [max : Int, used : Int, initial : Int, open : Int, close : Int]

SlotBooking == [id : BookingIds, slot : Slots, weight : BookingKg, start : Hours, end : Hours]

CalendarTypeOK ==
  /\ DOMAIN slots = Slots /\ bookings \subseteq SlotBooking
  /\ \A id \in Slots : slots[id] # NoSlot => slots[id] \in Slot
  /\ \A b \in bookings : slots[b.slot] # NoSlot

CalendarInv == CalendarTypeOK /\ NoDoubleBooking

(* A new weight leaves a slot's hours, and every other slot, as they are.  *)
LEMMA WeightOnly ==
  ASSUME CalendarTypeOK, NEW s \in Slots, slots[s] # NoSlot, NEW kg \in Int,
         slots' = [slots EXCEPT ![s].used = AddInt64(@, kg)]
  PROVE  /\ DOMAIN slots' = Slots
         /\ slots'[s].used = AddInt64(slots[s].used, kg)
         /\ slots'[s].initial = slots[s].initial
         /\ \A id \in Slots : id # s => slots'[id] = slots[id]
         /\ \A id \in Slots : /\ slots[id] = NoSlot <=> slots'[id] = NoSlot
                              /\ slots'[id] # NoSlot =>
                                   /\ slots'[id] \in Slot
                                   /\ slots'[id].open = slots[id].open
                                   /\ slots'[id].close = slots[id].close
<1>1. slots[s] \in Slot /\ DOMAIN slots = Slots
  BY DEF CalendarTypeOK
<1>2. PICK used \in Int : used = AddInt64(slots[s].used, kg)
  BY <1>1, MaxInt64Assumption DEF Slot, AddInt64
<1>3. /\ DOMAIN slots' = Slots /\ slots'[s] = [slots[s] EXCEPT !.used = used]
      /\ \A id \in Slots : id # s => slots'[id] = slots[id]
  BY <1>1, <1>2
<1>4. /\ slots'[s] \in Slot
      /\ slots'[s].open = slots[s].open /\ slots'[s].close = slots[s].close
      /\ slots'[s].initial = slots[s].initial /\ slots'[s].used = used
  BY <1>1, <1>3 DEF Slot
<1>5. slots'[s] # NoSlot
  BY <1>4, WarehouseAssumption DEF Slot
<1> QED BY <1>2, <1>3, <1>4, <1>5 DEF CalendarTypeOK

LEMMA CalendarStep == CalendarInv /\ [CalendarNext]_calendarVars => CalendarInv'
<1> SUFFICES ASSUME CalendarInv, [CalendarNext]_calendarVars PROVE CalendarInv'
  OBVIOUS
<1>a. CalendarTypeOK /\ NoDoubleBooking
  BY DEF CalendarInv
<1>0. CASE UNCHANGED calendarVars
  BY <1>0, <1>a DEF calendarVars, CalendarInv, CalendarTypeOK, NoDoubleBooking
<1>1. ASSUME NEW id \in Slots, NEW max \in SlotMax, NEW used \in SlotUsed,
             NEW open \in Hours, NEW close \in Hours, AddSlot(id, max, used, open, close)
      PROVE  CalendarInv'
  <2>1. /\ slots[id] = NoSlot /\ DOMAIN slots' = Slots /\ UNCHANGED bookings
        /\ \A s \in Slots : s # id => slots'[s] = slots[s]
        /\ slots'[id] = [max |-> max, used |-> used, initial |-> used, open |-> open,
                         close |-> close]
    BY <1>1, <1>a DEF AddSlot, CalendarTypeOK
  <2>2. slots'[id] \in Slot
    BY <2>1, WarehouseAssumption DEF Slot
  <2>3. \A b \in bookings : b.slot \in Slots /\ b.slot # id /\ slots'[b.slot] = slots[b.slot]
    BY <1>a, <2>1 DEF CalendarTypeOK, SlotBooking
  <2>4. CalendarTypeOK'
    BY <1>a, <2>1, <2>2, <2>3 DEF CalendarTypeOK
  <2>5. NoDoubleBooking'
    BY <1>a, <2>1, <2>3 DEF NoDoubleBooking
  <2> QED BY <2>4, <2>5 DEF CalendarInv
<1>2. ASSUME NEW b \in SlotBooking, Book(b) PROVE CalendarInv'
  <2>1. /\ slots[b.slot] # NoSlot
        /\ slots[b.slot].open <= b.start /\ b.end <= slots[b.slot].close
        /\ \A old \in bookings : ~Overlaps(b, old)
        /\ bookings' = {old \in bookings : old.id # b.id} \cup {b}
        /\ slots' = [slots EXCEPT ![b.slot].used = AddInt64(@, b.weight)]
        /\ b.slot \in Slots /\ b.weight \in Int
    <3>1. b.start \in Int /\ b.slot \in Slots /\ b.weight \in Int
      BY WarehouseAssumption DEF SlotBooking
    <3>2. slots[b.slot] # NoSlot /\ slots[b.slot].open \in Int
      BY <1>2, <1>a, <3>1 DEF Book, CalendarTypeOK, Slot
    <3> QED BY <1>2, <3>1, <3>2 DEF Book
  <2>2. /\ DOMAIN slots' = Slots
        /\ \A id \in Slots : /\ slots[id] = NoSlot <=> slots'[id] = NoSlot
                             /\ slots'[id] # NoSlot =>
                                  /\ slots'[id] \in Slot
                                  /\ slots'[id].open = slots[id].open
                                  /\ slots'[id].close = slots[id].close
    BY <1>a, <2>1, WeightOnly
  <2>3. \A c \in bookings' : c \in bookings \/ c = b
    BY <2>1
  <2>4. CalendarTypeOK'
    BY <1>a, <2>1, <2>2, <2>3 DEF CalendarTypeOK, SlotBooking
  <2>5. NoDoubleBooking'
    <3> SUFFICES ASSUME NEW c \in bookings'
                 PROVE  /\ \A d \in bookings' :
                             c # d => ~(c.slot = d.slot /\ c.start < d.end /\ d.start < c.end)
                        /\ slots'[c.slot].open <= c.start /\ c.end <= slots'[c.slot].close
      BY DEF NoDoubleBooking
    <3>1. slots'[c.slot].open = slots[c.slot].open /\ slots'[c.slot].close = slots[c.slot].close
      BY <2>2, <2>4 DEF CalendarTypeOK, SlotBooking
    <3>2. slots[c.slot].open <= c.start /\ c.end <= slots[c.slot].close
      BY <1>a, <2>1, <2>3 DEF NoDoubleBooking
    <3>3. ASSUME NEW d \in bookings', c # d
          PROVE  ~(c.slot = d.slot /\ c.start < d.end /\ d.start < c.end)
      BY <1>a, <2>1, <2>3, <3>3 DEF NoDoubleBooking, Overlaps
    <3> QED BY <3>1, <3>2, <3>3
  <2> QED BY <2>4, <2>5 DEF CalendarInv
<1>3. ASSUME NEW b \in bookings, CancelBooking(b) PROVE CalendarInv'
  <2>1. /\ bookings' = bookings \ {b} /\ b.slot \in Slots /\ slots[b.slot] # NoSlot
        /\ slots' = [slots EXCEPT ![b.slot].used = AddInt64(@, -b.weight)] /\ -b.weight \in Int
    BY <1>3, <1>a, WarehouseAssumption DEF CancelBooking, CalendarTypeOK, SlotBooking
  <2>2. /\ DOMAIN slots' = Slots
        /\ \A id \in Slots : /\ slots[id] = NoSlot <=> slots'[id] = NoSlot
                             /\ slots'[id] # NoSlot =>
                                  /\ slots'[id] \in Slot
                                  /\ slots'[id].open = slots[id].open
                                  /\ slots'[id].close = slots[id].close
    BY <1>a, <2>1, WeightOnly
  <2>3. CalendarTypeOK'
    BY <1>a, <2>1, <2>2 DEF CalendarTypeOK, SlotBooking
  <2>4. NoDoubleBooking'
    BY <1>a, <2>1, <2>2 DEF NoDoubleBooking, CalendarTypeOK, SlotBooking
  <2> QED BY <2>3, <2>4 DEF CalendarInv
<1> QED BY <1>0, <1>1, <1>2, <1>3 DEF CalendarNext, SlotBooking

(* The weight of bookings and allocations is a sum of SetLemmas.           *)
LEMMA KgIsSum ==
  ASSUME NEW parts, IsFiniteSet(parts)
  PROVE  \E g : IsSum(g, [p \in parts |-> p.weight], parts) /\ Kg(parts) = g[parts]
<1> DEFINE w == [p \in parts |-> p.weight]
           Eq(g) == g = [s \in SUBSET parts |->
                           IF s = {} THEN 0 ELSE Pick(s).weight + g[s \ {Pick(s)}]]
           it == CHOOSE g : Eq(g)
<1>1. \A g : Eq(g) <=> IsSum(g, w, parts)
  <2>1. \A s \in SUBSET parts : s # {} => w[Pick(s)] = Pick(s).weight
    <3>1. \A s \in SUBSET parts : s # {} => Pick(s) \in parts
      BY Picked
    <3> QED BY <3>1
  <2> HIDE DEF w
  <2> QED BY <2>1 DEF IsSum
<1>2. \E g : Eq(g)
  BY <1>1, SumExists
<1>3. Eq(it)
  BY <1>2
<1>4. Kg(parts) = it[parts]
  BY DEF Kg, MapThenSumSet, MapThenFoldSet, Pick
<1> HIDE DEF it, Eq, w
<1>5. IsSum(it, w, parts)
  BY <1>1, <1>3
<1> QED BY <1>4, <1>5 DEF w

LEMMA KgNone == Kg({}) = 0
<1>1. PICK g : IsSum(g, [p \in {} |-> p.weight], {}) /\ Kg({}) = g[{}]
  BY KgIsSum, FS_EmptySet
<1> QED BY <1>1, SumOne

(* What is left after one part is taken away.                              *)
LEMMA KgLess ==
  ASSUME NEW parts, IsFiniteSet(parts), NEW p \in parts, \A q \in parts : q.weight \in Int
  PROVE  Kg(parts) = Kg(parts \ {p}) + p.weight
<1> DEFINE rest == parts \ {p}
           w == [q \in parts |-> q.weight]
           v == [q \in rest |-> q.weight]
<1>0. IsFiniteSet(rest)
  BY FS_Subset
<1>1. PICK g : IsSum(g, w, parts) /\ Kg(parts) = g[parts]
  BY KgIsSum
<1>2. PICK h : IsSum(h, v, rest) /\ Kg(rest) = h[rest]
  BY <1>0, KgIsSum
<1>3. /\ \A q \in rest : w[q] = v[q]
      /\ \A q \in parts : w[q] \in Int
      /\ \A q \in rest : v[q] \in Int
      /\ w[p] = p.weight
  OBVIOUS
<1>4. parts \in SUBSET parts /\ rest \subseteq parts /\ rest \in SUBSET rest
  OBVIOUS
<1>a. rest = parts \ {p}
  OBVIOUS
<1> HIDE DEF w, v, rest
<1>5. g[parts] = w[p] + g[rest]
  BY <1>1, <1>3, <1>4, <1>a, SumSplit
<1>6. g[rest] = h[rest]
  BY <1>0, <1>1, <1>2, <1>3, <1>4, SumAgree
<1>7. h[rest] \in Int
  BY <1>0, <1>2, <1>3, <1>4, SumType
<1>8. Kg(parts) = w[p] + h[rest] /\ w[p] \in Int
  BY <1>1, <1>3, <1>4, <1>5, <1>6
<1> QED BY <1>2, <1>3, <1>7, <1>8 DEF rest

(* Some of the parts weigh no more than all of them.                       *)
LEMMA KgSome ==
  ASSUME NEW parts, IsFiniteSet(parts), \A q \in parts : q.weight \in Nat,
         NEW some, some \subseteq parts
  PROVE  Kg(some) \in Nat /\ Kg(parts) \in Nat /\ Kg(some) <= Kg(parts)
<1> DEFINE w == [q \in parts |-> q.weight]
           v == [q \in some |-> q.weight]
<1>0. IsFiniteSet(some)
  BY FS_Subset
<1>1. PICK g : IsSum(g, w, parts) /\ Kg(parts) = g[parts]
  BY KgIsSum
<1>2. PICK h : IsSum(h, v, some) /\ Kg(some) = h[some]
  BY <1>0, KgIsSum
<1>3. /\ \A q \in some : w[q] = v[q]
      /\ \A q \in parts : w[q] \in Nat
      /\ \A q \in parts : w[q] \in Int
  OBVIOUS
<1> HIDE DEF w, v
<1>4. h[some] = g[some]
  BY <1>0, <1>1, <1>2, <1>3, SumAgree
<1>5. g[some] \in Int /\ g[parts] \in Int /\ g[{}] = 0
  <2>1. some \in SUBSET parts /\ parts \in SUBSET parts /\ {} \in SUBSET parts
    OBVIOUS
  <2> QED BY <1>1, <1>3, <2>1, SumType, SumOne
<1>6. g[some] <= g[parts] /\ g[{}] <= g[some] /\ g[{}] <= g[parts]
  <2>1. /\ some \in SUBSET parts /\ parts \in SUBSET parts
        /\ {} \in SUBSET parts /\ {} \in SUBSET some
    OBVIOUS
  <2> QED BY <1>1, <1>3, <2>1, SumMonotone
<1> QED BY <1>1, <1>2, <1>4, <1>5, <1>6

(* The weight of a slot.  Until a sum passes the largest int64 no sum      *)
(* wraps around: the weights are positive, and what is used is never less  *)
(* than the weight the slot was added with.                                *)
CalendarWeightInv ==
  /\ CalendarInv /\ IsFiniteSet(bookings)
  /\ \A b \in bookings : b.weight > 0
  /\ ~overflowed => \A id \in Slots : slots[id] # NoSlot =>
                      slots[id].used \in Int64 /\ slots[id].initial \in Int64
  /\ SlotWeight

WeightBalances(used, initial, kg, again) ==
  IF again THEN used >= initial + kg ELSE used = initial + kg

LEMMA CalendarWeightStep ==
  CalendarWeightInv /\ [CalendarNext]_calendarVars => CalendarWeightInv'
<1> SUFFICES ASSUME CalendarWeightInv, [CalendarNext]_calendarVars
             PROVE  CalendarWeightInv'
  OBVIOUS
<1>a. CalendarTypeOK /\ CalendarInv'
  BY CalendarStep DEF CalendarWeightInv, CalendarInv
<1>b. IsFiniteSet(bookings) /\ \A b \in bookings : b.weight \in Nat /\ b.weight > 0
  <2>1. \A b \in bookings : b.weight \in Int
    BY <1>a, WarehouseAssumption DEF CalendarTypeOK, SlotBooking
  <2>2. IsFiniteSet(bookings) /\ \A b \in bookings : b.weight > 0
    BY DEF CalendarWeightInv
  <2> QED BY <2>1, <2>2
<1>c. ASSUME NEW id \in Slots, slots[id] # NoSlot, ~overflowed
      PROVE  /\ slots[id].used \in Int64 /\ slots[id].initial \in Int64
             /\ WeightBalances(slots[id].used, slots[id].initial, Kg(InSlot(id)), reused)
  BY <1>c DEF CalendarWeightInv, SlotWeight, WeightBalances
<1>d. \A id \in Slots : IsFiniteSet(InSlot(id)) /\ InSlot(id) \subseteq bookings
  <2>1. \A id \in Slots : InSlot(id) \subseteq bookings
    BY DEF InSlot
  <2> QED BY <1>b, <2>1, FS_Subset
<1>e. \A id \in Slots : Kg(InSlot(id)) \in Nat
  BY <1>b, <1>d, KgSome
<1> DEFINE Good(id) == /\ slots'[id].used \in Int64 /\ slots'[id].initial \in Int64
                       /\ WeightBalances(slots'[id].used, slots'[id].initial,
                                         Kg(InSlot(id)'), reused')
<1>f. ASSUME IsFiniteSet(bookings'), \A b \in bookings' : b.weight > 0,
             ~overflowed' => \A id \in Slots : slots'[id] # NoSlot => Good(id)
      PROVE  CalendarWeightInv'
  BY <1>a, <1>f DEF CalendarWeightInv, SlotWeight, WeightBalances
<1> HIDE DEF Good
<1>0. CASE UNCHANGED calendarVars
  <2>1. UNCHANGED <<slots, bookings, reused, overflowed>> /\ \A id \in Slots : InSlot(id)' = InSlot(id)
    BY <1>0 DEF calendarVars, InSlot
  <2> QED BY <1>b, <1>c, <1>f, <2>1 DEF Good
<1>1. ASSUME NEW new \in Slots, NEW max \in SlotMax, NEW used \in SlotUsed,
             NEW open \in Hours, NEW close \in Hours, AddSlot(new, max, used, open, close)
      PROVE  CalendarWeightInv'
  <2>1. /\ slots[new] = NoSlot /\ UNCHANGED <<bookings, reused, overflowed>>
        /\ \A s \in Slots : s # new => slots'[s] = slots[s]
        /\ slots'[new].used = used /\ slots'[new].initial = used
    BY <1>1, <1>a DEF AddSlot, CalendarTypeOK
  <2>2. \A id \in Slots : InSlot(id)' = InSlot(id)
    BY <2>1 DEF InSlot
  <2>3. Good(new)
    <3>1. InSlot(new) = {}
      BY <1>a, <2>1 DEF InSlot, CalendarTypeOK
    <3>2. Kg(InSlot(new)') = 0
      BY <2>2, <3>1, KgNone
    <3>3. used \in Int64
      BY WarehouseAssumption DEF Int64
    <3>4. WeightBalances(used, used, 0, reused')
      BY <3>3, MaxInt64Assumption DEF WeightBalances, Int64
    <3> QED BY <2>1, <3>2, <3>3, <3>4 DEF Good
  <2>4. ASSUME NEW id \in Slots, id # new, slots'[id] # NoSlot, ~overflowed' PROVE Good(id)
    BY <1>c, <2>1, <2>2, <2>4 DEF Good
  <2> QED BY <1>b, <1>f, <2>1, <2>3, <2>4
<1>2. ASSUME NEW b \in SlotBooking, Book(b) PROVE CalendarWeightInv'
  <2> DEFINE s == b.slot
  <2>1. /\ s \in Slots /\ b.weight \in Nat /\ b.weight > 0 /\ slots[s] # NoSlot
        /\ b.weight \in Int
        /\ bookings' = {old \in bookings : old.id # b.id} \cup {b}
        /\ slots' = [slots EXCEPT ![s].used = AddInt64(@, b.weight)]
        /\ reused' = (reused \/ \E old \in bookings : old.id = b.id)
        /\ overflowed' = (overflowed \/ slots[s].used + b.weight > MaxInt64)
    <3>1. b.slot \in Slots /\ b.weight \in Int
      BY WarehouseAssumption DEF SlotBooking
    <3> QED BY <1>2, <3>1 DEF Book
  <2> HIDE DEF s
  <2>2. /\ slots'[s].used = AddInt64(slots[s].used, b.weight)
        /\ slots'[s].initial = slots[s].initial
        /\ \A id \in Slots : id # s => slots'[id] = slots[id]
    BY <1>a, <2>1, WeightOnly
  <2>3. IsFiniteSet(bookings') /\ \A c \in bookings' : c.weight > 0
    <3>1. IsFiniteSet({old \in bookings : old.id # b.id})
      BY <1>b, FS_Subset
    <3> QED BY <1>b, <2>1, <3>1, FS_AddElement
  <2>4. ASSUME NEW id \in Slots, slots'[id] # NoSlot, ~overflowed' PROVE Good(id)
    <3> DEFINE kept == {c \in InSlot(id) : c.id # b.id}
               K == Kg(InSlot(id))
               k == Kg(kept)
    <3>0. ~overflowed /\ slots[s].used + b.weight <= MaxInt64
      <4>1. ~overflowed
        BY <2>1, <2>4
      <4>2. slots[s].used \in Int64
        BY <1>c, <2>1, <4>1
      <4>3. ~(slots[s].used + b.weight > MaxInt64)
        BY <2>1, <2>4
      <4> QED BY <2>1, <4>1, <4>2, <4>3, MaxInt64Assumption DEF Int64
    <3>1. /\ K \in Nat /\ k \in Nat /\ k <= K /\ IsFiniteSet(kept)
          /\ \A c \in kept : c.weight \in Int
      <4>1. kept \subseteq InSlot(id)
        OBVIOUS
      <4>2. IsFiniteSet(kept)
        BY <1>d, <4>1, FS_Subset
      <4>3. \A c \in InSlot(id) : c.weight \in Nat
        BY <1>b, <1>d
      <4> HIDE DEF kept
      <4> QED BY <1>d, <4>1, <4>2, <4>3, KgSome
    <3>2. ~reused' => ~reused /\ k = K
      <4>1. ~reused' => kept = InSlot(id)
        BY <2>1, <1>d
      <4> HIDE DEF kept
      <4> QED BY <2>1, <4>1
    <3>3. CASE id # s
      <4>1. InSlot(id)' = kept
        BY <2>1, <3>3 DEF InSlot, s
      <4>2. slots'[id] = slots[id]
        BY <2>2, <3>3
      <4>3. /\ slots[id].used \in Int64 /\ slots[id].initial \in Int64
            /\ WeightBalances(slots[id].used, slots[id].initial, K, reused)
        BY <1>c, <2>4, <3>0, <4>2
      <4> HIDE DEF K, k, kept
      <4>4. WeightBalances(slots[id].used, slots[id].initial, k, reused')
        BY <2>1, <3>1, <3>2, <4>3, MaxInt64Assumption DEF WeightBalances, Int64
      <4> QED BY <4>1, <4>2, <4>3, <4>4 DEF Good, k
    <3>4. CASE id = s
      <4>1. InSlot(id)' = kept \cup {b} /\ b \notin kept
        BY <2>1, <3>4 DEF InSlot, s
      <4>2. Kg(InSlot(id)') = k + b.weight
        <5> DEFINE all == kept \cup {b}
        <5>1. IsFiniteSet(all) /\ b \in all /\ \A q \in all : q.weight \in Int
          BY <2>1, <3>1, FS_AddElement
        <5>2. all \ {b} = kept
          BY <4>1
        <5> HIDE DEF all, kept
        <5>3. Kg(all) = Kg(all \ {b}) + b.weight
          BY <5>1, KgLess
        <5> QED BY <4>1, <5>2, <5>3 DEF all
      <4>3. /\ slots[s].used \in Int64 /\ slots[s].initial \in Int64
            /\ WeightBalances(slots[s].used, slots[s].initial, K, reused)
        BY <1>c, <2>1, <3>0, <3>4
      <4> HIDE DEF K, k, kept
      <4>4. slots'[s].used = slots[s].used + b.weight /\ slots'[s].used \in Int64
        BY <2>1, <2>2, <3>0, <4>3, MaxInt64Assumption DEF AddInt64, Int64
      <4>5. WeightBalances(slots[s].used + b.weight, slots[s].initial, k + b.weight, reused')
        BY <2>1, <3>1, <3>2, <4>3, MaxInt64Assumption DEF WeightBalances, Int64
      <4> QED BY <2>2, <3>4, <4>2, <4>3, <4>4, <4>5 DEF Good
    <3> QED BY <3>3, <3>4
  <2> QED BY <1>f, <2>3, <2>4
<1>3. ASSUME NEW b \in bookings, CancelBooking(b) PROVE CalendarWeightInv'
  <2> DEFINE s == b.slot
  <2>1. /\ s \in Slots /\ b.weight \in Nat /\ b.weight > 0 /\ slots[s] # NoSlot
        /\ -b.weight \in Int
        /\ bookings' = bookings \ {b}
        /\ slots' = [slots EXCEPT ![s].used = AddInt64(@, -b.weight)]
        /\ UNCHANGED <<reused, overflowed>>
    BY <1>3, <1>a, <1>b DEF CancelBooking, CalendarTypeOK, SlotBooking
  <2> HIDE DEF s
  <2>2. /\ slots'[s].used = AddInt64(slots[s].used, -b.weight)
        /\ slots'[s].initial = slots[s].initial
        /\ \A id \in Slots : id # s => slots'[id] = slots[id]
    BY <1>a, <2>1, WeightOnly
  <2>3. IsFiniteSet(bookings') /\ \A c \in bookings' : c.weight > 0
    BY <1>b, <2>1, FS_Subset
  <2>4. ASSUME NEW id \in Slots, slots'[id] # NoSlot, ~overflowed' PROVE Good(id)
    <3>1. CASE id # s
      <4>1. InSlot(id)' = InSlot(id)
        BY <2>1, <3>1 DEF InSlot, s
      <4>2. slots'[id] = slots[id]
        BY <2>2, <3>1
      <4> QED BY <1>c, <2>1, <2>4, <4>1, <4>2 DEF Good
    <3>2. CASE id = s
      <4> DEFINE left == InSlot(s) \ {b}
                 K == Kg(InSlot(s))
                 k == Kg(left)
      <4>1. InSlot(s)' = left /\ b \in InSlot(s)
        BY <2>1 DEF InSlot, s
      <4>2. K = k + b.weight /\ k \in Nat /\ K \in Nat
        <5>1. \A c \in InSlot(s) : c.weight \in Nat /\ c.weight \in Int
          BY <1>b, <1>d, <2>1
        <5>2. left \subseteq InSlot(s) /\ IsFiniteSet(InSlot(s))
          BY <1>d, <2>1
        <5>3. Kg(left) \in Nat /\ Kg(InSlot(s)) \in Nat
          BY <5>1, <5>2, KgSome
        <5>4. Kg(InSlot(s)) = Kg(InSlot(s) \ {b}) + b.weight
          BY <4>1, <5>1, <5>2, KgLess
        <5> QED BY <5>3, <5>4
      <4>3. /\ slots[s].used \in Int64 /\ slots[s].initial \in Int64
            /\ WeightBalances(slots[s].used, slots[s].initial, K, reused)
        BY <1>c, <2>1, <2>4
      <4> HIDE DEF K, k, left
      <4>4. slots'[s].used = slots[s].used - b.weight /\ slots'[s].used \in Int64
        BY <2>1, <2>2, <4>2, <4>3, MaxInt64Assumption DEF AddInt64, Int64, WeightBalances
      <4>5. WeightBalances(slots[s].used - b.weight, slots[s].initial, k, reused')
        BY <2>1, <4>2, <4>3, MaxInt64Assumption DEF WeightBalances, Int64
      <4> QED BY <2>2, <3>2, <4>1, <4>3, <4>4, <4>5 DEF Good, k
    <3> QED BY <3>1, <3>2
  <2> QED BY <1>f, <2>3, <2>4
<1> QED BY <1>0, <1>1, <1>2, <1>3 DEF CalendarNext, SlotBooking

(* The calendar books no slot twice at a time and accounts for its weight, *)
(* through every sequence of additions, bookings, overwritings and         *)
(* cancellations: what is used is never less than what is booked, and      *)
(* exactly that as long as no booking was overwritten.                     *)
THEOREM CalendarIsSound == CalendarSpec => []CalendarSound
<1>1. CalendarInit => CalendarWeightInv
  BY FS_EmptySet DEF CalendarInit, CalendarWeightInv, CalendarInv, CalendarTypeOK,
                     NoDoubleBooking, SlotWeight
<1>2. CalendarWeightInv => CalendarSound
  BY DEF CalendarWeightInv, CalendarInv, CalendarSound
<1> QED BY <1>1, <1>2, CalendarWeightStep, PTL DEF CalendarSpec

-----------------------------------------------------------------------------
(* BookingLedger.  On a leg whose sums never passed the largest int64 no   *)
(* subtraction wraps around either: what is released was reserved.         *)
Allocation ==
  [id : LedgerShipments \X Int, leg : LedgerLegs, weight : Nat, accepted : BOOLEAN]

LedgerTypeOK ==
  /\ nano \in Int /\ IsFiniteSet(allocations) /\ allocations \subseteq Allocation
  /\ legCapacity \in [LedgerLegs -> Int64] /\ reserved \in [LedgerLegs -> Int]

LedgerInv == LedgerTypeOK /\ ReservedCovers

LEMMA LedgerKgIsKg == ASSUME NEW parts PROVE LedgerKg(parts) = Kg(parts)
BY DEF LedgerKg, Kg

Covers(accepted, held, capacity, again) ==
  accepted <= held /\ held <= capacity /\ (~again => accepted = held)

LEMMA AddInt64Type == ASSUME NEW a \in Int, NEW b \in Int PROVE AddInt64(a, b) \in Int
BY MaxInt64Assumption DEF AddInt64

LEMMA LedgerTypeStep == LedgerTypeOK /\ [LedgerNext]_ledgerVars => LedgerTypeOK'
<1> SUFFICES ASSUME LedgerTypeOK, [LedgerNext]_ledgerVars PROVE LedgerTypeOK'
  OBVIOUS
<1> USE LedgerAssumption DEF LedgerTypeOK
<1>0. CASE UNCHANGED ledgerVars
  BY <1>0 DEF ledgerVars
<1>1. ASSUME NEW l \in LedgerLegs, NEW c \in LedgerCapacities, DefineLeg(l, c)
      PROVE  LedgerTypeOK'
  <2>1. c \in Int64
    BY DEF Int64
  <2> QED BY <1>1, <2>1 DEF DefineLeg
<1>2. ASSUME NEW l \in LedgerLegs, NEW s \in LedgerShipments, NEW w \in LedgerWeights,
             Reserve(s, l, w)
      PROVE  LedgerTypeOK'
  <2> DEFINE old == {a \in allocations : a.id = <<s, nano>>}
             new == [id |-> <<s, nano>>, leg |-> l, weight |-> w, accepted |-> TRUE]
  <2>1. allocations' = (allocations \ old) \cup {new}
        /\ w > 0 /\ w \in Int /\ UNCHANGED <<nano, legCapacity>>
    BY <1>2 DEF Reserve
  <2>2. IsFiniteSet(allocations \ old)
    BY FS_Subset
  <2>3. new \in Allocation
    BY <2>1 DEF Allocation
  <2>4. reserved' \in [LedgerLegs -> Int]
    <3>1. AddInt64(reserved[l], w) \in Int
      BY AddInt64Type
    <3> QED BY <1>2, <3>1 DEF Reserve
  <2> QED BY <2>1, <2>2, <2>3, <2>4, FS_AddElement
<1>3. ASSUME NEW a \in allocations, LedgerRelease(a) PROVE LedgerTypeOK'
  <2> DEFINE new == [a EXCEPT !.accepted = FALSE]
  <2>1. allocations' = (allocations \ {a}) \cup {new} /\ UNCHANGED <<nano, legCapacity>>
    BY <1>3 DEF LedgerRelease
  <2>2. IsFiniteSet(allocations \ {a})
    BY FS_Subset
  <2>3. new \in Allocation /\ a.leg \in LedgerLegs /\ -a.weight \in Int
    <3>1. a \in Allocation
      OBVIOUS
    <3>2. a.leg \in LedgerLegs /\ a.weight \in Nat
      BY <3>1 DEF Allocation
    <3>3. new \in Allocation
      BY <3>1 DEF Allocation
    <3> QED BY <3>2, <3>3
  <2>4. reserved' \in [LedgerLegs -> Int]
    <3>1. AddInt64(reserved[a.leg], -a.weight) \in Int
      BY <2>3, AddInt64Type
    <3> QED BY <1>3, <3>1 DEF LedgerRelease
  <2> QED BY <2>1, <2>2, <2>3, <2>4, FS_AddElement
<1>4. CASE NanoPasses
  BY <1>4 DEF NanoPasses
<1> QED BY <1>0, <1>1, <1>2, <1>3, <1>4 DEF LedgerNext

LEMMA LedgerStep == LedgerInv /\ [LedgerNext]_ledgerVars => LedgerInv'
<1> SUFFICES ASSUME LedgerInv, [LedgerNext]_ledgerVars PROVE LedgerInv'
  OBVIOUS
<1>a. LedgerTypeOK /\ LedgerTypeOK'
  BY LedgerTypeStep DEF LedgerInv
<1>b. /\ reserved \in [LedgerLegs -> Int] /\ legCapacity \in [LedgerLegs -> Int]
      /\ \A l \in LedgerLegs : legCapacity[l] <= MaxInt64
      /\ \A a \in allocations : a.weight \in Nat /\ a.leg \in LedgerLegs
  BY <1>a, MaxInt64Assumption DEF LedgerTypeOK, Allocation, Int64
<1>c. ASSUME NEW m \in LedgerLegs
      PROVE  /\ IsFiniteSet(AcceptedOn(m)) /\ Kg(AcceptedOn(m)) \in Nat
             /\ \A a \in AcceptedOn(m) : a.weight \in Nat
  <2>1. AcceptedOn(m) \subseteq allocations
    BY DEF AcceptedOn
  <2>2. IsFiniteSet(AcceptedOn(m))
    BY <1>a, <2>1, FS_Subset DEF LedgerTypeOK
  <2>3. \A a \in AcceptedOn(m) : a.weight \in Nat
    BY <1>b, <2>1
  <2> QED BY <2>2, <2>3, KgSome
<1>d. ASSUME NEW m \in LedgerLegs, m \notin ledgerWrapped
      PROVE  Covers(Kg(AcceptedOn(m)), reserved[m], legCapacity[m], collided)
  BY <1>d, LedgerKgIsKg DEF LedgerInv, ReservedCovers, Accepted, Covers
<1> SUFFICES ASSUME NEW m \in LedgerLegs, m \notin ledgerWrapped'
             PROVE  Covers(Kg(AcceptedOn(m)'), reserved'[m], legCapacity'[m], collided')
  BY <1>a, LedgerKgIsKg DEF LedgerInv, ReservedCovers, Accepted, Covers
<1> DEFINE K == Kg(AcceptedOn(m))
           Goal == Covers(Kg(AcceptedOn(m)'), reserved'[m], legCapacity'[m], collided')
<1>0. CASE UNCHANGED <<allocations, reserved, legCapacity, collided, ledgerWrapped>>
  <2>1. AcceptedOn(m)' = AcceptedOn(m)
    BY <1>0 DEF AcceptedOn
  <2> QED BY <1>0, <1>d, <2>1
<1>1. ASSUME NEW l \in LedgerLegs, NEW c \in LedgerCapacities, DefineLeg(l, c) PROVE Goal
  <2>1. /\ c > 0 /\ c \in Int /\ legCapacity[l] = 0 /\ UNCHANGED <<reserved, collided>>
        /\ legCapacity' = [legCapacity EXCEPT ![l] = c] /\ m \notin ledgerWrapped
    BY <1>1, LedgerAssumption DEF DefineLeg
  <2>2. AcceptedOn(m)' = AcceptedOn(m)
    BY <1>1 DEF DefineLeg, AcceptedOn
  <2>3. K \in Nat /\ Covers(K, reserved[m], legCapacity[m], collided)
    BY <1>c, <1>d, <2>1
  <2> HIDE DEF K
  <2>4. Covers(K, reserved[m], legCapacity'[m], collided)
    BY <1>b, <2>1, <2>3 DEF Covers
  <2> QED BY <2>1, <2>2, <2>4 DEF K
<1>2. ASSUME NEW l \in LedgerLegs, NEW s \in LedgerShipments, NEW w \in LedgerWeights,
             Reserve(s, l, w)
      PROVE  Goal
  <2> DEFINE old  == {a \in allocations : a.id = <<s, nano>>}
             new  == [id |-> <<s, nano>>, leg |-> l, weight |-> w, accepted |-> TRUE]
             kept == AcceptedOn(m) \ old
             k    == Kg(kept)
  <2>1. /\ w > 0 /\ w \in Int /\ AddInt64(reserved[l], w) <= legCapacity[l]
        /\ reserved' = [reserved EXCEPT ![l] = AddInt64(reserved[l], w)]
        /\ allocations' = (allocations \ old) \cup {new}
        /\ collided' = (collided \/ old # {})
        /\ ledgerWrapped' = IF reserved[l] + w > MaxInt64 THEN ledgerWrapped \cup {l}
                            ELSE ledgerWrapped
        /\ UNCHANGED legCapacity
    BY <1>2, LedgerAssumption DEF Reserve
  <2>2. m \notin ledgerWrapped /\ (m = l => ~(reserved[l] + w > MaxInt64))
    BY <2>1
  <2>3. K \in Nat /\ Covers(K, reserved[m], legCapacity[m], collided)
    BY <1>c, <1>d, <2>2
  <2>4. k \in Nat /\ k <= K /\ IsFiniteSet(kept) /\ \A a \in kept : a.weight \in Int
    <3>1. kept \subseteq AcceptedOn(m)
      OBVIOUS
    <3>2. IsFiniteSet(kept)
      BY <1>c, <3>1, FS_Subset
    <3>3. IsFiniteSet(AcceptedOn(m)) /\ \A a \in AcceptedOn(m) : a.weight \in Nat
      BY <1>c
    <3> HIDE DEF kept
    <3> QED BY <3>1, <3>2, <3>3, KgSome
  <2>5. ~collided' => ~collided /\ k = K
    <3>1. old = {} => kept = AcceptedOn(m)
      OBVIOUS
    <3> HIDE DEF kept, old
    <3> QED BY <2>1, <3>1
  <2>6. CASE m # l
    <3>1. AcceptedOn(m)' = kept
      BY <2>1, <2>6 DEF AcceptedOn
    <3>2. reserved'[m] = reserved[m] /\ legCapacity'[m] = legCapacity[m]
      BY <1>b, <2>1, <2>6
    <3> HIDE DEF K, k, kept
    <3>3. Covers(k, reserved[m], legCapacity[m], collided')
      BY <1>b, <2>1, <2>3, <2>4, <2>5 DEF Covers
    <3> QED BY <3>1, <3>2, <3>3 DEF k
  <2>7. CASE m = l
    <3>1. AcceptedOn(m)' = kept \cup {new} /\ new \notin kept /\ new.weight = w
      BY <2>1, <2>7 DEF AcceptedOn
    <3>2. Kg(AcceptedOn(m)') = k + w
      <4> DEFINE all == kept \cup {new}
      <4>1. IsFiniteSet(all) /\ new \in all /\ \A a \in all : a.weight \in Int
        BY <2>1, <2>4, <3>1, FS_AddElement
      <4>2. all \ {new} = kept
        BY <3>1
      <4> HIDE DEF all, kept, new
      <4>3. Kg(all) = Kg(all \ {new}) + new.weight
        BY <4>1, KgLess
      <4> QED BY <3>1, <4>2, <4>3 DEF all
    <3> HIDE DEF K, k, kept, old, new
    <3>3. reserved[l] \in Int /\ reserved[l] >= 0
      BY <1>b, <2>3, <2>7 DEF Covers
    <3>4. AddInt64(reserved[l], w) = reserved[l] + w
      BY <2>1, <2>2, <2>7, <3>3, MaxInt64Assumption DEF AddInt64
    <3>5. reserved'[m] = reserved[m] + w /\ legCapacity'[m] = legCapacity[m]
      BY <1>b, <2>1, <2>7, <3>4
    <3>6. Covers(k + w, reserved[m] + w, legCapacity[m], collided')
      BY <1>b, <2>1, <2>3, <2>4, <2>5, <2>7, <3>4 DEF Covers
    <3> QED BY <3>2, <3>5, <3>6
  <2> QED BY <2>6, <2>7
<1>3. ASSUME NEW a \in allocations, LedgerRelease(a) PROVE Goal
  <2>1. /\ a.accepted /\ a.leg \in LedgerLegs /\ a.weight \in Nat
        /\ reserved' = [reserved EXCEPT ![a.leg] = AddInt64(reserved[a.leg], -a.weight)]
        /\ allocations' = (allocations \ {a}) \cup {[a EXCEPT !.accepted = FALSE]}
        /\ UNCHANGED <<legCapacity, collided, ledgerWrapped>>
    BY <1>3, <1>b DEF LedgerRelease
  <2>2. ~[a EXCEPT !.accepted = FALSE].accepted
    BY <1>a DEF LedgerTypeOK, Allocation
  <2>3. K \in Nat /\ Covers(K, reserved[m], legCapacity[m], collided)
    BY <1>c, <1>d, <2>1
  <2>4. CASE a.leg # m
    <3>1. AcceptedOn(m)' = AcceptedOn(m)
      BY <2>1, <2>2, <2>4 DEF AcceptedOn
    <3>2. reserved'[m] = reserved[m]
      BY <1>b, <2>1, <2>4
    <3> QED BY <2>1, <2>3, <3>1, <3>2
  <2>5. CASE a.leg = m
    <3> DEFINE left == AcceptedOn(m) \ {a}
               k == Kg(left)
    <3>1. AcceptedOn(m)' = left /\ a \in AcceptedOn(m)
      BY <2>1, <2>2, <2>5 DEF AcceptedOn
    <3>2. K = k + a.weight /\ k \in Nat
      <4>1. IsFiniteSet(AcceptedOn(m)) /\ \A b \in AcceptedOn(m) : b.weight \in Nat
        BY <1>c
      <4>2. \A b \in AcceptedOn(m) : b.weight \in Int
        BY <4>1
      <4>3. left \subseteq AcceptedOn(m)
        OBVIOUS
      <4>4. Kg(left) \in Nat
        BY <4>1, <4>3, KgSome
      <4>5. Kg(AcceptedOn(m)) = Kg(AcceptedOn(m) \ {a}) + a.weight
        BY <3>1, <4>1, <4>2, KgLess
      <4> QED BY <4>4, <4>5
    <3> HIDE DEF K, k, left
    <3>3. /\ reserved[m] \in Int /\ legCapacity[m] \in Int
          /\ AddInt64(reserved[m], -a.weight) = reserved[m] - a.weight
      BY <1>b, <2>1, <2>3, <3>2, MaxInt64Assumption DEF AddInt64, Covers
    <3>4. reserved'[m] = reserved[m] - a.weight /\ UNCHANGED <<legCapacity, collided>>
      BY <1>b, <2>1, <2>5, <3>3
    <3>5. Covers(k, reserved[m] - a.weight, legCapacity[m], collided)
      BY <2>1, <2>3, <3>2, <3>3 DEF Covers
    <3> QED BY <3>1, <3>4, <3>5 DEF k
  <2> QED BY <2>4, <2>5
<1>4. CASE NanoPasses
  BY <1>0, <1>4 DEF NanoPasses
<1>5. CASE UNCHANGED ledgerVars
  BY <1>0, <1>5 DEF ledgerVars
<1> QED BY <1>1, <1>2, <1>3, <1>4, <1>5 DEF LedgerNext

(* The allocations the ledger accepted never take more than is reserved,   *)
(* nor that more than the capacity, and nothing reserved is lost until two *)
(* allocations share an identifier, whatever the order of the calls.       *)
THEOREM LedgerCoversAllocations == LedgerSpec => []ReservedCovers
<1>1. LedgerInit => LedgerInv
  <2> SUFFICES ASSUME LedgerInit PROVE LedgerInv
    OBVIOUS
  <2>1. LedgerTypeOK
    <3>1. 0 \in Int64
      BY MaxInt64Assumption DEF Int64
    <3> QED BY <3>1, FS_EmptySet DEF LedgerInit, LedgerTypeOK
  <2>2. \A l \in LedgerLegs : Accepted(l) = 0 /\ reserved[l] = 0 /\ legCapacity[l] = 0
    <3>1. \A l \in LedgerLegs : AcceptedOn(l) = {}
      BY DEF LedgerInit, AcceptedOn
    <3> QED BY <3>1, LedgerKgIsKg, KgNone DEF LedgerInit, Accepted
  <2> QED BY <2>1, <2>2 DEF LedgerInv, ReservedCovers
<1>2. LedgerInv => ReservedCovers
  BY DEF LedgerInv
<1> QED BY <1>1, <1>2, LedgerStep, PTL DEF LedgerSpec

-----------------------------------------------------------------------------
(* FinanceLedger.  Adding in int64, in whatever order, gives the exact sum *)
(* wrapped around once.                                                    *)
LEMMA ModUnique ==
  ASSUME NEW N \in Nat \ {0}, NEW q \in Int, NEW r \in 0 .. N - 1
  PROVE  (N * q + r) % N = r
<1>1. PICK x \in Int : x = N * q + r
  OBVIOUS
<1>2. PICK d \in Int, r2 \in 0 .. N - 1 : x % N = r2 /\ x = N * d + r2
  BY DivMod
<1>3. PICK e \in Int : e = q - d
  OBVIOUS
<1>4. r2 - r = N * e
  BY <1>1, <1>2, <1>3
<1>5. CASE e >= 1
  <2>1. N * e >= N
    BY <1>5
  <2> QED BY <1>4, <2>1
<1>6. CASE e <= -1
  <2>1. N * e <= -N
    BY <1>6
  <2> QED BY <1>4, <2>1
<1>7. CASE e = 0
  BY <1>1, <1>2, <1>4, <1>7
<1> QED BY <1>5, <1>6, <1>7

Wrap(n) == ((n + (MaxInt64 + 1)) % (2 * (MaxInt64 + 1))) - (MaxInt64 + 1)

LEMMA WrapZero == Wrap(0) = 0
<1>1. PICK H \in Nat \ {0} : H = MaxInt64 + 1
  BY MaxInt64Assumption
<1>2. PICK N \in Nat \ {0} : N = 2 * H
  OBVIOUS
<1>3. H \in 0 .. N - 1 /\ N * 0 + H = 0 + H
  BY <1>2
<1>4. (0 + H) % N = H
  BY <1>3, ModUnique
<1> QED BY <1>1, <1>2, <1>4 DEF Wrap

LEMMA WrapAdd ==
  ASSUME NEW n \in Int, NEW d \in Int64
  PROVE  Wrap(n) \in Int64 /\ Wrap(n + d) = AddInt64(Wrap(n), d)
<1>1. PICK H \in Nat \ {0} : H = MaxInt64 + 1
  BY MaxInt64Assumption
<1>2. PICK N \in Nat \ {0} : N = 2 * H
  OBVIOUS
<1>3. PICK x \in Int : x = n + H
  OBVIOUS
<1>4. PICK q \in Int, r \in 0 .. N - 1 : x % N = r /\ x = N * q + r
  BY DivMod
<1>5. d \in Int /\ -H <= d /\ d <= H - 1 /\ MaxInt64 = H - 1
  BY <1>1, MaxInt64Assumption DEF Int64
<1>6. Wrap(n) = r - H
  BY <1>1, <1>2, <1>3, <1>4 DEF Wrap
<1>7. Wrap(n) \in Int64
  BY <1>1, <1>2, <1>6, MaxInt64Assumption DEF Int64
<1>8. ASSUME NEW p \in Int, NEW s \in 0 .. N - 1, x + d = N * p + s
      PROVE  Wrap(n + d) = s - H
  <2>1. (x + d) % N = s
    BY <1>8, ModUnique
  <2>2. (n + d) + H = x + d
    BY <1>3, <1>5
  <2> QED BY <1>1, <1>2, <2>1, <2>2 DEF Wrap
<1>9. PICK z \in Int : z = N * q /\ N * (q + 1) = z + N /\ N * (q - 1) = z - N
  OBVIOUS
<1>a. CASE r - H + d > H - 1
  <2>1. r + d - N \in 0 .. N - 1
    BY <1>2, <1>5, <1>a
  <2>2. x + d = N * (q + 1) + (r + d - N) /\ q + 1 \in Int
    BY <1>4, <1>5, <1>9
  <2>3. Wrap(n + d) = (r + d - N) - H
    BY <1>8, <2>1, <2>2
  <2> QED BY <1>1, <1>2, <1>5, <1>6, <1>7, <1>a, <2>3 DEF AddInt64
<1>b. CASE r - H + d < -H
  <2>1. r + d + N \in 0 .. N - 1
    BY <1>2, <1>5, <1>b
  <2>2. x + d = N * (q - 1) + (r + d + N) /\ q - 1 \in Int
    BY <1>4, <1>5, <1>9
  <2>3. Wrap(n + d) = (r + d + N) - H
    BY <1>8, <2>1, <2>2
  <2> QED BY <1>1, <1>2, <1>5, <1>6, <1>7, <1>b, <2>3 DEF AddInt64
<1>c. CASE ~(r - H + d > H - 1) /\ ~(r - H + d < -H)
  <2>1. r + d \in 0 .. N - 1
    BY <1>2, <1>5, <1>c
  <2>2. x + d = N * q + (r + d)
    BY <1>4, <1>5, <1>9
  <2>3. Wrap(n + d) = (r + d) - H
    BY <1>8, <2>1, <2>2
  <2> QED BY <1>1, <1>5, <1>6, <1>7, <1>c, <2>3 DEF AddInt64
<1> QED BY <1>a, <1>b, <1>c

Amount(e) == e.credit - e.debit

LEMMA AddedIsWrap ==
  ASSUME NEW es, IsFiniteSet(es), NEW g, NEW w,
         w = [e \in es |-> Amount(e)], \A e \in es : w[e] \in Int64, IsSum(g, w, es)
  PROVE  Added(es) = Wrap(g[es])
<1> DEFINE Plus(h, s) == IF s = {} THEN 0
                         ELSE AddInt64(h[s \ {Pick(s)}], Pick(s).credit - Pick(s).debit)
           Eq(h) == h = [s \in SUBSET es |-> Plus(h, s)]
           it == CHOOSE h : Eq(h)
           exact == [s \in SUBSET es |-> Wrap(g[s])]
<1>a. \A s \in SUBSET es : IsFiniteSet(s) /\ Cardinality(s) \in Nat
  BY FS_Subset, FS_CardinalityType
<1>b. \A e \in es : w[e] \in Int
  BY MaxInt64Assumption DEF Int64
<1>c. \A s \in SUBSET es : g[s] \in Int
  BY <1>b, SumType
<1>1. ASSUME NEW s \in SUBSET es
      PROVE  /\ s = {} => Wrap(g[s]) = 0
             /\ s # {} => /\ Pick(s) \in s /\ s \ {Pick(s)} \in SUBSET es
                          /\ Wrap(g[s]) = AddInt64(Wrap(g[s \ {Pick(s)}]),
                                                   Pick(s).credit - Pick(s).debit)
  <2>1. /\ s = {} => g[s] = 0
        /\ s # {} => g[s] = w[Pick(s)] + g[s \ {Pick(s)}]
    BY SumOne
  <2>2. s = {} => Wrap(g[s]) = 0
    BY <2>1, WrapZero
  <2>3. ASSUME s # {}
        PROVE  /\ Pick(s) \in s /\ s \ {Pick(s)} \in SUBSET es
               /\ Wrap(g[s]) = AddInt64(Wrap(g[s \ {Pick(s)}]),
                                        Pick(s).credit - Pick(s).debit)
    <3>1. Pick(s) \in s /\ s \ {Pick(s)} \in SUBSET es /\ Pick(s) \in es
      BY <2>3, Picked
    <3>2. w[Pick(s)] = Pick(s).credit - Pick(s).debit /\ w[Pick(s)] \in Int64
      BY <3>1 DEF Amount
    <3>3. g[s \ {Pick(s)}] \in Int /\ w[Pick(s)] \in Int
      BY <1>b, <1>c, <3>1
    <3>4. g[s] = g[s \ {Pick(s)}] + w[Pick(s)]
      BY <2>1, <2>3, <3>3
    <3>5. Wrap(g[s]) = AddInt64(Wrap(g[s \ {Pick(s)}]), w[Pick(s)])
      BY <3>2, <3>3, <3>4, WrapAdd
    <3> QED BY <3>1, <3>2, <3>5
  <2> QED BY <2>2, <2>3
<1>2. Eq(exact)
  <2>1. ASSUME NEW s \in SUBSET es PROVE exact[s] = Plus(exact, s)
    <3>1. CASE s = {}
      BY <1>1, <3>1
    <3>2. CASE s # {}
      <4>1. exact[s \ {Pick(s)}] = Wrap(g[s \ {Pick(s)}]) /\ exact[s] = Wrap(g[s])
        BY <1>1, <3>2
      <4> HIDE DEF exact
      <4> QED BY <1>1, <3>2, <4>1
    <3> QED BY <3>1, <3>2
  <2>2. exact = [s \in SUBSET es |-> exact[s]]
    OBVIOUS
  <2> HIDE DEF exact, Plus
  <2> QED BY <2>1, <2>2
<1>3. Eq(it)
  <2> HIDE DEF Eq, exact
  <2> QED BY <1>2
<1>4. Added(es) = it[es]
  BY DEF Added, FoldSet, MapThenFoldSet, Pick
<1> HIDE DEF it, exact
<1>5. \A s \in SUBSET es : it[s] = Plus(it, s)
  <2> HIDE DEF Plus
  <2> QED BY <1>3
<1>6. \A s \in SUBSET es : /\ s = {} => it[s] = 0
                           /\ s # {} => it[s] = AddInt64(it[s \ {Pick(s)}],
                                                  Pick(s).credit - Pick(s).debit)
  BY <1>5
<1> DEFINE Bad(s) == s \in SUBSET es /\ it[s] # Wrap(g[s])
           B == {n \in Nat : \E s : Bad(s) /\ Cardinality(s) = n}
<1> HIDE DEF Bad, B, Eq, Plus
<1>7. B = {}
  <2> SUFFICES ASSUME B # {} PROVE FALSE
    OBVIOUS
  <2>1. PICK n \in B : \A m \in B : n <= m
    <3>1. B \subseteq Nat
      BY DEF B
    <3> QED BY <3>1, Smallest
  <2>2. PICK s \in SUBSET es : it[s] # Wrap(g[s]) /\ Cardinality(s) = n
    BY <2>1 DEF Bad, B
  <2>3. s # {}
    BY <1>1, <1>6, <2>2
  <2>4. Pick(s) \in s /\ s \ {Pick(s)} \in SUBSET es
    BY <1>1, <2>2, <2>3
  <2>5. Cardinality(s \ {Pick(s)}) = n - 1 /\ n - 1 \in Nat
    <3>1. IsFiniteSet(s)
      BY <1>a
    <3>2. /\ Cardinality(s \ {Pick(s)}) = Cardinality(s) - 1
          /\ Cardinality(s \ {Pick(s)}) \in Nat
      BY <2>4, <3>1, Smaller
    <3> QED BY <2>2, <3>2
  <2>6. ~(n - 1 \in B)
    <3>1. n \in Nat
      BY <2>1 DEF B
    <3>2. n - 1 \in B => n <= n - 1
      BY <2>1
    <3> QED BY <3>1, <3>2
  <2>7. it[s \ {Pick(s)}] = Wrap(g[s \ {Pick(s)}])
    BY <2>4, <2>5, <2>6 DEF B, Bad
  <2>8. /\ it[s] = AddInt64(it[s \ {Pick(s)}], Pick(s).credit - Pick(s).debit)
        /\ Wrap(g[s]) = AddInt64(Wrap(g[s \ {Pick(s)}]), Pick(s).credit - Pick(s).debit)
    BY <1>1, <1>6, <2>2, <2>3
  <2> QED BY <2>2, <2>7, <2>8
<1>8. it[es] = Wrap(g[es])
  <2>1. es \in SUBSET es /\ Cardinality(es) \in Nat
    BY <1>a
  <2> QED BY <1>7, <2>1 DEF B, Bad
<1> QED BY <1>4, <1>8

(* One entry more adds its amount, whatever order FoldSet takes them in.   *)
LEMMA AddedMore ==
  ASSUME NEW es, IsFiniteSet(es), NEW new, new \notin es,
         \A e \in es \cup {new} : Amount(e) \in Int64
  PROVE  Added(es \cup {new}) = AddInt64(Added(es), Amount(new))
<1> DEFINE all == es \cup {new}
           w == [e \in all |-> Amount(e)]
           v == [e \in es |-> Amount(e)]
<1>0. IsFiniteSet(all)
  BY FS_AddElement
<1>1. PICK g : IsSum(g, w, all)
  BY <1>0, SumExists
<1>2. PICK h : IsSum(h, v, es)
  BY SumExists
<1>3. /\ \A e \in all : w[e] \in Int64
      /\ \A e \in es : v[e] \in Int64 /\ w[e] = v[e]
      /\ w[new] = Amount(new) /\ Amount(new) \in Int64
  OBVIOUS
<1>4. new \in all /\ all \in SUBSET all /\ es \subseteq all /\ all \ {new} = es
      /\ es \in SUBSET es
  OBVIOUS
<1>5. Added(all) = Wrap(g[all])
  <2> HIDE DEF all
  <2> QED BY <1>0, <1>1, <1>3, AddedIsWrap
<1>6. Added(es) = Wrap(h[es])
  BY <1>2, <1>3, AddedIsWrap
<1> HIDE DEF w, v, all
<1>7. (\A e \in all : w[e] \in Int) /\ (\A e \in es : v[e] \in Int)
  <2>1. \A n \in Int64 : n \in Int
    BY MaxInt64Assumption DEF Int64
  <2> QED BY <1>3, <2>1
<1>8. g[all] = w[new] + g[all \ {new}]
  BY <1>0, <1>1, <1>4, <1>7, SumSplit
<1>9. g[es] = h[es]
  BY <1>1, <1>2, <1>3, <1>4, SumAgree
<1>10. h[es] \in Int
  BY <1>2, <1>4, <1>7, SumType
<1>11. g[all] = h[es] + Amount(new)
  <2>1. g[all] = w[new] + h[es]
    BY <1>4, <1>8, <1>9
  <2>2. w[new] \in Int
    BY <1>4, <1>7
  <2> QED BY <1>3, <1>10, <2>1, <2>2
<1>12. Wrap(h[es] + Amount(new)) = AddInt64(Wrap(h[es]), Amount(new))
  BY <1>3, <1>10, WrapAdd
<1> QED BY <1>5, <1>6, <1>11, <1>12 DEF all

FinanceInv ==
  /\ IsFiniteSet(entries) /\ \A e \in entries : Amount(e) \in Int64
  /\ DOMAIN balances = LedgerTenants
  /\ Reconciles

LEMMA AddedNone == Added({}) = 0
<1> DEFINE w == [e \in {} |-> Amount(e)]
<1>1. PICK g : IsSum(g, w, {})
  BY FS_EmptySet, SumExists
<1>2. g[{}] = 0
  BY <1>1, SumOne
<1>3. Added({}) = Wrap(g[{}])
  BY <1>1, FS_EmptySet, AddedIsWrap
<1> QED BY <1>2, <1>3, WrapZero

LEMMA FinanceStep == FinanceInv /\ [FinanceNext]_financeVars => FinanceInv'
<1> SUFFICES ASSUME FinanceInv, [FinanceNext]_financeVars PROVE FinanceInv'
  OBVIOUS
<1>0. CASE UNCHANGED financeVars
  BY <1>0 DEF financeVars, FinanceInv, Reconciles, Total, EntriesOf
<1>1. ASSUME NEW e \in [id : EntryIds, tenant : LedgerTenants, debit : Cents, credit : Cents],
             Post(e)
      PROVE  FinanceInv'
  <2>1. /\ e.debit \in Int64 /\ e.credit \in Int64 /\ e.tenant \in LedgerTenants
        /\ e.debit >= 0 /\ e.credit >= 0
        /\ e \notin entries /\ entries' = entries \cup {e}
        /\ balances' = [balances EXCEPT ![e.tenant] =
                          AddInt64(balances[e.tenant], e.credit - e.debit)]
    <3>1. e.debit \in Int64 /\ e.credit \in Int64
      BY FinanceAssumption DEF Int64
    <3> QED BY <1>1, <3>1 DEF Post, Posted, ValidEntry
  <2>2. Amount(e) \in Int64
    BY <2>1, MaxInt64Assumption DEF Amount, Int64
  <2>3. IsFiniteSet(entries') /\ \A x \in entries' : Amount(x) \in Int64
    BY <2>1, <2>2, FS_AddElement DEF FinanceInv
  <2>4. DOMAIN balances' = LedgerTenants
    BY <2>1 DEF FinanceInv
  <2>5. ASSUME NEW t \in LedgerTenants PROVE Added(EntriesOf(t)') = balances'[t]
    <3>1. Added(EntriesOf(t)) = balances[t]
      BY DEF FinanceInv, Reconciles, Total
    <3>2. IsFiniteSet(EntriesOf(t)) /\ \A x \in EntriesOf(t) : Amount(x) \in Int64
      <4>1. EntriesOf(t) \subseteq entries
        BY DEF EntriesOf
      <4> QED BY <4>1, FS_Subset DEF FinanceInv
    <3>3. CASE t # e.tenant
      <4>1. EntriesOf(t)' = EntriesOf(t)
        BY <2>1, <3>3 DEF EntriesOf
      <4>2. balances'[t] = balances[t]
        BY <2>1, <3>3 DEF FinanceInv
      <4> QED BY <3>1, <4>1, <4>2
    <3>4. CASE t = e.tenant
      <4>1. EntriesOf(t)' = EntriesOf(t) \cup {e} /\ e \notin EntriesOf(t)
        BY <2>1, <3>4 DEF EntriesOf
      <4>2. balances'[t] = AddInt64(balances[t], Amount(e))
        BY <2>1, <3>4 DEF FinanceInv, Amount
      <4>3. Added(EntriesOf(t) \cup {e}) = AddInt64(Added(EntriesOf(t)), Amount(e))
        BY <2>2, <3>2, <4>1, AddedMore
      <4> QED BY <3>1, <4>1, <4>2, <4>3
    <3> QED BY <3>3, <3>4
  <2> QED BY <2>3, <2>4, <2>5 DEF FinanceInv, Reconciles, Total
<1> QED BY <1>0, <1>1 DEF FinanceNext

(* Reconcile never reports a difference: the balance a tenant's postings   *)
(* build up one by one is the sum Reconcile makes of its entries in        *)
(* whatever order, also where either wraps around.                         *)
THEOREM BooksReconcile == FinanceSpec => []Reconciles
<1>1. FinanceInit => FinanceInv
  <2> SUFFICES ASSUME FinanceInit PROVE FinanceInv
    OBVIOUS
  <2>1. \A t \in LedgerTenants : EntriesOf(t) = {} /\ balances[t] = 0
    BY DEF FinanceInit, EntriesOf
  <2> QED BY <2>1, AddedNone, FS_EmptySet DEF FinanceInit, FinanceInv, Reconciles, Total
<1>2. FinanceInv => Reconciles
  BY DEF FinanceInv
<1> QED BY <1>1, <1>2, FinanceStep, PTL DEF FinanceSpec

-----------------------------------------------------------------------------
(* RateLimit.  The calls allowed before the window began are the first     *)
(* ones; those before the window before it are more than a limit further   *)
(* back, for no window counts more than the limit.  So the call two limits *)
(* further on comes a duration later, but for the skew.                    *)
RateWindow == [started : Int, count : Int]

RateTypeOK ==
  /\ rateClock \in Int /\ reading \in [RateCallers -> Int \cup {NoTime}]
  /\ limiter # NoLimiter => /\ limiter \in [limit : Int, duration : Int]
                            /\ limiter.limit >= 1 /\ limiter.duration >= 1
  /\ window # NoWindow => window \in RateWindow /\ limiter # NoLimiter
  /\ allowed \in Seq(Int)

ReadingsFresh ==
  \A c \in RateCallers : reading[c] # NoTime =>
    limiter # NoLimiter /\ reading[c] <= rateClock /\ rateClock - reading[c] <= Skew

TimesInOrder ==
  /\ \A i \in 1 .. Len(allowed) : allowed[i] <= rateClock
  /\ \A i, j \in 1 .. Len(allowed) : i <= j => allowed[i] <= allowed[j]

WindowCounts(w, times) ==
  LET n == Len(times)
      c == w.count
  IN /\ 1 <= c /\ c <= limiter.limit /\ c <= n /\ w.started <= rateClock
     /\ \A i \in 1 .. n : i <= n - c => times[i] <= w.started + Skew
     /\ \A i \in 1 .. n : i <= n - c - limiter.limit =>
          times[i] <= w.started - limiter.duration + Skew

WindowsApart ==
  limiter # NoLimiter =>
  \A i, j \in 1 .. Len(allowed) :
    j = i + 2 * limiter.limit => allowed[j] >= allowed[i] + limiter.duration - Skew

RateInv ==
  /\ RateTypeOK /\ ReadingsFresh /\ TimesInOrder /\ WindowsApart
  /\ window = NoWindow => allowed = <<>>
  /\ window # NoWindow => WindowCounts(window, allowed)

(* A call counted by a window is the last one, and comes a duration after  *)
(* the call two limits before it, but for the skew.                        *)
LEMMA RateCounted ==
  ASSUME RateInv, limiter # NoLimiter, NEW w \in RateWindow,
         NEW times, times = Append(allowed, rateClock), WindowCounts(w, times)
  PROVE  /\ times \in Seq(Int)
         /\ \A i \in 1 .. Len(times) : times[i] <= rateClock
         /\ \A i, j \in 1 .. Len(times) : i <= j => times[i] <= times[j]
         /\ \A i, j \in 1 .. Len(times) :
              j = i + 2 * limiter.limit => times[j] >= times[i] + limiter.duration - Skew
<1> DEFINE n == Len(allowed)
           L == limiter.limit
           d == limiter.duration
<1>1. /\ allowed \in Seq(Int) /\ rateClock \in Int /\ L \in Int /\ d \in Int /\ L >= 1
      /\ Skew \in Int
  BY RateAssumption DEF RateInv, RateTypeOK
<1>2. /\ times \in Seq(Int) /\ Len(times) = n + 1 /\ times[n + 1] = rateClock /\ n \in Nat
      /\ \A i \in 1 .. n : times[i] = allowed[i] /\ allowed[i] \in Int
  BY <1>1, AppendProperties
<1>3. \A i \in 1 .. Len(times) : i = n + 1 \/ i \in 1 .. n
  BY <1>2
<1>4. \A i \in 1 .. Len(times) : times[i] <= rateClock /\ times[i] \in Int
  BY <1>1, <1>2, <1>3 DEF RateInv, TimesInOrder
<1>5. \A i, j \in 1 .. Len(times) : i <= j => times[i] <= times[j]
  <2> SUFFICES ASSUME NEW i \in 1 .. Len(times), NEW j \in 1 .. Len(times), i <= j
               PROVE  times[i] <= times[j]
    OBVIOUS
  <2>1. CASE j = n + 1
    BY <1>2, <1>4, <2>1
  <2>2. CASE j \in 1 .. n
    <3>1. i \in 1 .. n
      BY <1>2, <2>2
    <3> QED BY <1>2, <2>2, <3>1 DEF RateInv, TimesInOrder
  <2> QED BY <1>3, <2>1, <2>2
<1>6. ASSUME NEW i \in 1 .. Len(times), NEW j \in 1 .. Len(times), j = i + 2 * L
      PROVE  times[j] >= times[i] + d - Skew
  <2>1. CASE j \in 1 .. n
    <3>1. i \in 1 .. n
      BY <1>1, <1>2, <1>6, <2>1
    <3> QED BY <1>2, <1>6, <2>1, <3>1 DEF RateInv, WindowsApart
  <2>2. CASE j = n + 1
    <3>1. /\ w.started \in Int /\ w.count \in Int /\ w.count <= L /\ w.started <= rateClock
          /\ i <= Len(times) - w.count - L => times[i] <= w.started - d + Skew
      BY DEF WindowCounts, RateWindow
    <3>2. i <= Len(times) - w.count - L
      BY <1>1, <1>2, <1>6, <2>2, <3>1
    <3>3. times[i] <= w.started - d + Skew /\ times[i] \in Int /\ times[j] = rateClock
      BY <1>2, <1>4, <2>2, <3>1, <3>2
    <3> HIDE DEF d, n
    <3> QED BY <1>1, <3>1, <3>3, SMTT(60)
  <2> QED BY <1>3, <2>1, <2>2
<1> QED BY <1>2, <1>4, <1>5, <1>6

LEMMA RateStep == RateInv /\ [RateNext]_rateVars => RateInv'
<1> SUFFICES ASSUME RateInv, [RateNext]_rateVars PROVE RateInv'
  OBVIOUS
<1> USE RateAssumption
<1>0. CASE UNCHANGED rateVars
  BY <1>0 DEF rateVars, RateInv, RateTypeOK, ReadingsFresh, TimesInOrder, WindowsApart,
              WindowCounts
<1>1. ASSUME NEW limit \in RateLimits, NEW dur \in Durations, NewLimiter(limit, dur)
      PROVE  RateInv'
  <2>1. /\ limiter = NoLimiter /\ UNCHANGED <<rateClock, window, reading, allowed>>
        /\ limiter' \in [limit : Int, duration : Int]
        /\ limiter'.limit >= 1 /\ limiter'.duration >= 1
    BY <1>1 DEF NewLimiter
  <2>2. window = NoWindow /\ allowed = <<>> /\ Len(allowed) = 0
    BY <2>1 DEF RateInv, RateTypeOK
  <2>3. \A c \in RateCallers : reading[c] = NoTime
    BY <2>1 DEF RateInv, ReadingsFresh
  <2>4. limiter' # NoLimiter
    BY <2>1
  <2>5. RateTypeOK' /\ ReadingsFresh' /\ TimesInOrder'
    BY <2>1, <2>2, <2>3, <2>4 DEF RateInv, RateTypeOK, ReadingsFresh, TimesInOrder
  <2>6. WindowsApart'
    BY <2>1, <2>2 DEF WindowsApart
  <2> QED BY <2>1, <2>2, <2>5, <2>6 DEF RateInv
<1>2. ASSUME NEW c \in RateCallers, ReadRateClock(c) PROVE RateInv'
  <2>1. /\ limiter # NoLimiter /\ UNCHANGED <<rateClock, limiter, window, allowed>>
        /\ reading' = [reading EXCEPT ![c] = rateClock]
    BY <1>2 DEF ReadRateClock
  <2>2. RateTypeOK' /\ ReadingsFresh'
    BY <2>1 DEF RateInv, RateTypeOK, ReadingsFresh
  <2> QED BY <2>1, <2>2 DEF RateInv, TimesInOrder, WindowsApart, WindowCounts
<1>3. ASSUME NEW c \in RateCallers, Allow(c) PROVE RateInv'
  <2> DEFINE now == reading[c]
             L == limiter.limit
             d == limiter.duration
             n == Len(allowed)
             times == Append(allowed, rateClock)
  <2>1. /\ now # NoTime /\ limiter # NoLimiter /\ UNCHANGED <<rateClock, limiter>>
        /\ reading' = [reading EXCEPT ![c] = NoTime]
        /\ now \in Int /\ now <= rateClock /\ rateClock - now <= Skew /\ rateClock \in Int
    BY <1>3 DEF Allow, RateInv, RateTypeOK, ReadingsFresh
  <2>2. reading' \in [RateCallers -> Int \cup {NoTime}] /\ ReadingsFresh'
    BY <2>1 DEF RateInv, RateTypeOK, ReadingsFresh
  <2>3. /\ L \in Int /\ d \in Int /\ L >= 1 /\ d >= 1 /\ allowed \in Seq(Int) /\ n \in Nat
        /\ Len(times) = n + 1 /\ times[n + 1] = rateClock
        /\ \A i \in 1 .. n : times[i] = allowed[i] /\ allowed[i] \in Int /\ allowed[i] <= rateClock
    <3>1. allowed \in Seq(Int) /\ rateClock \in Int
      BY DEF RateInv, RateTypeOK
    <3>2. Len(times) = n + 1 /\ times[n + 1] = rateClock
          /\ \A i \in 1 .. n : times[i] = allowed[i] /\ allowed[i] \in Int
      BY <3>1, AppendProperties
    <3> QED BY <2>1, <3>1, <3>2 DEF RateInv, RateTypeOK, TimesInOrder
  <2>4. ASSUME NEW w \in RateWindow, window' = w, allowed' = times, WindowCounts(w, times)
        PROVE  RateInv'
    <3>1. /\ times \in Seq(Int)
          /\ \A i \in 1 .. Len(times) : times[i] <= rateClock
          /\ \A i, j \in 1 .. Len(times) : i <= j => times[i] <= times[j]
          /\ \A i, j \in 1 .. Len(times) :
               j = i + 2 * L => times[j] >= times[i] + d - Skew
      BY <2>1, <2>4, RateCounted
    <3> HIDE DEF times
    <3>2. RateTypeOK'
      BY <2>1, <2>2, <2>4, <3>1 DEF RateInv, RateTypeOK
    <3>3. TimesInOrder' /\ WindowsApart'
      BY <2>1, <2>4, <3>1 DEF TimesInOrder, WindowsApart
    <3>4. w # NoWindow
      BY DEF RateWindow
    <3>5. WindowCounts(window, allowed)'
      BY <2>1, <2>4 DEF WindowCounts
    <3> QED BY <2>2, <2>4, <3>2, <3>3, <3>4, <3>5 DEF RateInv
  <2>5. CASE Expired(now)
    <3> DEFINE w == [started |-> now, count |-> 1]
    <3>1. window' = w /\ allowed' = times /\ w \in RateWindow
      BY <1>3, <2>1, <2>5 DEF Allow, RateWindow
    <3>2. \A i \in 1 .. n + 1 : i <= n + 1 - 1 => times[i] <= now + Skew
      BY <2>1, <2>3
    <3>3. \A i \in 1 .. n + 1 : i <= n + 1 - 1 - L => times[i] <= now - d + Skew
      <4> SUFFICES ASSUME NEW i \in 1 .. n + 1, i <= n + 1 - 1 - L
                   PROVE  times[i] <= now - d + Skew
        OBVIOUS
      <4>1. i \in 1 .. n /\ n > 0 /\ allowed # <<>>
        BY <2>3
      <4>2. window # NoWindow /\ WindowCounts(window, allowed) /\ window \in RateWindow
        BY <4>1 DEF RateInv, RateTypeOK
      <4>3. now >= window.started + d
        BY <2>5, <4>2 DEF Expired
      <4>4. /\ window.started \in Int /\ window.count \in Int /\ window.count <= L
            /\ i <= n - window.count => allowed[i] <= window.started + Skew
        BY <4>1, <4>2 DEF WindowCounts, RateWindow
      <4>5. i <= n - window.count
        BY <2>3, <4>1, <4>4
      <4>6. times[i] = allowed[i] /\ allowed[i] \in Int /\ allowed[i] <= window.started + Skew
        BY <2>3, <4>1, <4>4, <4>5
      <4> HIDE DEF times, n, d, now
      <4> QED BY <2>1, <2>3, <4>3, <4>4, <4>6, SMTT(60)
    <3>4. WindowCounts(w, times)
      <4>1. w.count = 1 /\ w.started = now
        OBVIOUS
      <4> HIDE DEF w, times
      <4> QED BY <2>1, <2>3, <3>2, <3>3, <4>1 DEF WindowCounts
    <3> HIDE DEF w, times
    <3> QED BY <2>4, <3>1, <3>4
  <2>6. CASE ~Expired(now) /\ Full(window)
    <3>1. UNCHANGED <<rateClock, limiter, window, allowed>>
      BY <1>3, <2>1, <2>6 DEF Allow
    <3>2. RateTypeOK'
      BY <2>2, <3>1 DEF RateInv, RateTypeOK
    <3> QED BY <2>2, <3>1, <3>2 DEF RateInv, TimesInOrder, WindowsApart, WindowCounts
  <2>7. CASE ~Expired(now) /\ ~Full(window)
    <3>1. window # NoWindow /\ WindowCounts(window, allowed) /\ window \in RateWindow
      BY <2>7 DEF Expired, RateInv, RateTypeOK
    <3>2. PICK k \in Int, st \in Int : k = window.count /\ st = window.started
      BY <3>1 DEF RateWindow
    <3>3. k < L
      BY <2>3, <2>7, <3>2 DEF Full
    <3> DEFINE w == [started |-> st, count |-> k + 1]
    <3>4. window' = w /\ allowed' = times /\ w \in RateWindow
      <4>1. window = [started |-> st, count |-> k]
        BY <3>1, <3>2 DEF RateWindow
      <4>2. window' = [window EXCEPT !.count = window.count + 1] /\ allowed' = times
        BY <1>3, <2>1, <2>7 DEF Allow
      <4>3. [window EXCEPT !.count = k + 1] = w
        BY <4>1
      <4>4. w \in RateWindow
        BY DEF RateWindow
      <4> QED BY <3>2, <4>2, <4>3, <4>4
    <3>5. /\ 1 <= k /\ k <= n /\ st <= rateClock
          /\ \A i \in 1 .. n : i <= n - k => allowed[i] <= st + Skew
          /\ \A i \in 1 .. n : i <= n - k - L => allowed[i] <= st - d + Skew
      BY <3>1, <3>2 DEF WindowCounts
    <3>6. WindowCounts(w, times)
      <4>1. w.count = k + 1 /\ w.started = st
        OBVIOUS
      <4>2. \A i \in 1 .. n + 1 : i <= n + 1 - (k + 1) => times[i] <= st + Skew
        BY <2>3, <3>5
      <4>3. \A i \in 1 .. n + 1 : i <= n + 1 - (k + 1) - L => times[i] <= st - d + Skew
        BY <2>3, <3>5
      <4> HIDE DEF w, times
      <4> QED BY <2>3, <3>3, <3>5, <4>1, <4>2, <4>3, SMTT(60) DEF WindowCounts
    <3> HIDE DEF w, times
    <3> QED BY <2>4, <3>4, <3>6
  <2> QED BY <2>5, <2>6, <2>7
<1>4. CASE Reset
  <2>1. window' = NoWindow /\ allowed' = <<>> /\ UNCHANGED <<rateClock, limiter, reading>>
    BY <1>4 DEF Reset
  <2>2. allowed' \in Seq(Int) /\ Len(allowed') = 0
    BY <2>1
  <2> QED BY <2>1, <2>2 DEF RateInv, RateTypeOK, ReadingsFresh, TimesInOrder, WindowsApart
<1>5. CASE RateTick
  <2>1. /\ rateClock' = rateClock + 1 /\ rateClock \in Int
        /\ \A c \in RateCallers : reading[c] # NoTime => rateClock - reading[c] < Skew
        /\ UNCHANGED <<limiter, window, reading, allowed>>
    BY <1>5 DEF RateTick, RateInv, RateTypeOK
  <2>2. RateTypeOK'
    BY <2>1 DEF RateInv, RateTypeOK
  <2>3. ReadingsFresh'
    BY <2>1 DEF RateInv, RateTypeOK, ReadingsFresh
  <2>4. TimesInOrder' /\ WindowsApart'
    <3>1. \A i \in 1 .. Len(allowed) : allowed[i] \in Int
      BY DEF RateInv, RateTypeOK
    <3> QED BY <2>1, <3>1 DEF RateInv, TimesInOrder, WindowsApart
  <2>5. window # NoWindow => WindowCounts(window, allowed)'
    <3>1. window # NoWindow => window.started \in Int
      BY DEF RateInv, RateTypeOK, RateWindow
    <3> QED BY <2>1, <3>1 DEF RateInv, WindowCounts
  <2> QED BY <2>1, <2>2, <2>3, <2>4, <2>5 DEF RateInv
<1> QED BY <1>0, <1>1, <1>2, <1>3, <1>4, <1>5 DEF RateNext

(* In a stretch shorter than a duration less the skew: the first call in   *)
(* it has an index, and none is two limits beyond.                         *)
LEMMA RateWindows == RateInv => AtMostTwoWindows
<1> SUFFICES ASSUME RateInv, limiter # NoLimiter, NEW t \in 1 .. rateClock
             PROVE  Cardinality({i \in 1 .. Len(allowed) :
                                   t <= allowed[i] /\ allowed[i] < t + limiter.duration - Skew})
                      <= 2 * limiter.limit
  BY DEF AtMostTwoWindows
<1> DEFINE n == Len(allowed)
           d == limiter.duration
           S == {i \in 1 .. n : t <= allowed[i] /\ allowed[i] < t + d - Skew}
<1>1. /\ n \in Nat /\ limiter.limit \in Int /\ d \in Int /\ limiter.limit >= 1
      /\ \A i \in 1 .. n : allowed[i] \in Int
      /\ rateClock \in Int /\ Skew \in Int
  BY RateAssumption DEF RateInv, RateTypeOK
<1>2. PICK k \in Nat : k = 2 * limiter.limit
  BY <1>1
<1>3. CASE S = {}
  <2>1. Cardinality(S) = 0
    BY <1>3, FS_EmptySet
  <2> HIDE DEF S
  <2> QED BY <1>2, <2>1 DEF S
<1>4. CASE S # {}
  <2>1. S \subseteq Nat
    OBVIOUS
  <2>2. PICK m \in S : \A i \in S : m <= i
    <3> HIDE DEF S
    <3> QED BY <1>4, <2>1, Smallest
  <2>3. m \in 1 .. n /\ t <= allowed[m] /\ allowed[m] \in Int
    BY <1>1, <2>2
  <2>4. S \subseteq m .. m + k - 1
    <3> SUFFICES ASSUME NEW i \in S PROVE i \in m .. m + k - 1
      OBVIOUS
    <3>1. i \in 1 .. n /\ m <= i /\ allowed[i] < t + d - Skew /\ allowed[i] \in Int
      BY <1>1, <2>2
    <3>2. ASSUME i >= m + k PROVE FALSE
      <4>1. m + k \in 1 .. n /\ m + k <= i
        BY <1>1, <2>3, <3>1, <3>2
      <4>2. allowed[m + k] <= allowed[i]
        BY <3>1, <4>1 DEF RateInv, TimesInOrder
      <4>3. allowed[m + k] >= allowed[m] + d - Skew
        BY <1>2, <2>3, <4>1 DEF RateInv, WindowsApart
      <4>4. allowed[m + k] \in Int
        BY <1>1, <4>1
      <4>5. t \in Int
        BY <1>1
      <4> HIDE DEF d, n
      <4> QED BY <1>1, <2>3, <3>1, <4>2, <4>3, <4>4, <4>5
    <3> QED BY <2>3, <3>1, <3>2
  <2>5. IsFiniteSet(m .. m + k - 1) /\ Cardinality(m .. m + k - 1) <= k
    <3>1. m \in Int /\ m + k - 1 \in Int
      BY <2>3
    <3>2. /\ IsFiniteSet(m .. m + k - 1)
          /\ Cardinality(m .. m + k - 1)
               = IF m > m + k - 1 THEN 0 ELSE (m + k - 1) - m + 1
      BY <3>1, FS_Interval
    <3>3. (m + k - 1) - m + 1 = k
      BY <3>1
    <3> QED BY <3>2, <3>3
  <2> HIDE DEF S
  <2>6. Cardinality(S) <= Cardinality(m .. m + k - 1)
    BY <2>4, <2>5, FS_Subset
  <2>7. Cardinality(S) \in Nat /\ Cardinality(m .. m + k - 1) \in Nat
    BY <2>4, <2>5, FS_Subset, FS_CardinalityType
  <2> QED BY <1>2, <2>5, <2>6, <2>7 DEF S
<1> QED BY <1>3, <1>4

(* What Remaining promises: k calls at one time are k more in the window,  *)
(* or k in a new one.                                                      *)
LEMMA RateRemaining == RateInv => RemainingIsKept
<1> SUFFICES ASSUME RateInv, limiter # NoLimiter PROVE RemainingIsKept
  BY DEF RemainingIsKept
<1> DEFINE L == limiter.limit
           AllowAt(w) == IF w = NoWindow \/ rateClock >= w.started + limiter.duration
                         THEN [started |-> rateClock, count |-> 1]
                         ELSE [w EXCEPT !.count = @ + 1]
           Body(h, k) == IF k = 0 THEN window ELSE AllowAt(h[k - 1])
           Eq(h) == h = [k \in 0 .. L |-> Body(h, k)]
           it == CHOOSE h : Eq(h)
           Form(k) == IF Expired(rateClock) THEN [started |-> rateClock, count |-> k]
                      ELSE [started |-> window.started, count |-> window.count + k]
           closed == [k \in 0 .. L |-> IF k = 0 THEN window ELSE Form(k)]
<1>1. /\ L \in Int /\ L >= 1 /\ rateClock \in Int
      /\ limiter.duration \in Int /\ limiter.duration >= 1
  BY DEF RateInv, RateTypeOK
<1>2. ~Expired(rateClock) =>
        /\ window # NoWindow /\ window.started \in Int /\ window.count \in Int
        /\ window = [started |-> window.started, count |-> window.count]
        /\ window.count >= 1 /\ window.count <= L
        /\ ~(rateClock >= window.started + limiter.duration)
  BY DEF Expired, RateInv, RateTypeOK, RateWindow, WindowCounts
<1>3. ASSUME NEW a \in Int, NEW b \in Int,
             rateClock < a + limiter.duration
      PROVE  AllowAt([started |-> a, count |-> b]) = [started |-> a, count |-> b + 1]
  <2>1. [started |-> a, count |-> b] # NoWindow
    BY RateAssumption
  <2> QED BY <1>1, <1>3, <2>1
<1>4. Expired(rateClock) => AllowAt(window) = [started |-> rateClock, count |-> 1]
  BY DEF Expired
<1>5. ASSUME NEW k \in 0 .. L, k # 0 PROVE closed[k] = AllowAt(closed[k - 1])
  <2>1. k - 1 \in 0 .. L /\ k \in Int
    BY <1>1, <1>5
  <2>2. closed[k] = Form(k)
    BY <1>5
  <2>3. CASE k = 1 /\ Expired(rateClock)
    <3>1. closed[k - 1] = window
      BY <1>1, <2>3
    <3> HIDE DEF closed, AllowAt
    <3> QED BY <1>4, <2>2, <2>3, <3>1
  <2>4. CASE k = 1 /\ ~Expired(rateClock)
    <3>1. closed[k - 1] = window
      BY <1>1, <2>4
    <3>2. AllowAt(window) = [started |-> window.started, count |-> window.count + 1]
      <4>1. rateClock < window.started + limiter.duration
        BY <1>1, <1>2, <2>4
      <4>2. AllowAt([started |-> window.started, count |-> window.count])
              = [started |-> window.started, count |-> window.count + 1]
        BY <1>2, <1>3, <2>4, <4>1
      <4> HIDE DEF AllowAt
      <4> QED BY <1>2, <2>4, <4>2
    <3> HIDE DEF closed, AllowAt
    <3> QED BY <2>2, <2>4, <3>1, <3>2
  <2>5. CASE k # 1 /\ Expired(rateClock)
    <3>1. closed[k - 1] = [started |-> rateClock, count |-> k - 1]
      BY <1>5, <2>1, <2>5
    <3>2. AllowAt([started |-> rateClock, count |-> k - 1])
            = [started |-> rateClock, count |-> (k - 1) + 1]
      <4>1. rateClock < rateClock + limiter.duration
        BY <1>1
      <4> HIDE DEF AllowAt
      <4> QED BY <1>1, <1>3, <2>1, <4>1
    <3>3. (k - 1) + 1 = k
      BY <2>1
    <3> HIDE DEF closed, AllowAt
    <3> QED BY <2>2, <2>5, <3>1, <3>2, <3>3
  <2>6. CASE k # 1 /\ ~Expired(rateClock)
    <3>1. closed[k - 1] = [started |-> window.started, count |-> window.count + (k - 1)]
      BY <1>5, <2>1, <2>6
    <3>2. AllowAt([started |-> window.started, count |-> window.count + (k - 1)])
            = [started |-> window.started, count |-> (window.count + (k - 1)) + 1]
      <4>1. rateClock < window.started + limiter.duration /\ window.count + (k - 1) \in Int
        BY <1>1, <1>2, <2>1, <2>6
      <4> HIDE DEF AllowAt
      <4> QED BY <1>2, <1>3, <2>6, <4>1
    <3>3. (window.count + (k - 1)) + 1 = window.count + k
      BY <1>2, <2>1, <2>6
    <3> HIDE DEF closed, AllowAt
    <3> QED BY <2>2, <2>6, <3>1, <3>2, <3>3
  <2> QED BY <2>3, <2>4, <2>5, <2>6
<1>6. closed[0] = window /\ 0 \in 0 .. L
  BY <1>1
<1>7. Eq(closed)
  <2>1. closed = [k \in 0 .. L |-> closed[k]]
    OBVIOUS
  <2>2. \A k \in 0 .. L : closed[k] = Body(closed, k)
    <3> HIDE DEF closed, AllowAt
    <3> QED BY <1>5, <1>6
  <2> HIDE DEF closed, Body
  <2> QED BY <2>1, <2>2
<1>8. Eq(it)
  <2> HIDE DEF closed, Eq
  <2> QED BY <1>7
<1>9. \A k \in 0 .. L : it[k] = Body(it, k)
  <2> HIDE DEF Body, it
  <2> QED BY <1>8
<1> HIDE DEF it, Eq
<1> DEFINE B == {k \in 0 .. L : it[k] # closed[k]}
<1>10. B = {}
  <2> SUFFICES ASSUME B # {} PROVE FALSE
    OBVIOUS
  <2>1. B \subseteq Nat
    BY <1>1
  <2> HIDE DEF closed, AllowAt
  <2>2. PICK k \in B : \A m \in B : k <= m
    <3> HIDE DEF B
    <3> QED BY <2>1, Smallest
  <2>3. k \in 0 .. L /\ it[k] # closed[k]
    BY <2>2
  <2>4. k # 0
    BY <1>6, <1>9, <2>3
  <2>5. k - 1 \in 0 .. L
    BY <1>1, <2>3, <2>4
  <2>6. ~(k - 1 \in B)
    <3>1. k - 1 \in B => k <= k - 1
      BY <2>2
    <3> HIDE DEF B
    <3> QED BY <1>1, <2>3, <3>1
  <2>7. it[k - 1] = closed[k - 1]
    BY <2>5, <2>6
  <2> QED BY <1>5, <1>9, <2>3, <2>4, <2>7
<1> DEFINE r == Remaining(rateClock)
<1>11. r \in 0 .. L /\ closed[r] # NoWindow /\ closed[r].count = L
  <2>1. CASE Expired(rateClock)
    <3>1. r = L /\ L \in 0 .. L /\ L # 0
      BY <1>1, <2>1 DEF Remaining
    <3>2. closed[r] = [started |-> rateClock, count |-> L]
      BY <2>1, <3>1
    <3>3. [started |-> rateClock, count |-> L] # NoWindow
      BY <1>1, RateAssumption
    <3> HIDE DEF closed, r
    <3> QED BY <3>1, <3>2, <3>3
  <2>2. CASE ~Expired(rateClock) /\ Full(window)
    <3>1. r = 0 /\ window.count = L
      BY <1>1, <1>2, <2>2 DEF Remaining, Full
    <3> HIDE DEF closed, r
    <3> QED BY <1>2, <1>6, <2>2, <3>1
  <2>3. CASE ~Expired(rateClock) /\ ~Full(window)
    <3>1. /\ r = L - window.count /\ r \in 0 .. L /\ r # 0
          /\ window.count + r = L /\ window.count + r \in Int
      BY <1>1, <1>2, <2>3 DEF Remaining, Full
    <3>2. closed[r] = [started |-> window.started, count |-> window.count + r]
      BY <2>3, <3>1
    <3>3. [started |-> window.started, count |-> window.count + r] # NoWindow
      BY <1>2, <2>3, <3>1, RateAssumption
    <3> HIDE DEF closed, r
    <3> QED BY <3>1, <3>2, <3>3
  <2> QED BY <2>1, <2>2, <2>3
<1>12. r \in 0 .. L /\ it[r] # NoWindow /\ it[r].count = L
  <2> HIDE DEF closed, r
  <2> QED BY <1>10, <1>11
<1> QED BY <1>12 DEF RemainingIsKept, it, Eq

(* However old the readings of the clock that concurrent callers bring, no *)
(* stretch of time shorter than a duration less the skew sees more than    *)
(* twice the limit of calls allowed, and Allow keeps what Remaining says.  *)
THEOREM LimiterIsSound == RateSpec => []RateSound
<1>1. RateInit => RateInv
  <2> SUFFICES ASSUME RateInit PROVE RateInv
    OBVIOUS
  <2>1. allowed = <<>> /\ allowed \in Seq(Int) /\ Len(allowed) = 0
    BY DEF RateInit
  <2>2. reading \in [RateCallers -> Int \cup {NoTime}] /\ rateClock = 1
    BY DEF RateInit
  <2> QED BY <2>1, <2>2 DEF RateInit, RateInv, RateTypeOK, ReadingsFresh, TimesInOrder,
                            WindowsApart
<1>2. RateInv => RateSound
  BY RateWindows, RateRemaining DEF RateSound
<1> QED BY <1>1, <1>2, RateStep, PTL DEF RateSpec

-----------------------------------------------------------------------------
(* ShipmentAggregate.  The moves lead one way, so a log has five events at *)
(* most and no version comes twice, even if it wraps around: a caller      *)
(* whose version is the current one has seen the current status.           *)
Rank(status) ==
  IF status = "draft" THEN 0 ELSE IF status = "booked" THEN 1
  ELSE IF status = "screening" THEN 2 ELSE IF status = "cleared" THEN 3
  ELSE IF status = "loaded" THEN 4 ELSE 5

LEMMA MovesLeadOneWay ==
  ASSUME NEW from, NEW to, <<from, to>> \in ShipmentMoves
  PROVE  /\ from \in ShipmentStatus /\ to \in ShipmentStatus
         /\ Rank(from) \in 0 .. 4 /\ Rank(to) \in 0 .. 5 /\ Rank(to) >= Rank(from) + 1
BY DEF ShipmentMoves, ShipmentStatus, Rank

(* The version after n moves, and that two of them differ.                 *)
LEMMA VersionsCount ==
  ASSUME NEW v \in 1 .. MaxInt64, NEW k \in 0 .. 5, NEW n \in 0 .. 5
  PROVE  /\ AddInt64(v, n) \in Int
         /\ AddInt64(v, 0) = v
         /\ AddInt64(AddInt64(v, n), 1) = AddInt64(v, n + 1)
         /\ AddInt64(v, k) = AddInt64(v, n) => k = n
BY ShipmentAggregateAssumption, MaxInt64Assumption DEF AddInt64

(* The status after n of the events.                                       *)
After(first, log, n) == IF n = 0 THEN first ELSE log[n]

LEMMA AfterAppend ==
  ASSUME NEW first, NEW log \in Seq(ShipmentStatus), NEW next \in ShipmentStatus
  PROVE  /\ Len(log) \in Nat /\ Len(Append(log, next)) = Len(log) + 1
         /\ After(first, Append(log, next), Len(log) + 1) = next
         /\ \A i \in 0 .. Len(log) : After(first, Append(log, next), i) = After(first, log, i)
<1>1. /\ Len(log) \in Nat /\ Len(Append(log, next)) = Len(log) + 1
      /\ Append(log, next)[Len(log) + 1] = next
      /\ \A i \in 1 .. Len(log) : Append(log, next)[i] = log[i]
  BY AppendProperties, LenProperties
<1> QED BY <1>1 DEF After

LEMMA PathIsAfter ==
  ASSUME NEW first, NEW log \in Seq(ShipmentStatus), first \in ShipmentStatus
  PROVE  LET path == <<first>> \o log IN
         /\ Len(path) = Len(log) + 1
         /\ \A i \in 1 .. Len(log) + 1 : path[i] = After(first, log, i - 1)
<1> DEFINE path == <<first>> \o log
<1>1. /\ <<first>> \in Seq(ShipmentStatus) /\ Len(<<first>>) = 1 /\ <<first>>[1] = first
      /\ Len(log) \in Nat
  BY LenProperties
<1>2. /\ Len(path) = 1 + Len(log)
      /\ \A i \in 1 .. 1 + Len(log) :
           path[i] = IF i <= 1 THEN <<first>>[i] ELSE log[i - 1]
  BY <1>1, ConcatProperties
<1> HIDE DEF path
<1>3. ASSUME NEW i \in 1 .. Len(log) + 1 PROVE path[i] = After(first, log, i - 1)
  <2>1. CASE i = 1
    BY <1>1, <1>2, <2>1 DEF After
  <2>2. CASE i # 1
    BY <1>1, <1>2, <2>2 DEF After
  <2> QED BY <2>1, <2>2
<1> QED BY <1>1, <1>2, <1>3 DEF path

(* The state of an aggregate with its log, as a fact about values.         *)
LogOf(first, v, log, status, version, seenBy) ==
  /\ first \in ShipmentStatus /\ v \in 1 .. MaxInt64 /\ log \in Seq(ShipmentStatus)
  /\ status = After(first, log, Len(log)) /\ status \in ShipmentStatus
  /\ Len(log) <= Rank(status) /\ version = AddInt64(v, Len(log))
  /\ seenBy \in Seq(ShipmentStatus) /\ Len(seenBy) = Len(log)
  /\ \A i \in 1 .. Len(log) :
       /\ seenBy[i] = After(first, log, i - 1)
       /\ <<After(first, log, i - 1), After(first, log, i)>> \in ShipmentMoves

SeenOf(first, v, log, status, version) ==
  \E k \in 0 .. Len(log) :
    status = After(first, log, k) /\ version = AddInt64(v, k)

AggregateInv ==
  /\ DOMAIN view = Movers
  /\ item = NoItem => grounds = <<>> /\ \A m \in Movers : view[m] = NoItem
  /\ item # NoItem =>
       /\ LogOf(created.status, created.version, item.events, item.status, item.version, grounds)
       /\ \A m \in Movers : view[m] # NoItem =>
            SeenOf(created.status, created.version, item.events, view[m].status, view[m].version)

LEMMA LogGrows ==
  ASSUME NEW first, NEW v, NEW log, NEW status, NEW version, NEW seenBy,
         LogOf(first, v, log, status, version, seenBy),
         NEW next, <<status, next>> \in ShipmentMoves
  PROVE  /\ LogOf(first, v, Append(log, next), next, AddInt64(version, 1),
                  Append(seenBy, status))
         /\ \A s, w : SeenOf(first, v, log, s, w) => SeenOf(first, v, Append(log, next), s, w)
         /\ \A s : SeenOf(first, v, log, s, version) => s = status
<1>1. PICK n \in 0 .. 4 : n = Len(log)
  <2>1. log \in Seq(ShipmentStatus) /\ Len(log) <= Rank(status)
    BY DEF LogOf
  <2>2. Len(log) \in Nat /\ Rank(status) \in 0 .. 4
    BY <2>1, MovesLeadOneWay, LenProperties
  <2>3. PICK n \in Nat, rank \in 0 .. 4 : n = Len(log) /\ rank = Rank(status) /\ n <= rank
    BY <2>1, <2>2
  <2>4. n \in 0 .. 4
    BY <2>3
  <2> QED BY <2>3, <2>4
<1>2. next \in ShipmentStatus /\ n + 1 <= Rank(next)
  BY <1>1, MovesLeadOneWay DEF LogOf
<1> DEFINE longer == Append(log, next)
           seen2 == Append(seenBy, status)
<1>3. /\ longer \in Seq(ShipmentStatus) /\ Len(longer) = n + 1
      /\ After(first, longer, n + 1) = next
      /\ \A i \in 0 .. n : After(first, longer, i) = After(first, log, i)
  BY <1>1, <1>2, AfterAppend, AppendProperties DEF LogOf
<1>4. /\ seen2 \in Seq(ShipmentStatus) /\ Len(seen2) = n + 1 /\ seen2[n + 1] = status
      /\ \A i \in 1 .. n : seen2[i] = seenBy[i]
  BY <1>1, AppendProperties DEF LogOf
<1> HIDE DEF longer, seen2
<1>a. v \in 1 .. MaxInt64 /\ version = AddInt64(v, n) /\ n \in 0 .. 5
  BY <1>1 DEF LogOf
<1>5. AddInt64(version, 1) = AddInt64(v, n + 1)
  BY <1>a, VersionsCount
<1>6. ASSUME NEW i \in 1 .. n + 1
      PROVE  /\ seen2[i] = After(first, longer, i - 1)
             /\ <<After(first, longer, i - 1), After(first, longer, i)>> \in ShipmentMoves
  <2>1. CASE i \in 1 .. n
    <3>1. i \in 0 .. n /\ i - 1 \in 0 .. n
      BY <2>1
    <3> QED BY <1>1, <1>3, <1>4, <2>1, <3>1 DEF LogOf
  <2>2. CASE i = n + 1
    <3>1. n \in 0 .. n /\ i - 1 = n
      BY <2>2
    <3> QED BY <1>1, <1>3, <1>4, <2>2, <3>1 DEF LogOf
  <2> QED BY <2>1, <2>2
<1>7. LogOf(first, v, longer, next, AddInt64(version, 1), seen2)
  BY <1>1, <1>2, <1>3, <1>4, <1>5, <1>6 DEF LogOf
<1>8. ASSUME NEW s, NEW w, SeenOf(first, v, log, s, w) PROVE SeenOf(first, v, longer, s, w)
  <2>1. PICK k \in 0 .. n : s = After(first, log, k) /\ w = AddInt64(v, k)
    BY <1>1, <1>8 DEF SeenOf
  <2>2. k \in 0 .. n + 1
    OBVIOUS
  <2> QED BY <1>3, <2>1, <2>2 DEF SeenOf
<1>9. ASSUME NEW s, SeenOf(first, v, log, s, version) PROVE s = status
  <2>1. PICK k \in 0 .. n : s = After(first, log, k) /\ version = AddInt64(v, k)
    BY <1>1, <1>9 DEF SeenOf
  <2>a. k \in 0 .. 5
    OBVIOUS
  <2>b. AddInt64(v, k) = AddInt64(v, n)
    BY <1>a, <2>1
  <2>2. k = n
    BY <1>a, <2>a, <2>b, VersionsCount
  <2> QED BY <1>1, <2>1, <2>2 DEF LogOf
<1> QED BY <1>7, <1>8, <1>9 DEF longer, seen2

LEMMA AggregateStep == AggregateInv /\ [AggregateNext]_aggregateVars => AggregateInv'
<1> SUFFICES ASSUME AggregateInv, [AggregateNext]_aggregateVars PROVE AggregateInv'
  OBVIOUS
<1>0. CASE UNCHANGED aggregateVars
  BY <1>0 DEF aggregateVars, AggregateInv
<1>1. ASSUME NEW status \in ShipmentStatus, NEW version \in FirstVersions, CreateItem(status, version)
      PROVE  AggregateInv'
  <2>1. /\ version >= 1 /\ item = NoItem /\ UNCHANGED <<view, grounds>>
        /\ item' = [status |-> status, version |-> version, events |-> <<>>]
        /\ created' = [status |-> status, version |-> version]
    BY <1>1 DEF CreateItem
  <2>2. /\ version \in 1 .. MaxInt64 /\ <<>> \in Seq(ShipmentStatus) /\ Len(<<>>) = 0
        /\ Rank(status) >= 0
    BY <2>1, ShipmentAggregateAssumption, MaxInt64Assumption DEF Rank
  <2>3. LogOf(status, version, <<>>, status, version, <<>>)
    <3>1. 0 \in 0 .. 5 /\ 1 .. 0 = {} /\ 0 <= Rank(status)
      BY DEF Rank
    <3>2. AddInt64(version, 0) = version
      BY <2>2, <3>1, VersionsCount
    <3> QED BY <2>2, <3>1, <3>2 DEF LogOf, After
  <2>4. item' # NoItem
    <3>1. PICK none \in Seq(ShipmentStatus) : none = <<>>
      BY <2>2
    <3>2. [status |-> status, version |-> version, events |-> none]
            \in [status : ShipmentStatus, version : Int, events : Seq(ShipmentStatus)]
      BY <2>2
    <3> QED BY <2>1, <3>1, <3>2, ShipmentAggregateAssumption
  <2> QED BY <2>1, <2>3, <2>4 DEF AggregateInv
<1>2. ASSUME NEW m \in Movers, GetItem(m) PROVE AggregateInv'
  <2>1. /\ item # NoItem /\ UNCHANGED <<item, created, grounds>>
        /\ view' = [view EXCEPT ![m] = [status |-> item.status, version |-> item.version]]
    BY <1>2 DEF GetItem
  <2>2. LogOf(created.status, created.version, item.events, item.status, item.version, grounds)
    BY <2>1 DEF AggregateInv
  <2>3. SeenOf(created.status, created.version, item.events, item.status, item.version)
    <3>1. Len(item.events) \in Nat
      BY <2>2, LenProperties DEF LogOf
    <3>2. Len(item.events) \in 0 .. Len(item.events)
      BY <3>1
    <3> QED BY <2>2, <3>2 DEF LogOf, SeenOf
  <2>4. \A j \in Movers : view'[j] # NoItem =>
          SeenOf(created.status, created.version, item.events, view'[j].status, view'[j].version)
    BY <2>1, <2>3 DEF AggregateInv
  <2> QED BY <2>1, <2>4 DEF AggregateInv
<1>3. ASSUME NEW m \in Movers, NEW next \in ShipmentStatus, Transition(m, next) PROVE AggregateInv'
  <2>1. /\ view[m] # NoItem /\ item.version = view[m].version
        /\ <<item.status, next>> \in ShipmentMoves
        /\ item' = [status |-> next, version |-> AddInt64(item.version, 1),
                    events |-> Append(item.events, next)]
        /\ grounds' = Append(grounds, view[m].status) /\ UNCHANGED <<created, view>>
    BY <1>3 DEF Transition, SameVersion, ShipmentCanTransition
  <2>2. /\ item # NoItem
        /\ LogOf(created.status, created.version, item.events, item.status, item.version, grounds)
        /\ \A j \in Movers : view[j] # NoItem =>
             SeenOf(created.status, created.version, item.events, view[j].status, view[j].version)
    BY <2>1 DEF AggregateInv
  <2>3. view[m].status = item.status
    BY <2>1, <2>2, LogGrows
  <2>4. LogOf(created.status, created.version, item'.events, item'.status, item'.version, grounds')
    BY <2>1, <2>2, <2>3, LogGrows
  <2>5. \A j \in Movers : view[j] # NoItem =>
          SeenOf(created.status, created.version, item'.events, view[j].status, view[j].version)
    BY <2>1, <2>2, LogGrows
  <2>6. item' # NoItem
    <3>1. item'.events \in Seq(ShipmentStatus) /\ AddInt64(item.version, 1) \in Int
      BY <2>2, <2>4, MaxInt64Assumption, SMTT(60) DEF LogOf, AddInt64
    <3>2. item' \in [status : ShipmentStatus, version : Int, events : Seq(ShipmentStatus)]
      BY <2>1, <3>1
    <3> QED BY <3>2, ShipmentAggregateAssumption
  <2> QED BY <2>1, <2>4, <2>5, <2>6 DEF AggregateInv
<1> QED BY <1>0, <1>1, <1>2, <1>3 DEF AggregateNext

(* The log is a path of legal moves, each made by a caller that had seen   *)
(* its predecessor, and the version counts it, wrap-around included.       *)
THEOREM LogsArePaths == AggregateSpec => []LogIsPath
<1>1. AggregateInit => AggregateInv
  BY DEF AggregateInit, AggregateInv
<1>2. AggregateInv => LogIsPath
  <2> SUFFICES ASSUME AggregateInv, item # NoItem
               PROVE  LET path == <<created.status>> \o item.events IN
                      /\ path[Len(path)] = item.status
                      /\ item.version = AddInt64(created.version, Len(item.events))
                      /\ \A i \in 1 .. Len(grounds) :
                           grounds[i] = path[i] /\ <<path[i], path[i + 1]>> \in ShipmentMoves
    BY DEF LogIsPath
  <2> DEFINE path == <<created.status>> \o item.events
  <2>1. LogOf(created.status, created.version, item.events, item.status, item.version, grounds)
    BY DEF AggregateInv
  <2>2. PICK n \in Nat : n = Len(item.events)
    BY <2>1, LenProperties DEF LogOf
  <2>3. /\ Len(path) = n + 1
        /\ \A i \in 1 .. n + 1 : path[i] = After(created.status, item.events, i - 1)
    BY <2>1, <2>2, PathIsAfter DEF LogOf
  <2> HIDE DEF path
  <2>4. path[n + 1] = item.status
    <3>1. n + 1 \in 1 .. n + 1 /\ (n + 1) - 1 = n
      OBVIOUS
    <3> QED BY <2>1, <2>2, <2>3, <3>1 DEF LogOf
  <2>5. ASSUME NEW i \in 1 .. n
        PROVE  grounds[i] = path[i] /\ <<path[i], path[i + 1]>> \in ShipmentMoves
    <3>1. i \in 1 .. n + 1 /\ i + 1 \in 1 .. n + 1 /\ (i + 1) - 1 = i
      OBVIOUS
    <3> QED BY <2>1, <2>2, <2>3, <3>1 DEF LogOf
  <2> QED BY <2>1, <2>2, <2>3, <2>4, <2>5 DEF LogOf, path
<1> QED BY <1>1, <1>2, AggregateStep, PTL DEF AggregateSpec

-----------------------------------------------------------------------------
(* Sorting.  Every order of the elements picked from a slice holds each of *)
(* them, at one place.                                                     *)
LEMMA OrderHoldsAll ==
  ASSUME NEW T, NEW s \in Seq(T), NEW I \in SUBSET (DOMAIN s), NEW p \in SetToSeqs(I)
  PROVE  /\ Permuted(s, p) \in Seq(T)
         /\ Cardinality(I) \in Nat /\ DOMAIN p = 1 .. Cardinality(I)
         /\ DOMAIN Permuted(s, p) = DOMAIN p
         /\ \A i \in DOMAIN p : p[i] \in I /\ Permuted(s, p)[i] = s[p[i]]
         /\ \A i, j \in DOMAIN p : p[i] = p[j] => i = j
         /\ \A x \in I : \E i \in DOMAIN p : p[i] = x
<1>1. Len(s) \in Nat /\ DOMAIN s = 1 .. Len(s) /\ \A i \in DOMAIN s : s[i] \in T
  BY LenProperties, ElementOfSeq
<1>2. IsFiniteSet(I)
  <2>1. IsFiniteSet(1 .. Len(s))
    BY <1>1, FS_Interval
  <2> QED BY <1>1, <2>1, FS_Subset
<1>3. /\ Cardinality(I) \in Nat /\ DOMAIN p = 1 .. Cardinality(I)
      /\ \A i \in DOMAIN p : p[i] \in I
      /\ \A i, j \in DOMAIN p : p[i] = p[j] => i = j
      /\ \A x \in I : \E i \in DOMAIN p : p[i] = x
  BY <1>2, SeqsOnto
<1>4. PICK n \in Nat : n = Cardinality(I) /\ DOMAIN p = 1 .. n
  BY <1>3
<1>5. Permuted(s, p) = [i \in 1 .. n |-> s[p[i]]]
  BY <1>4 DEF Permuted
<1>6. \A i \in 1 .. n : s[p[i]] \in T
  BY <1>1, <1>3, <1>4
<1>7. Permuted(s, p) \in [1 .. n -> T]
  BY <1>5, <1>6
<1>8. Permuted(s, p) \in Seq(T)
  <2>1. Seq(T) = UNION {[1 .. m -> T] : m \in Nat}
    BY SeqDef
  <2> QED BY <1>7, <2>1
<1> QED BY <1>3, <1>4, <1>5, <1>8

(* A finite set of numbers has an order, and it goes through all of them.  *)
LEMMA AscendingIs ==
  ASSUME NEW S \in SUBSET Int, IsFiniteSet(S)
  PROVE  /\ Ascending(S) \in SetToSeqs(S)
         /\ \A i, j \in DOMAIN Ascending(S) : i < j => Ascending(S)[i] < Ascending(S)[j]
         /\ Cardinality(S) \in Nat /\ DOMAIN Ascending(S) = 1 .. Cardinality(S)
         /\ \A i \in DOMAIN Ascending(S) : Ascending(S)[i] \in S
         /\ \A x \in S : \E i \in DOMAIN Ascending(S) : Ascending(S)[i] = x
<1> DEFINE key == [x \in S |-> x]
<1>1. \A x \in S : key[x] \in Int
  OBVIOUS
<1>2. PICK p \in SetToSeqs(S) : \A i, j \in DOMAIN p : i < j => key[p[i]] <= key[p[j]]
  <2> HIDE DEF key
  <2> QED BY <1>1, SortedExists
<1>3. /\ Cardinality(S) \in Nat /\ DOMAIN p = 1 .. Cardinality(S)
      /\ \A i \in DOMAIN p : p[i] \in S
      /\ \A i, j \in DOMAIN p : p[i] = p[j] => i = j
  BY <1>2, SeqsOnto
<1>4. ASSUME NEW i \in DOMAIN p, NEW j \in DOMAIN p, i < j PROVE p[i] < p[j]
  <2>1. p[i] \in S /\ p[j] \in S /\ p[i] # p[j]
    BY <1>3, <1>4
  <2>2. p[i] <= p[j]
    BY <1>2, <1>4, <2>1
  <2>3. p[i] \in Int /\ p[j] \in Int
    BY <2>1
  <2> QED BY <2>1, <2>2, <2>3
<1>5. /\ Ascending(S) \in SetToSeqs(S)
      /\ \A i, j \in DOMAIN Ascending(S) : i < j => Ascending(S)[i] < Ascending(S)[j]
  BY <1>4 DEF Ascending
<1> QED BY <1>5, SeqsOnto

-----------------------------------------------------------------------------
(* Pricing.  A product in int64 is the exact one wrapped around, so the    *)
(* total is.  First, the sign of a multiple.                               *)
LEMMA NegativeMultiple ==
  ASSUME NEW N \in Nat \ {0}, NEW q \in Int
  PROVE  (q < 0 => N * q <= -N) /\ (q >= 0 => N * q >= 0)
OBVIOUS

(* Wrapping changes a number by a multiple of 2^64: a number that fits is  *)
(* the one computed, and one that is not negative gets no larger.          *)
LEMMA WrapFits ==
  ASSUME NEW n \in Int
  PROVE  /\ n \in Int64 => Wrap(n) = n
         /\ (n - Wrap(n)) % (2 * (MaxInt64 + 1)) = 0
         /\ Wrap(n) \in Int /\ (n >= 0 => Wrap(n) <= n)
<1>1. PICK H \in Nat \ {0} : H = MaxInt64 + 1
  BY MaxInt64Assumption
<1>2. PICK N \in Nat \ {0} : N = 2 * H
  OBVIOUS
<1>3. PICK x \in Int : x = n + H
  OBVIOUS
<1>4. PICK q \in Int, r \in 0 .. N - 1 : x % N = r /\ x = N * q + r
  BY DivMod
<1>5. Wrap(n) = r - H
  BY <1>1, <1>2, <1>3, <1>4 DEF Wrap
<1>6. (n - Wrap(n)) % N = 0
  <2>1. PICK y \in Int : y = N * q
    OBVIOUS
  <2>2. n - Wrap(n) = N * q
    BY <1>3, <1>4, <1>5, <2>1
  <2> QED BY <2>2, MultipleMod
<1>7. ASSUME n \in Int64 PROVE Wrap(n) = n
  <2>1. x \in 0 .. N - 1 /\ x = N * 0 + x
    BY <1>1, <1>2, <1>3, <1>7, MaxInt64Assumption DEF Int64
  <2>2. x % N = x
    BY <2>1, ModUnique
  <2> QED BY <1>3, <1>4, <1>5, <2>2
<1>8. Wrap(n) \in Int /\ (n >= 0 => Wrap(n) <= n)
  <2>1. ASSUME n >= 0 PROVE r - H <= n
    <3>1. CASE q < 0
      <4>1. PICK y \in Int : y = N * q
        OBVIOUS
      <4>2. y <= -N
        BY <3>1, <4>1, NegativeMultiple
      <4> QED BY <1>1, <1>2, <1>3, <1>4, <2>1, <4>1, <4>2
    <3>2. CASE q >= 0
      <4>1. PICK y \in Int : y = N * q
        OBVIOUS
      <4>2. y >= 0
        BY <3>2, <4>1, NegativeMultiple
      <4> QED BY <1>1, <1>2, <1>3, <1>4, <2>1, <4>1, <4>2
    <3> QED BY <3>1, <3>2
  <2> QED BY <1>4, <1>5, <2>1
<1> QED BY <1>1, <1>2, <1>6, <1>7, <1>8

(* A product in int64 is the exact one, wrapped around.                    *)
LEMMA MulIsWrap == ASSUME NEW a \in Int, NEW b \in Int PROVE MulInt64(a, b) = Wrap(a * b)
<1>1. PICK m \in Int : m = a * b
  OBVIOUS
<1>2. m + MaxInt64 + 1 = m + (MaxInt64 + 1)
  BY MaxInt64Assumption
<1> QED BY <1>1, <1>2 DEF MulInt64, Wrap

PricingInv == rates \in Seq(Rates)

(* The total of a rate is the exact one, wrapped around.                   *)
LEMMA TotalIsWrap ==
  ASSUME NEW r \in Rates, NEW kg \in Int
  PROVE  /\ r.cents * kg + r.fuel \in Int
         /\ AddInt64(MulInt64(r.cents, kg), r.fuel) = Wrap(r.cents * kg + r.fuel)
         /\ Wrap(r.cents * kg + r.fuel) \in Int64
<1>1. r \in RateFields
  BY PricingAssumption
<1>2. PICK c \in Int, f \in Int64 : r.cents = c /\ r.fuel = f
  BY <1>1 DEF RateFields, Int64
<1>3. PICK m \in Int : m = c * kg
  OBVIOUS
<1>4. MulInt64(c, kg) = Wrap(m)
  BY <1>3, MulIsWrap
<1>5. Wrap(m) \in Int64 /\ Wrap(m + f) = AddInt64(Wrap(m), f)
  BY WrapAdd
<1>6. m + f \in Int /\ 0 \in Int64
  BY MaxInt64Assumption DEF Int64
<1>7. Wrap(m + f) \in Int64
  BY <1>6, WrapAdd
<1> QED BY <1>2, <1>3, <1>4, <1>5, <1>6, <1>7

(* The rate that comes first in an order is a newest one that applies.     *)
LEMMA FirstIsNewest ==
  ASSUME PricingInv, NEW I \in SUBSET (DOMAIN rates), I # {}, NEW p \in SetToSeqs(I),
         \A i, j \in DOMAIN p : i < j => ~Newer(rates[p[j]], rates[p[i]])
  PROVE  1 \in DOMAIN p /\ p[1] \in I /\ \A j \in I : rates[j].from <= rates[p[1]].from
<1>1. /\ Len(rates) \in Nat /\ DOMAIN rates = 1 .. Len(rates)
      /\ \A i \in DOMAIN rates : rates[i] \in Rates
  BY LenProperties, ElementOfSeq DEF PricingInv
<1>3. /\ Cardinality(I) \in Nat /\ DOMAIN p = 1 .. Cardinality(I)
      /\ \A i \in DOMAIN p : p[i] \in I
      /\ \A x \in I : \E i \in DOMAIN p : p[i] = x
  BY OrderHoldsAll DEF PricingInv
<1>4. 1 \in DOMAIN p /\ p[1] \in I
  BY <1>3
<1>5. ASSUME NEW j \in I PROVE rates[j].from <= rates[p[1]].from
  <2>1. PICK k \in DOMAIN p : p[k] = j
    BY <1>3
  <2>2. rates[j] \in RateFields /\ rates[p[1]] \in RateFields
    BY <1>1, <1>4, PricingAssumption
  <2>3. rates[j].from \in Int /\ rates[p[1]].from \in Int
    BY <2>2 DEF RateFields
  <2>4. CASE k = 1
    BY <2>1, <2>3, <2>4
  <2>5. CASE 1 < k
    BY <1>4, <2>1, <2>3, <2>5 DEF Newer
  <2> QED BY <1>3, <2>4, <2>5
<1> QED BY <1>4, <1>5

(* There is an order, and so a quote or a refusal.                         *)
LEMMA QuoteAnswers == ASSUME PricingInv, NEW kg, NEW at PROVE Quote(kg, at) # {}
<1> DEFINE I == {i \in DOMAIN rates : Applies(rates[i], kg, at)}
<1>1. CASE kg <= 0 \/ I = {}
  BY <1>1 DEF Quote
<1>2. CASE ~(kg <= 0) /\ I # {}
  <2> DEFINE key == [i \in I |-> 0 - rates[i].from]
  <2>1. /\ Len(rates) \in Nat /\ DOMAIN rates = 1 .. Len(rates)
        /\ \A i \in DOMAIN rates : rates[i] \in Rates
    BY LenProperties, ElementOfSeq DEF PricingInv
  <2>2. \A i \in DOMAIN rates : rates[i].from \in Int
    BY <2>1, PricingAssumption DEF RateFields
  <2>3. IsFiniteSet(I)
    <3>1. IsFiniteSet(1 .. Len(rates)) /\ I \subseteq 1 .. Len(rates)
      BY <2>1, FS_Interval
    <3> QED BY <3>1, FS_Subset
  <2>4. \A i \in I : i \in DOMAIN rates /\ key[i] = 0 - rates[i].from /\ key[i] \in Int
    BY <2>2
  <2> HIDE DEF I, key
  <2>5. PICK p \in SetToSeqs(I) : \A i, j \in DOMAIN p : i < j => key[p[i]] <= key[p[j]]
    BY <2>3, <2>4, SortedExists
  <2>6. \A i \in DOMAIN p : p[i] \in I
    BY <2>3, SeqsOnto
  <2>7. ASSUME NEW i \in DOMAIN p, NEW j \in DOMAIN p, i < j PROVE ~Newer(rates[p[j]], rates[p[i]])
    <3>1. PICK a \in Int, b \in Int : a = rates[p[i]].from /\ b = rates[p[j]].from /\ 0 - a <= 0 - b
      BY <2>2, <2>4, <2>5, <2>6, <2>7
    <3> QED BY <3>1 DEF Newer
  <2>8. Permuted(rates, p) \in SortSlice(rates, I, Newer)
    BY <2>7 DEF SortSlice
  <2> QED BY <1>2, <2>8 DEF Quote, I
<1> QED BY <1>1, <1>2

(* The prices of pricing.Table, for every set of rates.                    *)
THEOREM QuotesAreExact == PricingSpec => []QuoteIsExact
<1>1. PricingInit => PricingInv
  BY EmptySeq DEF PricingInit, PricingInv
<1>2. PricingInv /\ [PricingNext]_pricingVars => PricingInv'
  BY AppendProperties DEF PricingInv, PricingNext, AddRate, pricingVars
<1>3. PricingInv => QuoteIsExact
  <2> SUFFICES ASSUME PricingInv, NEW kg \in QuoteKg, NEW at \in QuoteTimes
               PROVE  LET inForce == {rates[i] : i \in {j \in DOMAIN rates : Applies(rates[j], kg, at)}}
                          newest  == {r \in inForce : \A s \in inForce : s.from <= r.from}
                          exact(r) == r.cents * kg + r.fuel
                      IN  \A q \in Quote(kg, at) :
                            IF q = NoQuote
                            THEN newest = {} \/ kg <= 0 \/ \E r \in newest : exact(r) \notin 0 .. MaxInt64
                            ELSE /\ q.rate \in newest
                                 /\ q.total \in 0 .. MaxInt64
                                 /\ (exact(q.rate) - q.total) % (2 * (MaxInt64 + 1)) = 0
    BY DEF QuoteIsExact
  <2> DEFINE I == {j \in DOMAIN rates : Applies(rates[j], kg, at)}
             inForce == {rates[i] : i \in I}
             newest  == {r \in inForce : \A s \in inForce : s.from <= r.from}
             exact(r) == r.cents * kg + r.fuel
  <2> SUFFICES ASSUME NEW q \in Quote(kg, at)
               PROVE  IF q = NoQuote
                      THEN newest = {} \/ kg <= 0 \/ \E r \in newest : exact(r) \notin 0 .. MaxInt64
                      ELSE /\ q.rate \in newest
                           /\ q.total \in 0 .. MaxInt64
                           /\ (exact(q.rate) - q.total) % (2 * (MaxInt64 + 1)) = 0
    OBVIOUS
  <2>1. kg \in Int /\ at \in Int
    BY PricingAssumption
  <2>2. CASE kg <= 0 \/ I = {}
    <3>1. q = NoQuote
      BY <2>2 DEF Quote
    <3>2. I = {} => newest = {}
      OBVIOUS
    <3> QED BY <2>2, <3>1, <3>2
  <2>3. CASE ~(kg <= 0) /\ I # {}
    <3>1. PICK p \in SetToSeqs(I) :
            /\ q = QuoteOf(Permuted(rates, p)[1], kg)
            /\ \A i, j \in DOMAIN p : i < j => ~Newer(rates[p[j]], rates[p[i]])
      BY <2>3 DEF Quote, SortSlice
    <3>2. /\ 1 \in DOMAIN p /\ p[1] \in I /\ Permuted(rates, p)[1] = rates[p[1]]
          /\ \A j \in I : rates[j].from <= rates[p[1]].from
      BY <2>3, <3>1, FirstIsNewest DEF Permuted
    <3>3. PICK r \in Rates : r = rates[p[1]] /\ r \in newest
      <4>1. rates[p[1]] \in Rates
        BY <3>2, ElementOfSeq, LenProperties DEF PricingInv
      <4> QED BY <3>2, <4>1
    <3> HIDE DEF I, inForce, newest
    <3>4. /\ exact(r) \in Int /\ Wrap(exact(r)) \in Int64
          /\ AddInt64(MulInt64(r.cents, kg), r.fuel) = Wrap(exact(r))
      BY <2>1, TotalIsWrap
    <3>5. /\ exact(r) \in Int64 => Wrap(exact(r)) = exact(r)
          /\ (exact(r) - Wrap(exact(r))) % (2 * (MaxInt64 + 1)) = 0
      BY <3>4, WrapFits
    <3> HIDE DEF exact
    <3>6. q = IF Wrap(exact(r)) < 0 THEN NoQuote ELSE [total |-> Wrap(exact(r)), rate |-> r]
      BY <3>1, <3>2, <3>3, <3>4 DEF QuoteOf
    <3>7. CASE Wrap(exact(r)) < 0
      <4>1. q = NoQuote
        BY <3>6, <3>7
      <4>2. exact(r) \notin 0 .. MaxInt64
        BY <3>4, <3>5, <3>7, MaxInt64Assumption DEF Int64
      <4> QED BY <3>3, <4>1, <4>2
    <3>8. CASE ~(Wrap(exact(r)) < 0)
      <4>1. Wrap(exact(r)) \in 0 .. MaxInt64
        BY <3>4, <3>8, MaxInt64Assumption DEF Int64
      <4>2. q = [total |-> Wrap(exact(r)), rate |-> r] /\ q # NoQuote
        BY <3>6, <3>8, <4>1, PricingAssumption
      <4>3. q.rate = r /\ q.total = Wrap(exact(r))
        BY <4>2
      <4> QED BY <3>3, <3>5, <4>1, <4>2, <4>3
    <3> QED BY <3>7, <3>8
  <2> QED BY <2>2, <2>3
<1> QED BY <1>1, <1>2, <1>3, PTL DEF PricingSpec

-----------------------------------------------------------------------------
(* RoutePlanner.  A segment is added between hubs that are known, so the   *)
(* handling time that Connects looks up is a number, and not negative.     *)
RouteInv ==
  /\ segments \in Seq(Segments)
  /\ hubs \in [HubCodes -> Int \cup {NoHub}]
  /\ \A h \in HubCodes : hubs[h] # NoHub => hubs[h] \in Nat
  /\ \A i \in DOMAIN segments : hubs[segments[i].to] \in Nat

LEMMA RouteStep == RouteInv /\ [RouteNext]_routeVars => RouteInv'
<1> SUFFICES ASSUME RouteInv, [RouteNext]_routeVars PROVE RouteInv'
  OBVIOUS
<1>1. ASSUME NEW code \in HubCodes, NEW minutes \in Handling, AddHub(code, minutes) PROVE RouteInv'
  <2>1. minutes \in Nat
    BY <1>1, RouteAssumption DEF AddHub
  <2>2. /\ segments' = segments /\ segments \in Seq(Segments)
        /\ hubs' = [hubs EXCEPT ![code] = minutes] /\ hubs[code] = NoHub
        /\ hubs \in [HubCodes -> Int \cup {NoHub}]
    BY <1>1 DEF RouteInv, AddHub
  <2>3. \A i \in DOMAIN segments : segments[i].to \in HubCodes
    <3>1. \A i \in DOMAIN segments : segments[i] \in Segments
      BY ElementOfSeq DEF RouteInv
    <3> QED BY <3>1, RouteAssumption
  <2>4. \A h \in HubCodes : hubs'[h] = IF h = code THEN minutes ELSE hubs[h]
    BY <2>2
  <2>5. hubs' \in [HubCodes -> Int \cup {NoHub}]
    BY <2>1, <2>2
  <2> QED BY <2>1, <2>2, <2>3, <2>4, <2>5 DEF RouteInv
<1>2. ASSUME NEW s \in Segments, AddSegment(s) PROVE RouteInv'
  <2>1. s.to \in HubCodes
    BY RouteAssumption
  <2>2. hubs[s.to] \in Nat
    BY <1>2, <2>1 DEF RouteInv, AddSegment
  <2>3. segments' = Append(segments, s) /\ hubs' = hubs /\ segments \in Seq(Segments)
    BY <1>2 DEF RouteInv, AddSegment
  <2>4. /\ segments' \in Seq(Segments)
        /\ \A i \in DOMAIN segments' : segments'[i] = s \/ (i \in DOMAIN segments /\ segments'[i] = segments[i])
    BY <2>3, AppendProperties, LenProperties
  <2> QED BY <2>2, <2>3, <2>4 DEF RouteInv
<1>3. CASE UNCHANGED routeVars
  BY <1>3 DEF RouteInv, routeVars
<1> QED BY <1>1, <1>2, <1>3 DEF RouteNext

(* A segment of the queue leads to the destination, by itself or by a      *)
(* connection.                                                             *)
Leads(s, to, weight) ==
  s.to = to \/ \E j \in DOMAIN segments : Connects(s, segments[j], to, weight)

(* The search takes the first segment of the queue that does.              *)
LEMMA SearchTakesFirst ==
  ASSUME RouteInv, NEW q \in Seq(Segments), NEW to, NEW weight
  PROVE  \/ /\ Search(q, to, weight) = NoRoute
            /\ \A i \in DOMAIN q : ~Leads(q[i], to, weight)
         \/ \E i \in DOMAIN q :
              /\ \A k \in DOMAIN q : k < i => ~Leads(q[k], to, weight)
              /\ \/ q[i].to = to /\ Search(q, to, weight) = <<q[i]>>
                 \/ \E j \in DOMAIN segments :
                      /\ Connects(q[i], segments[j], to, weight)
                      /\ Search(q, to, weight) = <<q[i], segments[j]>>
<1> DEFINE J(s) == {j \in 1 .. Len(segments) : Connects(s, segments[j], to, weight)}
           Onward(s) == IF J(s) # {} THEN Min(J(s)) ELSE 0
           I == {i \in 1 .. Len(q) : q[i].to = to \/ Onward(q[i]) # 0}
           first == IF I # {} THEN Min(I) ELSE 0
<1>1. /\ Len(segments) \in Nat /\ DOMAIN segments = 1 .. Len(segments)
      /\ Len(q) \in Nat /\ DOMAIN q = 1 .. Len(q)
  BY LenProperties DEF RouteInv
<1>2. Search(q, to, weight) =
        IF first = 0 THEN NoRoute
        ELSE IF q[first].to = to THEN <<q[first]>>
        ELSE <<q[first], segments[Onward(q[first])]>>
  BY DEF Search, SelectInSeq
<1>3. ASSUME NEW s
      PROVE  /\ Onward(s) # 0 <=> \E j \in DOMAIN segments : Connects(s, segments[j], to, weight)
             /\ Onward(s) # 0 => /\ Onward(s) \in DOMAIN segments
                                 /\ Connects(s, segments[Onward(s)], to, weight)
  <2>1. CASE J(s) = {}
    BY <1>1, <2>1
  <2>2. CASE J(s) # {}
    <3>1. J(s) \in SUBSET (1 .. Len(segments))
      OBVIOUS
    <3> HIDE DEF J
    <3>2. Min(J(s)) \in J(s)
      BY <1>1, <2>2, <3>1, MaxOfIndices
    <3> QED BY <1>1, <2>2, <3>2 DEF J
  <2> QED BY <2>1, <2>2
<1> HIDE DEF Onward
<1>4. \A i \in DOMAIN q : i \in I <=> Leads(q[i], to, weight)
  BY <1>1, <1>3 DEF Leads
<1>5. I \in SUBSET (1 .. Len(q))
  OBVIOUS
<1>6. CASE I = {}
  BY <1>1, <1>2, <1>4, <1>6
<1>7. CASE I # {}
  <2> HIDE DEF I
  <2>1. Min(I) \in I /\ \A i \in I : Min(I) <= i
    BY <1>1, <1>5, <1>7, MaxOfIndices
  <2>2. PICK i \in 1 .. Len(q) : i = Min(I) /\ i \in I /\ first = i
    BY <1>5, <1>7, <2>1
  <2>a. i \in DOMAIN q /\ first # 0
    BY <1>1, <2>2
  <2> HIDE DEF first
  <2>3. \A k \in DOMAIN q : k < i => ~Leads(q[k], to, weight)
    BY <1>1, <1>4, <2>1, <2>2
  <2>4. CASE q[i].to = to
    BY <1>2, <2>2, <2>3, <2>4, <2>a
  <2>5. CASE q[i].to # to
    <3>1. Onward(q[i]) # 0
      BY <1>1, <2>2, <2>5 DEF I
    <3>2. Onward(q[i]) \in DOMAIN segments /\ Connects(q[i], segments[Onward(q[i])], to, weight)
      BY <1>3, <3>1
    <3>3. Search(q, to, weight) = <<q[i], segments[Onward(q[i])]>>
      BY <1>2, <2>2, <2>5, <2>a
    <3> QED BY <2>3, <2>a, <3>2, <3>3
  <2> QED BY <2>4, <2>5
<1> QED BY <1>6, <1>7

(* There is an order of the queue, and so a route or a failure.            *)
LEMMA PlanAnswers ==
  ASSUME RouteInv, NEW from, NEW to, NEW weight, NEW earliest
  PROVE  Plan(from, to, weight, earliest) # {}
<1> DEFINE queue == {i \in DOMAIN segments : Starts(segments[i], from, weight, earliest)}
<1>0. CASE weight <= 0
  BY <1>0 DEF Plan
<1>1. CASE ~(weight <= 0) /\ queue = {}
  BY <1>1 DEF Plan
<1>2. CASE ~(weight <= 0) /\ queue # {}
  <2> DEFINE key == [i \in queue |-> segments[i].arrive]
  <2>1. /\ Len(segments) \in Nat /\ DOMAIN segments = 1 .. Len(segments)
        /\ \A i \in DOMAIN segments : segments[i] \in Segments
    BY LenProperties, ElementOfSeq DEF RouteInv
  <2>2. \A i \in DOMAIN segments : segments[i].arrive \in Int
    BY <2>1, RouteAssumption
  <2>3. IsFiniteSet(queue)
    <3>1. IsFiniteSet(1 .. Len(segments)) /\ queue \subseteq 1 .. Len(segments)
      BY <2>1, FS_Interval
    <3> QED BY <3>1, FS_Subset
  <2>4. \A i \in queue : i \in DOMAIN segments /\ key[i] = segments[i].arrive /\ key[i] \in Int
    BY <2>2
  <2> HIDE DEF queue, key
  <2>5. PICK p \in SetToSeqs(queue) : \A i, j \in DOMAIN p : i < j => key[p[i]] <= key[p[j]]
    BY <2>3, <2>4, SortedExists
  <2>6. \A i \in DOMAIN p : p[i] \in queue
    BY <2>3, SeqsOnto
  <2>7. ASSUME NEW i \in DOMAIN p, NEW j \in DOMAIN p, i < j
        PROVE  ~(segments[p[j]].arrive < segments[p[i]].arrive)
    <3>1. PICK a \in Int, b \in Int : a = segments[p[i]].arrive /\ b = segments[p[j]].arrive /\ a <= b
      BY <2>2, <2>4, <2>5, <2>6, <2>7
    <3> QED BY <3>1
  <2>8. Search(Permuted(segments, p), to, weight) \in Plan(from, to, weight, earliest)
    BY <1>2, <2>7 DEF Plan, SortSlice, queue
  <2> QED BY <2>8
<1> QED BY <1>0, <1>1, <1>2

(* The handling time that Connects takes is at most the exact one, and the *)
(* exact one if that fits a Duration.                                      *)
LEMMA HandlingWraps ==
  ASSUME NEW m \in Nat
  PROVE  /\ MulInt64(m, Minute) \in Int /\ m * Minute \in Int
         /\ MulInt64(m, Minute) <= m * Minute
         /\ m * Minute <= MaxInt64 => MulInt64(m, Minute) = m * Minute
<1>1. PICK n \in Nat : n = m * Minute
  BY RouteAssumption
<1>2. MulInt64(m, Minute) = Wrap(n)
  BY <1>1, MulIsWrap, RouteAssumption
<1>3. n <= MaxInt64 => n \in Int64
  BY MaxInt64Assumption DEF Int64
<1> QED BY <1>1, <1>2, <1>3, WrapFits

(* route.Planner finds a route if there is one, and then one whose first   *)
(* segment arrives no later than that of any other, for every set of       *)
(* segments, every weight and every handling time; a connection it returns *)
(* leaves the time for handling unless that is too long for a Duration.    *)
THEOREM PlansAreGreedy == RouteSpec => []PlanIsGreedy
<1>1. RouteInit => RouteInv
  BY EmptySeq DEF RouteInit, RouteInv
<1>2. RouteInv => PlanIsGreedy
  <2> SUFFICES ASSUME RouteInv, NEW from \in HubCodes, NEW to \in HubCodes, NEW weight \in Weights,
                      NEW earliest \in {s.depart : s \in Segments}
               PROVE  LET legs     == {segments[i] : i \in DOMAIN segments}
                          firsts   == {s \in legs : s.from = from /\ s.kg >= weight /\ s.depart >= earliest}
                          onward   == {s \in legs : s.to = to /\ s.kg >= weight}
                          direct   == {<<s>> : s \in firsts \cap onward}
                          via      == {r \in firsts \X onward : r[1].to = r[2].from}
                          feasible == direct \cup
                            {r \in via : r[2].depart - r[1].arrive > hubs[r[1].to] * Minute}
                          wrapping == {r \in via : hubs[r[1].to] * Minute > MaxInt64}
                      IN  IF weight <= 0 THEN Plan(from, to, weight, earliest) = {Invalid}
                          ELSE \A r \in Plan(from, to, weight, earliest) \ {Cancelled} :
                                 IF r = NoRoute THEN feasible = {}
                                 ELSE /\ r \in feasible \cup wrapping
                                      /\ \A f \in feasible : r[1].arrive <= f[1].arrive
    BY DEF PlanIsGreedy
  <2> DEFINE legs     == {segments[i] : i \in DOMAIN segments}
             firsts   == {s \in legs : s.from = from /\ s.kg >= weight /\ s.depart >= earliest}
             onward   == {s \in legs : s.to = to /\ s.kg >= weight}
             direct   == {<<s>> : s \in firsts \cap onward}
             via      == {r \in firsts \X onward : r[1].to = r[2].from}
             feasible == direct \cup
               {r \in via : r[2].depart - r[1].arrive > hubs[r[1].to] * Minute}
             wrapping == {r \in via : hubs[r[1].to] * Minute > MaxInt64}
             queue == {i \in DOMAIN segments : Starts(segments[i], from, weight, earliest)}
  <2>0. weight <= 0 => Plan(from, to, weight, earliest) = {Invalid}
    BY DEF Plan
  <2> SUFFICES ASSUME ~(weight <= 0), NEW r \in Plan(from, to, weight, earliest) \ {Cancelled}
               PROVE  IF r = NoRoute THEN feasible = {}
                      ELSE /\ r \in feasible \cup wrapping
                           /\ \A f \in feasible : r[1].arrive <= f[1].arrive
    BY <2>0
  <2>1. /\ Len(segments) \in Nat /\ DOMAIN segments = 1 .. Len(segments)
        /\ \A i \in DOMAIN segments : segments[i] \in Segments
    BY LenProperties, ElementOfSeq DEF RouteInv
  <2>2. \A s \in Segments : /\ s.depart \in Int /\ s.arrive \in Int /\ s.kg \in Int
                            /\ s.from \in HubCodes /\ s.to \in HubCodes
    BY RouteAssumption
  <2>3. \A s \in legs : s \in Segments /\ hubs[s.to] \in Nat
    BY <2>1 DEF RouteInv
  <2>4. firsts = {segments[i] : i \in queue}
    BY DEF Starts
  <2>5. \A f \in feasible : f[1] \in firsts /\ Leads(f[1], to, weight)
    <3> SUFFICES ASSUME NEW f \in feasible PROVE f[1] \in firsts /\ Leads(f[1], to, weight)
      OBVIOUS
    <3>1. CASE f \in direct
      BY <3>1 DEF Leads
    <3>2. CASE f \in {x \in via : x[2].depart - x[1].arrive > hubs[x[1].to] * Minute}
      <4>1. PICK a \in firsts, b \in onward :
              f = <<a, b>> /\ a.to = b.from /\ b.depart - a.arrive > hubs[a.to] * Minute
        BY <3>2
      <4>2. a \in legs /\ b \in legs /\ b.to = to /\ b.kg >= weight
        BY <4>1
      <4>3. b.depart > a.arrive + MulInt64(hubs[a.to], Minute)
        <5>1. PICK m \in Int, e \in Int :
                m = MulInt64(hubs[a.to], Minute) /\ e = hubs[a.to] * Minute /\ m <= e
          BY <2>3, <4>2, HandlingWraps
        <5> QED BY <2>2, <2>3, <4>1, <4>2, <5>1
      <4>4. PICK j \in DOMAIN segments : b = segments[j]
        BY <4>2
      <4>5. Connects(a, segments[j], to, weight)
        BY <4>1, <4>2, <4>3, <4>4 DEF Connects
      <4> QED BY <4>1, <4>5 DEF Leads
    <3> QED BY <3>1, <3>2
  <2>6. CASE queue = {}
    <3>1. r = NoRoute
      BY <2>6 DEF Plan
    <3>2. feasible = {}
      BY <2>4, <2>5, <2>6
    <3> QED BY <3>1, <3>2
  <2>7. CASE queue # {}
    <3>1. PICK p \in SetToSeqs(queue) :
            /\ r = Search(Permuted(segments, p), to, weight)
            /\ \A i, j \in DOMAIN p : i < j => ~(segments[p[j]].arrive < segments[p[i]].arrive)
      BY <2>7 DEF Plan, SortSlice
    <3>2. queue \in SUBSET (DOMAIN segments) /\ segments \in Seq(Segments)
      BY DEF RouteInv
    <3> DEFINE q == Permuted(segments, p)
    <3> HIDE DEF queue
    <3>3. /\ Cardinality(queue) \in Nat /\ DOMAIN p = 1 .. Cardinality(queue)
          /\ q \in Seq(Segments) /\ DOMAIN q = DOMAIN p
          /\ \A i \in DOMAIN p : p[i] \in queue /\ q[i] = segments[p[i]]
          /\ \A x \in queue : \E i \in DOMAIN p : p[i] = x
      BY <3>1, <3>2, OrderHoldsAll
    <3> HIDE DEF q
    <3>4. \A i \in DOMAIN p : q[i] \in firsts /\ q[i] \in Segments
      BY <2>1, <2>4, <3>3
    <3>6. \A s \in firsts : \E m \in DOMAIN p : q[m] = s
      BY <2>4, <3>3
    <3>7. \A i, j \in DOMAIN p : i < j => q[i].arrive <= q[j].arrive
      <4> SUFFICES ASSUME NEW i \in DOMAIN p, NEW j \in DOMAIN p, i < j
                   PROVE  q[i].arrive <= q[j].arrive
        OBVIOUS
      <4>1. ~(q[j].arrive < q[i].arrive)
        BY <3>1, <3>3
      <4>2. q[i].arrive \in Int /\ q[j].arrive \in Int
        BY <2>2, <3>4
      <4> QED BY <4>1, <4>2
    <3>8. CASE /\ r = NoRoute
               /\ \A i \in DOMAIN q : ~Leads(q[i], to, weight)
      <4>1. feasible = {}
        BY <2>5, <3>3, <3>4, <3>6, <3>8
      <4> QED BY <3>8, <4>1
    <3>9. ASSUME NEW i \in DOMAIN q, \A k \in DOMAIN q : k < i => ~Leads(q[k], to, weight),
                 r \in feasible \cup wrapping, r[1] = q[i], r # NoRoute
          PROVE  r \in feasible \cup wrapping /\ \A f \in feasible : r[1].arrive <= f[1].arrive
      <4> SUFFICES ASSUME NEW f \in feasible PROVE r[1].arrive <= f[1].arrive
        BY <3>9
      <4>1. f[1] \in firsts /\ Leads(f[1], to, weight)
        BY <2>5
      <4>2. PICK m \in DOMAIN p : q[m] = f[1]
        BY <3>6, <4>1
      <4>3. ~(m < i) /\ i \in DOMAIN p
        BY <3>3, <3>4, <3>9, <4>1, <4>2
      <4>4. CASE m = i
        BY <2>2, <3>3, <3>4, <3>9, <4>2, <4>3, <4>4
      <4>5. CASE i < m
        BY <3>7, <3>9, <4>2, <4>3, <4>5
      <4> QED BY <3>3, <4>3, <4>4, <4>5
    <3>10. ASSUME NEW i \in DOMAIN q, q[i].to = to, r = <<q[i]>>
           PROVE  r \in feasible \cup wrapping /\ r[1] = q[i] /\ r # NoRoute
      <4>1. q[i] \in firsts \cap onward /\ q[i] \in Segments
        BY <3>3, <3>4, <3>10
      <4> QED BY <3>10, <4>1, RouteAssumption
    <3>11. ASSUME NEW i \in DOMAIN q, NEW j \in DOMAIN segments,
                  Connects(q[i], segments[j], to, weight), r = <<q[i], segments[j]>>
           PROVE  r \in feasible \cup wrapping /\ r[1] = q[i] /\ r # NoRoute
      <4>1. q[i] \in firsts /\ q[i] \in Segments /\ q[i] \in legs
        BY <3>3, <3>4
      <4>2. segments[j] \in legs /\ segments[j] \in Segments
        BY <2>1
      <4>3. /\ segments[j].from = q[i].to /\ segments[j] \in onward
            /\ segments[j].depart > q[i].arrive + MulInt64(hubs[q[i].to], Minute)
        BY <3>11, <4>2 DEF Connects
      <4>4. PICK m \in Int, e \in Int :
              /\ m = MulInt64(hubs[q[i].to], Minute) /\ e = hubs[q[i].to] * Minute
              /\ e <= MaxInt64 => m = e
        BY <2>3, <4>1, HandlingWraps
      <4>5. r \in via /\ r[1] = q[i] /\ r[2] = segments[j]
        BY <3>11, <4>1, <4>3
      <4>6. r \in Segments \X Segments
        BY <3>11, <4>1, <4>2
      <4>7. CASE e <= MaxInt64
        <5>1. segments[j].depart - q[i].arrive > hubs[q[i].to] * Minute
          BY <2>2, <4>1, <4>2, <4>3, <4>4, <4>7
        <5> QED BY <4>5, <4>6, <5>1, RouteAssumption
      <4>8. CASE e > MaxInt64
        BY <4>4, <4>5, <4>6, <4>8, RouteAssumption
      <4> QED BY <4>4, <4>7, <4>8, MaxInt64Assumption
    <3> HIDE DEF feasible, wrapping, via, direct, firsts, onward, legs
    <3>12. \/ /\ r = NoRoute
              /\ \A i \in DOMAIN q : ~Leads(q[i], to, weight)
           \/ \E i \in DOMAIN q :
                /\ \A k \in DOMAIN q : k < i => ~Leads(q[k], to, weight)
                /\ \/ q[i].to = to /\ r = <<q[i]>>
                   \/ \E j \in DOMAIN segments :
                        /\ Connects(q[i], segments[j], to, weight)
                        /\ r = <<q[i], segments[j]>>
      <4>1. r = Search(q, to, weight)
        BY <3>1 DEF q
      <4> QED BY <3>3, <4>1, SearchTakesFirst
    <3>13. CASE \E i \in DOMAIN q :
                  /\ \A k \in DOMAIN q : k < i => ~Leads(q[k], to, weight)
                  /\ \/ q[i].to = to /\ r = <<q[i]>>
                     \/ \E j \in DOMAIN segments :
                          /\ Connects(q[i], segments[j], to, weight)
                          /\ r = <<q[i], segments[j]>>
      <4>1. PICK i \in DOMAIN q :
                  /\ \A k \in DOMAIN q : k < i => ~Leads(q[k], to, weight)
                  /\ \/ q[i].to = to /\ r = <<q[i]>>
                     \/ \E j \in DOMAIN segments :
                          /\ Connects(q[i], segments[j], to, weight)
                          /\ r = <<q[i], segments[j]>>
        BY <3>13
      <4>2. r \in feasible \cup wrapping /\ r[1] = q[i] /\ r # NoRoute
        BY <3>10, <3>11, <4>1
      <4> QED BY <3>9, <4>1, <4>2
    <3> QED BY <3>8, <3>12, <3>13
  <2> QED BY <2>6, <2>7
<1> QED BY <1>1, <1>2, RouteStep, PTL DEF RouteSpec

-----------------------------------------------------------------------------
(* Reconciliation.  The map made of a list holds the last entry of every   *)
(* identifier, and the differences are those of the two maps.              *)
CompareInv == local \in Seq(Entry) /\ remote \in Seq(Entry)

LastEntries(list) ==
  {list[i] : i \in {j \in DOMAIN list :
     \A k \in DOMAIN list : list[k].key = list[j].key => k <= j}}

LEMMA ByKeyIsLast ==
  ASSUME NEW list \in Seq(Entry)
  PROVE  /\ DOMAIN ByKey(list) \subseteq Int /\ IsFiniteSet(DOMAIN ByKey(list))
         /\ \A k \in DOMAIN ByKey(list) : ByKey(list)[k] \in Entry /\ ByKey(list)[k].key = k
         /\ LastEntries(list) = Range(ByKey(list))
<1> DEFINE K == {e.key : e \in Range(list)}
           I(k) == {i \in 1 .. Len(list) : list[i].key = k}
<1>1. /\ Len(list) \in Nat /\ DOMAIN list = 1 .. Len(list)
      /\ \A i \in DOMAIN list : list[i] \in Entry
  BY LenProperties, ElementOfSeq
<1>2. DOMAIN ByKey(list) = K
  BY DEF ByKey
<1>3. \A e \in Entry : e.key \in Int
  BY CompareAssumption DEF Entry
<1>4. \A k \in K : \E i \in DOMAIN list : list[i].key = k
  BY DEF Range
<1>5. \A i \in DOMAIN list : list[i].key \in K
  BY DEF Range
<1>6. K \subseteq Int
  BY <1>1, <1>3, <1>4
<1>7. IsFiniteSet(K)
  <2> DEFINE f == [i \in 1 .. Len(list) |-> list[i].key]
  <2>1. \A i \in 1 .. Len(list) : f[i] \in K
    BY <1>1, <1>5
  <2>2. \A k \in K : \E i \in 1 .. Len(list) : f[i] = k
    BY <1>1, <1>4
  <2>3. f \in [1 .. Len(list) -> K]
    BY <2>1
  <2>4. f \in Surjection(1 .. Len(list), K)
    <3> HIDE DEF f
    <3> QED BY <2>2, <2>3 DEF Surjection
  <2>5. IsFiniteSet(1 .. Len(list))
    BY <1>1, FS_Interval
  <2> QED BY <2>4, <2>5, FS_Surjection
<1>8. ASSUME NEW k \in K
      PROVE  \E m \in DOMAIN list : /\ ByKey(list)[k] = list[m] /\ list[m].key = k
                                    /\ \A i \in DOMAIN list : list[i].key = k => i <= m
  <2>1. I(k) # {} /\ I(k) \in SUBSET (1 .. Len(list))
    BY <1>1, <1>4
  <2>2. ByKey(list)[k] = list[IF I(k) # {} THEN Max(I(k)) ELSE 0]
    BY DEF ByKey, SelectLastInSeq
  <2> HIDE DEF I
  <2>3. Max(I(k)) \in I(k) /\ \A i \in I(k) : i <= Max(I(k))
    BY <1>1, <2>1, MaxOfIndices
  <2>4. PICK m \in I(k) : m = Max(I(k)) /\ ByKey(list)[k] = list[m]
    BY <2>1, <2>2, <2>3
  <2>5. m \in DOMAIN list /\ list[m].key = k
    BY <1>1, <2>4 DEF I
  <2>6. \A i \in DOMAIN list : list[i].key = k => i <= m
    BY <1>1, <2>3, <2>4 DEF I
  <2> QED BY <2>4, <2>5, <2>6
<1> HIDE DEF K
<1>9. \A k \in K : ByKey(list)[k] \in Entry /\ ByKey(list)[k].key = k
  BY <1>1, <1>8
<1>10. \A k \in K : ByKey(list)[k] \in LastEntries(list)
  BY <1>8 DEF LastEntries
<1>11. ASSUME NEW e \in LastEntries(list) PROVE \E k \in K : e = ByKey(list)[k]
  <2>1. PICK j \in DOMAIN list : e = list[j] /\ \A k \in DOMAIN list : list[k].key = list[j].key => k <= j
    BY DEF LastEntries
  <2>2. PICK m \in DOMAIN list :
          /\ ByKey(list)[e.key] = list[m] /\ list[m].key = e.key
          /\ \A i \in DOMAIN list : list[i].key = e.key => i <= m
    BY <1>5, <1>8, <2>1
  <2>3. m <= j /\ j <= m
    BY <2>1, <2>2
  <2>4. m = j
    BY <1>1, <2>3
  <2> QED BY <1>5, <2>1, <2>2, <2>4
<1>12. LastEntries(list) = Range(ByKey(list))
  BY <1>2, <1>10, <1>11 DEF Range
<1> QED BY <1>2, <1>6, <1>7, <1>9, <1>12

(* Two maps of entries: what their differences hold.                       *)
Differing(l, r) == {k \in DOMAIN l \cup DOMAIN r : Differs(k, l, r)}

Differences(l, r) == {Difference(k, l, r) : k \in Differing(l, r)}

LEMMA DifferencesOf ==
  ASSUME NEW l, NEW r,
         \A k \in DOMAIN l : l[k] \in Entry /\ l[k].key = k,
         \A k \in DOMAIN r : r[k] \in Entry /\ r[k].key = k
  PROVE  /\ {d.local : d \in Differences(l, r)} \ {NoEntry} = Range(l) \ Range(r)
         /\ {d.remote : d \in Differences(l, r)} \ {NoEntry} = Range(r) \ Range(l)
         /\ Differing(l, r) = {} <=> Range(l) = Range(r)
<1> DEFINE D == {k \in DOMAIN l \cup DOMAIN r : Differs(k, l, r)}
           diffs == {Difference(k, l, r) : k \in D}
           left  == {l[k] : k \in DOMAIN l}
           right == {r[k] : k \in DOMAIN r}
           a(k) == IF k \in DOMAIN l THEN l[k] ELSE NoEntry
           b(k) == IF k \in DOMAIN r THEN r[k] ELSE NoEntry
<1>1. \A k \in D : Difference(k, l, r).local = a(k) /\ Difference(k, l, r).remote = b(k)
  BY DEF Difference
<1>2. NoEntry \notin Entry
  BY CompareAssumption
<1>3. \A e, f \in Entry : e.key = f.key /\ e.value = f.value => e = f
  BY DEF Entry
<1>4. ASSUME NEW k \in DOMAIN l PROVE l[k] \in right <=> k \notin D
  <2>1. CASE k \in DOMAIN r
    <3>1. k \in D <=> l[k].value # r[k].value
      BY <2>1 DEF Differs
    <3>2. l[k] \in right <=> l[k] = r[k]
      BY <2>1
    <3>3. l[k] = r[k] <=> l[k].value = r[k].value
      BY <1>3, <2>1
    <3> QED BY <3>1, <3>2, <3>3
  <2>2. CASE k \notin DOMAIN r
    <3>1. k \in D
      BY <2>2 DEF Differs
    <3>2. l[k] \notin right
      BY <2>2
    <3> QED BY <3>1, <3>2
  <2> QED BY <2>1, <2>2
<1>5. ASSUME NEW k \in DOMAIN r PROVE r[k] \in left <=> k \notin D
  <2>1. CASE k \in DOMAIN l
    <3>1. k \in D <=> l[k].value # r[k].value
      BY <2>1 DEF Differs
    <3>2. r[k] \in left <=> l[k] = r[k]
      BY <2>1
    <3>3. l[k] = r[k] <=> l[k].value = r[k].value
      BY <1>3, <2>1
    <3> QED BY <3>1, <3>2, <3>3
  <2>2. CASE k \notin DOMAIN l
    <3>1. k \in D
      BY <2>2 DEF Differs
    <3>2. r[k] \notin left
      BY <2>2
    <3> QED BY <3>1, <3>2
  <2> QED BY <2>1, <2>2
<1>6. {d.local : d \in diffs} = {a(k) : k \in D} /\ {d.remote : d \in diffs} = {b(k) : k \in D}
  BY <1>1
<1>7. {a(k) : k \in D} \ {NoEntry} = left \ right
  BY <1>2, <1>4
<1>8. {b(k) : k \in D} \ {NoEntry} = right \ left
  BY <1>2, <1>5
<1>9. D = {} <=> left = right
  <2>1. D \subseteq DOMAIN l \cup DOMAIN r
    OBVIOUS
  <2>2. ASSUME D = {} PROVE left = right
    BY <1>4, <1>5, <2>2
  <2>3. ASSUME left = right PROVE D = {}
    BY <1>4, <1>5, <2>1, <2>3
  <2> QED BY <2>2, <2>3
<1> HIDE DEF left, right, diffs, a, b
<1>10. /\ {d.local : d \in diffs} \ {NoEntry} = left \ right
       /\ {d.remote : d \in diffs} \ {NoEntry} = right \ left
       /\ D = {} <=> left = right
  BY <1>6, <1>7, <1>8, <1>9
<1> QED BY <1>10 DEF left, right, diffs, Differences, Differing, Range

(* reconciliation.Compare reports what differs and all that differs, for   *)
(* lists of any length.                                                    *)
THEOREM ComparesAreComplete == CompareSpec => []CompareIsComplete
<1>1. CompareInit => CompareInv
  BY EmptySeq DEF CompareInit, CompareInv
<1>2. CompareInv /\ [CompareNext]_compareVars => CompareInv'
  BY AppendProperties DEF CompareInv, CompareNext, AppendLocal, AppendRemote, compareVars
<1>3. CompareInv => CompareIsComplete
  <2> SUFFICES ASSUME CompareInv PROVE CompareIsComplete
    OBVIOUS
  <2> DEFINE l == ByKey(local)
             r == ByKey(remote)
             D == Differing(l, r)
             keys == Ascending(D)
             diffs == Compare(local, remote)
             Distinct(list) == \A i, j \in DOMAIN list : i # j => list[i].key # list[j].key
  <2>1. /\ DOMAIN l \subseteq Int /\ IsFiniteSet(DOMAIN l)
        /\ \A k \in DOMAIN l : l[k] \in Entry /\ l[k].key = k
        /\ LastEntries(local) = Range(l)
        /\ DOMAIN r \subseteq Int /\ IsFiniteSet(DOMAIN r)
        /\ \A k \in DOMAIN r : r[k] \in Entry /\ r[k].key = k
        /\ LastEntries(remote) = Range(r)
    BY ByKeyIsLast DEF CompareInv
  <2>2. diffs = [i \in DOMAIN keys |-> Difference(keys[i], l, r)]
    BY DEF Compare, Differing
  <2> HIDE DEF l, r, diffs
  <2>3. /\ {d.local : d \in Differences(l, r)} \ {NoEntry} = LastEntries(local) \ LastEntries(remote)
        /\ {d.remote : d \in Differences(l, r)} \ {NoEntry} = LastEntries(remote) \ LastEntries(local)
        /\ D = {} <=> LastEntries(local) = LastEntries(remote)
    BY <2>1, DifferencesOf
  <2>4. D \in SUBSET Int /\ IsFiniteSet(D)
    <3>1. IsFiniteSet(DOMAIN l \cup DOMAIN r)
      BY <2>1, FS_Union
    <3>2. D \subseteq DOMAIN l \cup DOMAIN r
      BY DEF Differing
    <3> QED BY <2>1, <3>1, <3>2, FS_Subset
  <2> HIDE DEF D
  <2>5. /\ \A i, j \in DOMAIN keys : i < j => keys[i] < keys[j]
        /\ Cardinality(D) \in Nat /\ DOMAIN keys = 1 .. Cardinality(D)
        /\ \A i \in DOMAIN keys : keys[i] \in D
        /\ \A x \in D : \E i \in DOMAIN keys : keys[i] = x
    BY <2>4, AscendingIs
  <2> HIDE DEF keys
  <2>6. DOMAIN diffs = DOMAIN keys /\ \A i \in DOMAIN keys : diffs[i] = Difference(keys[i], l, r)
    BY <2>2
  <2>7. Range(diffs) = Differences(l, r)
    BY <2>5, <2>6 DEF Range, Differences, D
  <2>8. \A i, j \in DOMAIN diffs : i < j => diffs[i].key < diffs[j].key
    <3>1. \A i \in DOMAIN keys : diffs[i].key = keys[i]
      BY <2>6 DEF Difference
    <3> QED BY <2>5, <2>6, <3>1
  <2>9. diffs = <<>> <=> D = {}
    <3>1. ASSUME D = {} PROVE diffs = <<>>
      <4>1. DOMAIN keys = {}
        BY <2>5, <3>1
      <4>2. diffs = [i \in {} |-> Difference(keys[i], l, r)]
        BY <2>2, <4>1
      <4> QED BY <4>2
    <3>2. ASSUME diffs = <<>> PROVE D = {}
      <4>1. DOMAIN diffs = {}
        BY <3>2
      <4> QED BY <2>5, <2>6, <4>1
    <3> QED BY <3>1, <3>2
  <2>10. ASSUME NEW list \in Seq(Entry), Distinct(list) PROVE LastEntries(list) = Range(list)
    <3>1. Len(list) \in Nat /\ DOMAIN list = 1 .. Len(list)
      BY LenProperties
    <3>2. \A j, k \in DOMAIN list : list[k].key = list[j].key => k <= j
      BY <2>10, <3>1
    <3> QED BY <3>2 DEF LastEntries, Range
  <2>11. Distinct(local) /\ Distinct(remote) => (diffs = <<>> <=> Range(local) = Range(remote))
    BY <2>3, <2>9, <2>10 DEF CompareInv
  <2>12. /\ {d.local : d \in Range(diffs)} \ {NoEntry} = LastEntries(local) \ LastEntries(remote)
         /\ {d.remote : d \in Range(diffs)} \ {NoEntry} = LastEntries(remote) \ LastEntries(local)
    BY <2>3, <2>7
  <2> QED BY <2>8, <2>11, <2>12 DEF CompareIsComplete, LastEntries, diffs
<1> QED BY <1>1, <1>2, <1>3, PTL DEF CompareSpec

-----------------------------------------------------------------------------
(* Timeline.  The events are kept in the order of time, and an event that  *)
(* is appended finds its place after those that are not later: that is the *)
(* stable order, and there is one.                                         *)
InOrder(s) == \A i, j \in DOMAIN s : i < j => s[i].at <= s[j].at

TimelineInv ==
  /\ events \in Seq(Event)
  /\ InOrder(events)
  /\ happened = Range(events)

StableOrder(s, p) ==
  \A i, j \in DOMAIN p : i < j => \/ s[p[i]].at < s[p[j]].at
                                  \/ ~(s[p[j]].at < s[p[i]].at) /\ p[i] < p[j]

LEMMA StableOrderExists ==
  ASSUME NEW s \in Seq(Event), InOrder(s), NEW e \in Event
  PROVE  \E p \in SetToSeqs(DOMAIN Append(s, e)) : StableOrder(Append(s, e), p)
<1>1. PICK n \in Nat : n = Len(s) /\ DOMAIN s = 1 .. n
  BY LenProperties
<1>2. \A x \in Event : x.at \in Int
  BY TimelineAssumption DEF Event
<1>3. \A i \in 1 .. n : s[i] \in Event
  BY <1>1, ElementOfSeq
<1> DEFINE t == Append(s, e)
<1>4. DOMAIN t = 1 .. n + 1 /\ t[n + 1] = e /\ \A i \in 1 .. n : t[i] = s[i]
  BY <1>1, AppendProperties, LenProperties
<1> HIDE DEF t
<1>5. \E k \in 0 .. n : \A i \in 1 .. n : (i <= k => s[i].at <= e.at) /\ (s[i].at <= e.at => i <= k)
  <2> DEFINE K == {i \in 1 .. n : s[i].at <= e.at}
  <2>1. CASE K = {}
    <3>1. \A i \in 1 .. n : ~(i <= 0) /\ ~(s[i].at <= e.at)
      BY <2>1
    <3>2. 0 \in 0 .. n
      OBVIOUS
    <3> QED BY <3>1, <3>2
  <2>2. CASE K # {}
    <3>1. K \in SUBSET (1 .. n)
      OBVIOUS
    <3> HIDE DEF K
    <3>2. PICK k \in K : \A i \in K : i <= k
      BY <2>2, <3>1, MaxOfIndices
    <3>3. k \in 1 .. n /\ s[k].at <= e.at
      BY <3>2 DEF K
    <3>4. ASSUME NEW i \in 1 .. n PROVE (i <= k => s[i].at <= e.at) /\ (s[i].at <= e.at => i <= k)
      <4>1. s[i].at \in Int /\ s[k].at \in Int /\ e.at \in Int
        BY <1>2, <1>3, <3>3
      <4>2. ASSUME i <= k PROVE s[i].at <= s[k].at
        BY <1>1, <3>3, <4>1, <4>2 DEF InOrder
      <4>3. ASSUME s[i].at <= e.at PROVE i <= k
        BY <3>2, <4>3 DEF K
      <4> QED BY <3>3, <4>1, <4>2, <4>3
    <3>5. k \in 0 .. n
      BY <3>3
    <3> QED BY <3>4, <3>5
  <2> QED BY <2>1, <2>2
<1>6. PICK k \in 0 .. n : \A i \in 1 .. n : (i <= k => s[i].at <= e.at) /\ (s[i].at <= e.at => i <= k)
  BY <1>5
<1> DEFINE key == [i \in 1 .. n + 1 |-> IF i = n + 1 THEN 2 * k + 1 ELSE 2 * i]
<1>7. /\ \A i \in 1 .. n + 1 : key[i] \in Int
      /\ \A i \in 1 .. n : key[i] = 2 * i
      /\ key[n + 1] = 2 * k + 1
  OBVIOUS
<1> HIDE DEF key
<1>8. IsFiniteSet(1 .. n + 1)
  BY FS_Interval
<1>9. PICK p \in SetToSeqs(1 .. n + 1) : \A i, j \in DOMAIN p : i < j => key[p[i]] <= key[p[j]]
  BY <1>7, <1>8, SortedExists
<1>10. /\ \A i \in DOMAIN p : p[i] \in 1 .. n + 1
       /\ \A i, j \in DOMAIN p : p[i] = p[j] => i = j
       /\ DOMAIN p \subseteq Int
  BY <1>8, <1>9, SeqsOnto
<1>11. ASSUME NEW i \in DOMAIN p, NEW j \in DOMAIN p, i < j
       PROVE  \/ t[p[i]].at < t[p[j]].at
              \/ ~(t[p[j]].at < t[p[i]].at) /\ p[i] < p[j]
  <2>1. PICK x \in 1 .. n + 1, y \in 1 .. n + 1 : x = p[i] /\ y = p[j] /\ x # y /\ key[x] <= key[y]
    BY <1>9, <1>10, <1>11
  <2> SUFFICES t[x].at < t[y].at \/ (~(t[y].at < t[x].at) /\ x < y)
    BY <2>1
  <2>2. CASE x \in 1 .. n /\ y \in 1 .. n
    <3>1. x < y
      BY <1>7, <2>1, <2>2
    <3>2. s[x].at <= s[y].at /\ s[x].at \in Int /\ s[y].at \in Int
      BY <1>1, <1>2, <1>3, <2>2, <3>1 DEF InOrder
    <3> QED BY <1>4, <2>2, <3>1, <3>2
  <2>3. CASE x \in 1 .. n /\ y = n + 1
    <3>1. x <= k
      BY <1>7, <2>1, <2>3
    <3>2. s[x].at <= e.at /\ s[x].at \in Int /\ e.at \in Int
      BY <1>2, <1>3, <1>6, <2>3, <3>1
    <3> QED BY <1>4, <2>3, <3>2
  <2>4. CASE x = n + 1 /\ y \in 1 .. n
    <3>1. ~(y <= k)
      BY <1>7, <2>1, <2>4
    <3>2. ~(s[y].at <= e.at) /\ s[y].at \in Int /\ e.at \in Int
      BY <1>2, <1>3, <1>6, <2>4, <3>1
    <3> QED BY <1>4, <2>4, <3>2
  <2> QED BY <2>1, <2>2, <2>3, <2>4
<1>12. p \in SetToSeqs(DOMAIN t) /\ StableOrder(t, p)
  BY <1>4, <1>9, <1>11 DEF StableOrder
<1> QED BY <1>12 DEF t

LEMMA TimelineStep == TimelineInv /\ [TimelineNext]_timelineVars => TimelineInv'
<1> SUFFICES ASSUME TimelineInv, [TimelineNext]_timelineVars PROVE TimelineInv'
  OBVIOUS
<1>1. ASSUME NEW e \in Event, AppendEvent(e) PROVE TimelineInv'
  <2> DEFINE t == Append(events, e)
             p == CHOOSE q \in SetToSeqs(DOMAIN t) : StableOrder(t, q)
  <2>1. events \in Seq(Event) /\ InOrder(events) /\ happened = Range(events)
    BY DEF TimelineInv
  <2>2. events' = Permuted(t, p)
    BY <1>1 DEF AppendEvent, Sorted, SortSliceStable, StableOrder
  <2>3. p \in SetToSeqs(DOMAIN t) /\ StableOrder(t, p)
    BY <2>1, StableOrderExists
  <2>4. /\ t \in Seq(Event) /\ t[Len(events) + 1] = e
        /\ Len(events) \in Nat /\ DOMAIN events = 1 .. Len(events)
        /\ DOMAIN t = 1 .. Len(events) + 1
        /\ \A i \in DOMAIN events : t[i] = events[i]
    BY <2>1, AppendProperties, LenProperties
  <2> HIDE DEF t, p
  <2>5. /\ Permuted(t, p) \in Seq(Event) /\ DOMAIN Permuted(t, p) = DOMAIN p
        /\ \A i \in DOMAIN p : p[i] \in DOMAIN t /\ Permuted(t, p)[i] = t[p[i]]
        /\ \A x \in DOMAIN t : \E i \in DOMAIN p : p[i] = x
        /\ DOMAIN p \subseteq Int
    <3>1. DOMAIN t \in SUBSET (DOMAIN t)
      OBVIOUS
    <3>2. p \in SetToSeqs(DOMAIN t) /\ t \in Seq(Event)
      BY <2>3, <2>4
    <3>3. /\ Permuted(t, p) \in Seq(Event) /\ DOMAIN Permuted(t, p) = DOMAIN p
          /\ \A i \in DOMAIN p : p[i] \in DOMAIN t /\ Permuted(t, p)[i] = t[p[i]]
          /\ \A x \in DOMAIN t : \E i \in DOMAIN p : p[i] = x
      BY <3>1, <3>2, OrderHoldsAll
    <3>4. Cardinality(DOMAIN t) \in Nat /\ DOMAIN p = 1 .. Cardinality(DOMAIN t)
      BY <3>1, <3>2, OrderHoldsAll
    <3> QED BY <3>3, <3>4
  <2>6. \A i \in DOMAIN t : t[i].at \in Int
    <3>1. \A x \in Event : x.at \in Int
      BY TimelineAssumption DEF Event
    <3> QED BY <2>4, <3>1, ElementOfSeq
  <2>7. InOrder(events')
    <3> SUFFICES ASSUME NEW i \in DOMAIN p, NEW j \in DOMAIN p, i < j
                 PROVE  t[p[i]].at <= t[p[j]].at
      BY <2>2, <2>5 DEF InOrder
    <3>1. t[p[i]].at < t[p[j]].at \/ ~(t[p[j]].at < t[p[i]].at)
      BY <2>3 DEF StableOrder
    <3>2. t[p[i]].at \in Int /\ t[p[j]].at \in Int
      BY <2>5, <2>6
    <3> QED BY <3>1, <3>2
  <2>8. Range(events') = Range(events) \cup {e}
    <3>1. Range(events') = {t[i] : i \in DOMAIN t}
      BY <2>2, <2>5 DEF Range
    <3>2. \A i \in DOMAIN t : i \in DOMAIN events \/ i = Len(events) + 1
      BY <2>4
    <3>3. DOMAIN events \subseteq DOMAIN t /\ Len(events) + 1 \in DOMAIN t
      BY <2>4
    <3> QED BY <2>4, <3>1, <3>2, <3>3 DEF Range
  <2>9. happened' = happened \cup {e}
    BY <1>1 DEF AppendEvent
  <2> QED BY <2>1, <2>2, <2>5, <2>7, <2>8, <2>9 DEF TimelineInv
<1>2. CASE UNCHANGED timelineVars
  BY <1>2 DEF TimelineInv, timelineVars, InOrder, Range
<1> QED BY <1>1, <1>2 DEF TimelineNext

TimesOf(kind) == {e.at : e \in {x \in happened : x.kind = kind}}

IsLatestOf(t, T) == t \in T /\ \A u \in T : u <= t

(* Latest answers the event of a kind with the greatest time.              *)
LEMMA LatestIsLatest ==
  ASSUME TimelineInv, NEW kind \in Kinds
  PROVE  /\ TimesOf(kind) = {} => Latest(kind) = NoEvent
         /\ TimesOf(kind) # {} => /\ Latest(kind) # NoEvent /\ Latest(kind).at \in Int
                                  /\ IsLatestOf(Latest(kind).at, TimesOf(kind))
         /\ TimesOf(kind) \subseteq Int
<1> DEFINE I == {i \in 1 .. Len(events) : events[i].kind = kind}
<1>1. /\ Len(events) \in Nat /\ DOMAIN events = 1 .. Len(events)
      /\ \A i \in DOMAIN events : events[i] \in Event
  BY LenProperties, ElementOfSeq DEF TimelineInv
<1>2. \A x \in Event : x.at \in Int
  BY TimelineAssumption DEF Event
<1>3. \A t \in TimesOf(kind) : \E i \in I : t = events[i].at
  BY <1>1 DEF TimesOf, TimelineInv, Range
<1>4. \A i \in I : events[i].at \in TimesOf(kind)
  BY <1>1 DEF TimesOf, TimelineInv, Range
<1>5. TimesOf(kind) \subseteq Int
  BY <1>1, <1>2, <1>3
<1>6. Latest(kind) = IF (IF I # {} THEN Max(I) ELSE 0) = 0 THEN NoEvent
                     ELSE events[IF I # {} THEN Max(I) ELSE 0]
  BY DEF Latest, SelectLastInSeq
<1>7. CASE I = {}
  BY <1>3, <1>5, <1>6, <1>7
<1>8. CASE I # {}
  <2>1. I \in SUBSET (1 .. Len(events))
    OBVIOUS
  <2> HIDE DEF I
  <2>2. PICK m \in I : m = Max(I) /\ \A i \in I : i <= m
    BY <1>1, <1>8, <2>1, MaxOfIndices
  <2>3. m \in 1 .. Len(events) /\ m # 0
    BY <1>1, <2>1, <2>2
  <2>4. Latest(kind) = events[m]
    BY <1>6, <1>8, <2>2, <2>3
  <2>5. events[m] \in Event /\ events[m].at \in Int /\ events[m] # NoEvent
    BY <1>1, <1>2, <2>3, TimelineAssumption
  <2>6. ASSUME NEW u \in TimesOf(kind) PROVE u <= events[m].at
    <3>1. PICK i \in I : u = events[i].at
      BY <1>3
    <3>2. i \in DOMAIN events /\ m \in DOMAIN events /\ i <= m /\ i \in Int /\ m \in Int
      BY <1>1, <2>1, <2>2, <2>3
    <3>3. CASE i = m
      BY <2>5, <3>1, <3>3
    <3>4. CASE i < m
      BY <3>1, <3>2, <3>4 DEF TimelineInv, InOrder
    <3> QED BY <3>2, <3>3, <3>4
  <2>7. events[m].at \in TimesOf(kind)
    BY <1>4, <2>2
  <2> QED BY <1>5, <2>4, <2>5, <2>6, <2>7 DEF IsLatestOf
<1> QED BY <1>7, <1>8

(* The answers of timeline.Timeline do not depend on the order the events  *)
(* came in, for every number of events.                                    *)
THEOREM AnswersAreOrderIndependent == TimelineSpec => []OrderIndependent
<1>1. TimelineInit => TimelineInv
  <2> SUFFICES ASSUME TimelineInit PROVE TimelineInv
    OBVIOUS
  <2>1. events = <<>> /\ happened = {} /\ DOMAIN events = {}
    BY DEF TimelineInit
  <2>2. events \in Seq(Event) /\ Range(events) = {}
    BY <2>1, EmptySeq DEF Range
  <2> QED BY <2>1, <2>2 DEF TimelineInv, InOrder
<1>2. TimelineInv => OrderIndependent
  <2> SUFFICES ASSUME TimelineInv PROVE OrderIndependent
    OBVIOUS
  <2>1. \A k \in Kinds : IF TimesOf(k) = {} THEN Latest(k) = NoEvent
                         ELSE IsLatestOf(Latest(k).at, TimesOf(k))
    BY LatestIsLatest
  <2>2. ASSUME NEW k \in Kinds, NEW l \in Kinds
        PROVE  IF Duration(k, l) = NoDuration
               THEN TimesOf(k) = {} \/ TimesOf(l) = {} \/ \E t \in TimesOf(k) : \A u \in TimesOf(l) : u < t
               ELSE \E t \in TimesOf(k), u \in TimesOf(l) :
                      IsLatestOf(t, TimesOf(k)) /\ IsLatestOf(u, TimesOf(l)) /\ Duration(k, l) = u - t
    <3>1. CASE TimesOf(k) = {} \/ TimesOf(l) = {}
      <4>1. Duration(k, l) = NoDuration
        BY <3>1, LatestIsLatest DEF Duration
      <4> QED BY <3>1, <4>1
    <3>2. CASE TimesOf(k) # {} /\ TimesOf(l) # {}
      <4>1. PICK t \in TimesOf(k), u \in TimesOf(l) :
              /\ Latest(k).at = t /\ Latest(l).at = u /\ t \in Int /\ u \in Int
              /\ IsLatestOf(t, TimesOf(k)) /\ IsLatestOf(u, TimesOf(l))
              /\ Latest(k) # NoEvent /\ Latest(l) # NoEvent
        BY <3>2, LatestIsLatest DEF IsLatestOf
      <4>2. Duration(k, l) = IF u < t THEN NoDuration ELSE u - t
        BY <4>1 DEF Duration
      <4>3. CASE u < t
        <5>1. \A v \in TimesOf(l) : v \in Int /\ v <= u
          BY <4>1, LatestIsLatest DEF IsLatestOf
        <5>2. \A v \in TimesOf(l) : v < t
          BY <4>1, <4>3, <5>1
        <5> QED BY <4>2, <4>3, <5>2
      <4>4. CASE ~(u < t)
        <5>1. u - t \in Nat
          BY <4>1, <4>4
        <5>2. Duration(k, l) = u - t /\ Duration(k, l) # NoDuration
          BY <4>2, <4>4, <5>1, TimelineAssumption
        <5> QED BY <4>1, <5>2
      <4> QED BY <4>3, <4>4
    <3> QED BY <3>1, <3>2
  <2>3. ASSUME NEW s \in EventTimes, NEW t \in EventTimes
        PROVE  /\ {Between(s, t)[i] : i \in DOMAIN Between(s, t)}
                    = {e \in happened : s <= e.at /\ e.at < t}
               /\ \A i, j \in DOMAIN Between(s, t) : i < j => Between(s, t)[i].at <= Between(s, t)[j].at
    <3> DEFINE I == {i \in DOMAIN events : s <= events[i].at /\ events[i].at < t}
               p == Ascending(I)
    <3>1. I \in SUBSET (DOMAIN events) /\ events \in Seq(Event) /\ InOrder(events)
      BY DEF TimelineInv
    <3>2. Between(s, t) = Permuted(events, p)
      BY DEF Between
    <3>3. {e \in happened : s <= e.at /\ e.at < t} = {events[i] : i \in I}
      BY DEF TimelineInv, Range
    <3> HIDE DEF I
    <3>4. I \in SUBSET Nat /\ IsFiniteSet(I)
      <4>1. Len(events) \in Nat /\ DOMAIN events = 1 .. Len(events)
        BY <3>1, LenProperties
      <4>2. IsFiniteSet(1 .. Len(events)) /\ 1 .. Len(events) \subseteq Nat
        BY <4>1, FS_Interval
      <4> QED BY <3>1, <4>1, <4>2, FS_Subset
    <3>5. /\ p \in SetToSeqs(I)
          /\ \A i, j \in DOMAIN p : i < j => p[i] < p[j]
      BY <3>4, AscendingIs
    <3> HIDE DEF p
    <3>6. /\ DOMAIN Permuted(events, p) = DOMAIN p
          /\ \A i \in DOMAIN p : p[i] \in I /\ Permuted(events, p)[i] = events[p[i]]
          /\ \A x \in I : \E i \in DOMAIN p : p[i] = x
      BY <3>1, <3>5, OrderHoldsAll
    <3>7. {Between(s, t)[i] : i \in DOMAIN Between(s, t)} = {events[i] : i \in I}
      BY <3>2, <3>6
    <3>8. \A i, j \in DOMAIN p : i < j => events[p[i]].at <= events[p[j]].at
      BY <3>1, <3>5, <3>6 DEF InOrder
    <3> QED BY <3>2, <3>3, <3>6, <3>7, <3>8
  <2> QED BY <2>1, <2>2, <2>3 DEF OrderIndependent, TimesOf, IsLatestOf
<1> QED BY <1>1, <1>2, TimelineStep, PTL DEF TimelineSpec

-----------------------------------------------------------------------------
(* PriorityQueue.  A heap: no item is less than its parent, so none is     *)
(* less than the first.                                                    *)
IsHeap(h, n) == \A i \in 2 .. n : ~Less(h[i], h[i \div 2])

LEMMA LessIsAnOrder ==
  ASSUME NEW a \in Items, NEW b \in Items, NEW c \in Items
  PROVE  /\ ~Less(a, a)
         /\ Less(a, b) => ~Less(b, a)
         /\ ~Less(b, a) /\ ~Less(c, b) => ~Less(c, a)
<1>1. PICK p \in Int, i \in Int : a.priority = p /\ a.id = i
  BY QueueAssumption DEF Items
<1>2. PICK q \in Int, j \in Int : b.priority = q /\ b.id = j
  BY QueueAssumption DEF Items
<1>3. PICK r \in Int, k \in Int : c.priority = r /\ c.id = k
  BY QueueAssumption DEF Items
<1> QED BY <1>1, <1>2, <1>3 DEF Less

LEMMA Halves ==
  ASSUME NEW k \in Nat, k > 1
  PROVE  k \div 2 \in Nat /\ k \div 2 >= 1 /\ k \div 2 < k
OBVIOUS

LEMMA FirstIsLeast ==
  ASSUME NEW n \in Nat, NEW h, \A i \in 1 .. n : h[i] \in Items, IsHeap(h, n)
  PROVE  \A i \in 1 .. n : ~Less(h[i], h[1])
<1> DEFINE T == {i \in 1 .. n : Less(h[i], h[1])}
<1> SUFFICES ASSUME T # {} PROVE FALSE
  OBVIOUS
<1>1. PICK i \in T : \A j \in T : i <= j
  <2>1. T \subseteq Nat
    OBVIOUS
  <2> HIDE DEF T
  <2> QED BY <2>1, Smallest
<1>2. i \in 1 .. n /\ 1 \in 1 .. n /\ Less(h[i], h[1]) /\ h[i] \in Items /\ h[1] \in Items
  BY <1>1
<1>3. i # 1
  BY <1>2, LessIsAnOrder
<1>4. PICK p \in 1 .. n : p = i \div 2 /\ p < i
  BY <1>2, <1>3, Halves
<1>5. ~Less(h[i], h[p])
  BY <1>2, <1>3, <1>4 DEF IsHeap
<1>6. ~Less(h[p], h[1])
  BY <1>1, <1>2, <1>4
<1> QED BY <1>2, <1>4, <1>5, <1>6, LessIsAnOrder

(* How often y is in a function on 1 .. n, and what one change does to it. *)
Count(f, n, y) == Cardinality({i \in 1 .. n : f[i] = y})

One(a, b) == IF a = b THEN 1 ELSE 0

LEMMA CountType == ASSUME NEW f, NEW n \in Nat, NEW y PROVE Count(f, n, y) \in Nat
<1>1. IsFiniteSet(1 .. n)
  BY FS_Interval
<1>2. IsFiniteSet({i \in 1 .. n : f[i] = y})
  BY <1>1, FS_Subset
<1> QED BY <1>2, FS_CardinalityType DEF Count

AlikeBut(f, g, n, k) == \A i \in 1 .. n : i # k => g[i] = f[i]

LEMMA CountChange ==
  ASSUME NEW n \in Nat, NEW f, NEW g, NEW k \in 1 .. n, NEW y, AlikeBut(f, g, n, k)
  PROVE  Count(g, n, y) = Count(f, n, y) - One(f[k], y) + One(g[k], y)
<1> DEFINE A == {i \in 1 .. n : f[i] = y}
           B == {i \in 1 .. n : g[i] = y}
           C == {i \in 1 .. n : i # k /\ f[i] = y}
<1>1. IsFiniteSet(1 .. n)
  BY FS_Interval
<1>2. IsFiniteSet(C) /\ k \notin C
  BY <1>1, FS_Subset
<1>3. Cardinality(C) \in Nat /\ Cardinality(C \cup {k}) = Cardinality(C) + 1
  BY <1>2, FS_CardinalityType, FS_AddElement
<1>4. A = IF f[k] = y THEN C \cup {k} ELSE C
  OBVIOUS
<1>5. B = IF g[k] = y THEN C \cup {k} ELSE C
  BY DEF AlikeBut
<1> HIDE DEF A, B, C
<1>6. Cardinality(A) = Cardinality(C) + One(f[k], y)
  BY <1>3, <1>4 DEF One
<1>7. Cardinality(B) = Cardinality(C) + One(g[k], y)
  BY <1>3, <1>5 DEF One
<1>8. Count(f, n, y) = Cardinality(A) /\ Count(g, n, y) = Cardinality(B)
  BY DEF Count, A, B
<1>9. One(f[k], y) \in Nat /\ One(g[k], y) \in Nat
  BY DEF One
<1> QED BY <1>3, <1>6, <1>7, <1>8, <1>9

(* The recursive function of Up exists.                                    *)
UpBody(f, h, n, k) ==
  IF k > 1 /\ Less(h[n], h[k \div 2]) THEN [f[k \div 2] EXCEPT ![k] = h[k \div 2]]
  ELSE [h EXCEPT ![k] = h[n]]

LEMMA UpExists ==
  ASSUME NEW h, NEW n \in Nat
  PROVE  \E f : f = [k \in 1 .. n |-> UpBody(f, h, n, k)]
<1> DEFINE Has(m) == \E f : f = [k \in 1 .. m |-> UpBody(f, h, n, k)]
           T == {m \in Nat : ~Has(m)}
<1>1. Has(0)
  <2> DEFINE f == [k \in 1 .. 0 |-> 0]
  <2>1. f = [k \in 1 .. 0 |-> UpBody(f, h, n, k)]
    OBVIOUS
  <2> QED BY <2>1
<1>2. ASSUME NEW m \in Nat, Has(m) PROVE Has(m + 1)
  <2>1. PICK f : f = [k \in 1 .. m |-> UpBody(f, h, n, k)]
    BY <1>2
  <2> DEFINE g == [k \in 1 .. m + 1 |-> UpBody(f, h, n, k)]
  <2>2. \A k \in 1 .. m : g[k] = f[k]
    <3>1. \A k \in 1 .. m : f[k] = UpBody(f, h, n, k)
      BY <2>1
    <3> QED BY <3>1
  <2>3. ASSUME NEW k \in 1 .. m + 1 PROVE UpBody(f, h, n, k) = UpBody(g, h, n, k)
    <3> HIDE DEF g
    <3>1. CASE k > 1
      <4>1. k \div 2 \in 1 .. m
        BY <3>1, Halves
      <4>2. f[k \div 2] = g[k \div 2]
        BY <2>2, <4>1
      <4> QED BY <4>2 DEF UpBody
    <3>2. CASE ~(k > 1)
      BY <3>2 DEF UpBody
    <3> QED BY <3>1, <3>2
  <2>4. g = [k \in 1 .. m + 1 |-> UpBody(g, h, n, k)]
    BY <2>3
  <2> HIDE DEF g
  <2> QED BY <2>4
<1> HIDE DEF Has
<1>3. T = {}
  <2> SUFFICES ASSUME T # {} PROVE FALSE
    OBVIOUS
  <2>1. PICK m \in T : \A l \in T : m <= l
    <3>1. T \subseteq Nat
      OBVIOUS
    <3> HIDE DEF T
    <3> QED BY <3>1, Smallest
  <2>2. m \in Nat /\ ~Has(m) /\ m # 0
    BY <1>1, <2>1
  <2>3. m - 1 \in Nat /\ m - 1 \notin T /\ (m - 1) + 1 = m
    BY <2>1, <2>2
  <2> QED BY <1>2, <2>2, <2>3
<1> QED BY <1>3 DEF Has

(* What the function does with the item x and the place k it is about to   *)
(* stand at: nothing below k changes, k loses its item and gains another,  *)
(* and if x is less than what stood there all parents are in order.        *)
UpDone(f, h, n, k) ==
  /\ f[k] \in [1 .. n -> Items]
  /\ \A i \in 1 .. n : i > k => f[k][i] = h[i]
  /\ \A y : Count(f[k], n, y) = Count(h, n, y) - One(h[k], y) + One(h[n], y)
  /\ k < n /\ Less(h[n], h[k]) => IsHeap(f[k], n - 1) /\ ~Less(h[k], f[k][k])

LEMMA UpOne ==
  ASSUME NEW n \in Nat \ {0}, NEW h \in [1 .. n -> Items], IsHeap(h, n - 1), NEW f,
         NEW k \in 1 .. n, f[k] = UpBody(f, h, n, k), k > 1 => UpDone(f, h, n, k \div 2)
  PROVE  UpDone(f, h, n, k)
<1> DEFINE p == k \div 2
           x == h[n]
<1>0. x \in Items /\ h[k] \in Items /\ n \in 1 .. n
  OBVIOUS
<1>1. k > 1 => p \in 1 .. n /\ p < k
  BY Halves
<1>a. \A y : Count(h, n, y) \in Int /\ \A a, b : One(a, b) \in Int
  BY CountType DEF One
<1> HIDE DEF p
<1>2. CASE k > 1 /\ Less(x, h[p])
  <2>1. f[k] = [f[p] EXCEPT ![k] = h[p]]
    BY <1>2 DEF UpBody, p
  <2>2. UpDone(f, h, n, p) /\ p \in 1 .. n /\ p < k /\ h[p] \in Items
    BY <1>1, <1>2 DEF p
  <2>3. /\ f[p] \in [1 .. n -> Items]
        /\ \A i \in 1 .. n : i > p => f[p][i] = h[i]
        /\ \A y : Count(f[p], n, y) = Count(h, n, y) - One(h[p], y) + One(x, y)
        /\ IsHeap(f[p], n - 1) /\ ~Less(h[p], f[p][p])
    BY <1>2, <2>2 DEF UpDone
  <2> DEFINE g == f[k]
  <2>4. /\ g \in [1 .. n -> Items] /\ g[k] = h[p]
        /\ \A i \in 1 .. n : i # k => g[i] = f[p][i]
    BY <2>1, <2>2, <2>3
  <2>5. f[p][k] = h[k]
    BY <2>2, <2>3
  <2> HIDE DEF g
  <2>6. \A i \in 1 .. n : i > k => g[i] = h[i]
    BY <2>2, <2>3, <2>4
  <2>7. \A y : Count(g, n, y) = Count(h, n, y) - One(h[k], y) + One(x, y)
    <3> TAKE y
    <3>1. Count(g, n, y) = Count(f[p], n, y) - One(f[p][k], y) + One(g[k], y)
      <4>1. AlikeBut(f[p], g, n, k)
        BY <2>4 DEF AlikeBut
      <4> QED BY <4>1, CountChange
    <3>2. Count(f[p], n, y) = Count(h, n, y) - One(h[p], y) + One(x, y)
      BY <2>3
    <3> QED BY <1>a, <2>4, <2>5, <3>1, <3>2
  <2>8. ASSUME k < n PROVE IsHeap(g, n - 1) /\ ~Less(h[k], g[k])
    <3>1. ~Less(h[k], h[p])
      BY <1>2, <2>8 DEF IsHeap, p
    <3>2. ASSUME NEW i \in 2 .. n - 1 PROVE ~Less(g[i], g[i \div 2])
      <4>1. PICK q \in 1 .. n : q = i \div 2 /\ q < i
        BY Halves
      <4>2. i \in 1 .. n /\ ~Less(f[p][i], f[p][q]) /\ ~Less(h[i], h[q])
        BY <2>3, <3>2, <4>1 DEF IsHeap
      <4>3. CASE i = k
        <5>1. q = p
          BY <4>1, <4>3 DEF p
        <5>2. g[i] = h[p] /\ g[q] = f[p][p]
          BY <2>2, <2>4, <4>3, <5>1
        <5> QED BY <2>3, <4>1, <5>2
      <4>4. CASE q = k
        <5>1. i > k /\ g[i] = h[i] /\ g[q] = h[p]
          BY <2>4, <2>6, <4>1, <4>2, <4>4
        <5>2. h[i] \in Items /\ ~Less(h[i], h[k])
          BY <4>2, <4>4
        <5> QED BY <1>0, <2>2, <3>1, <4>1, <5>1, <5>2, LessIsAnOrder
      <4>5. CASE i # k /\ q # k
        BY <2>4, <4>1, <4>2, <4>5
      <4> QED BY <4>3, <4>4, <4>5
    <3> QED BY <2>4, <3>1, <3>2 DEF IsHeap
  <2> QED BY <2>4, <2>6, <2>7, <2>8 DEF UpDone, g
<1>3. CASE ~(k > 1 /\ Less(x, h[p]))
  <2>1. f[k] = [h EXCEPT ![k] = x]
    BY <1>3 DEF UpBody, p
  <2> DEFINE g == f[k]
  <2>2. /\ g \in [1 .. n -> Items] /\ g[k] = x
        /\ \A i \in 1 .. n : i # k => g[i] = h[i]
    BY <1>0, <2>1
  <2> HIDE DEF g
  <2>3. \A i \in 1 .. n : i > k => g[i] = h[i]
    BY <2>2
  <2>4. \A y : Count(g, n, y) = Count(h, n, y) - One(h[k], y) + One(x, y)
    <3>1. AlikeBut(h, g, n, k)
      BY <2>2 DEF AlikeBut
    <3> QED BY <2>2, <3>1, CountChange
  <2>5. ASSUME k < n, Less(x, h[k]) PROVE IsHeap(g, n - 1) /\ ~Less(h[k], g[k])
    <3>1. ~Less(h[k], x)
      BY <1>0, <2>5, LessIsAnOrder
    <3>2. ASSUME NEW i \in 2 .. n - 1 PROVE ~Less(g[i], g[i \div 2])
      <4>1. PICK q \in 1 .. n : q = i \div 2 /\ q < i
        BY Halves
      <4>2. i \in 1 .. n /\ ~Less(h[i], h[q])
        BY <3>2, <4>1 DEF IsHeap
      <4>3. CASE i = k
        <5>1. q = p /\ k > 1
          BY <3>2, <4>1, <4>3 DEF p
        <5>2. g[i] = x /\ g[q] = h[p]
          BY <2>2, <4>1, <4>3, <5>1
        <5> QED BY <1>3, <4>1, <5>1, <5>2
      <4>4. CASE q = k
        <5>1. g[i] = h[i] /\ g[q] = x /\ h[i] \in Items /\ ~Less(h[i], h[k])
          BY <2>2, <4>1, <4>2, <4>4
        <5> QED BY <1>0, <3>1, <4>1, <5>1, LessIsAnOrder
      <4>5. CASE i # k /\ q # k
        BY <2>2, <4>1, <4>2, <4>5
      <4> QED BY <4>3, <4>4, <4>5
    <3> QED BY <2>2, <3>1, <3>2 DEF IsHeap
  <2> QED BY <2>2, <2>3, <2>4, <2>5 DEF UpDone, g
<1> QED BY <1>2, <1>3

(* Up makes a heap of a heap with one more item.                           *)
LEMMA UpSifts ==
  ASSUME NEW h \in Seq(Items), h # <<>>, IsHeap(h, Len(h) - 1)
  PROVE  /\ Up(h) \in [1 .. Len(h) -> Items]
         /\ IsHeap(Up(h), Len(h))
         /\ \A y : Count(Up(h), Len(h), y) = Count(h, Len(h), y)
<1>1. PICK n \in Nat \ {0} : n = Len(h) /\ h \in [1 .. n -> Items]
  BY LenProperties, EmptySeq
<1> DEFINE F == CHOOSE f : f = [k \in 1 .. n |-> UpBody(f, h, n, k)]
<1>2. Up(h) = F[n]
  BY <1>1 DEF Up, UpBody
<1>3. F = [k \in 1 .. n |-> UpBody(F, h, n, k)]
  BY UpExists
<1> HIDE DEF F
<1>4. \A k \in 1 .. n : F[k] = UpBody(F, h, n, k)
  BY <1>3
<1> DEFINE T == {k \in 1 .. n : ~UpDone(F, h, n, k)}
<1>5. T = {}
  <2> SUFFICES ASSUME T # {} PROVE FALSE
    OBVIOUS
  <2>1. PICK k \in T : \A j \in T : k <= j
    <3>1. T \subseteq Nat
      OBVIOUS
    <3> HIDE DEF T
    <3> QED BY <3>1, Smallest
  <2>2. k \in 1 .. n /\ ~UpDone(F, h, n, k)
    BY <2>1
  <2>3. k > 1 => UpDone(F, h, n, k \div 2)
    <3> SUFFICES ASSUME k > 1 PROVE UpDone(F, h, n, k \div 2)
      OBVIOUS
    <3>1. PICK p \in 1 .. n : p = k \div 2 /\ p < k
      BY <2>2, Halves
    <3>2. p \notin T
      BY <2>1, <2>2, <3>1
    <3> QED BY <3>1, <3>2
  <2> QED BY <1>1, <1>4, <2>2, <2>3, UpOne
<1>6. \A k \in 1 .. n : UpDone(F, h, n, k)
  BY <1>5
<1> HIDE DEF T
<1> DEFINE g == F[n]
           p == n \div 2
<1>7. n \in 1 .. n /\ UpDone(F, h, n, n) /\ h[n] \in Items
  BY <1>1, <1>6
<1>8. g \in [1 .. n -> Items] /\ \A y : Count(g, n, y) = Count(h, n, y)
  <2>1. \A y : Count(h, n, y) - One(h[n], y) + One(h[n], y) = Count(h, n, y)
    BY CountType DEF One
  <2> QED BY <1>7, <2>1 DEF UpDone
<1>9. IsHeap(g, n)
  <2>1. g = UpBody(F, h, n, n)
    BY <1>4, <1>7
  <2>2. n > 1 => p \in 1 .. n /\ p < n /\ UpDone(F, h, n, p)
    BY <1>6, Halves
  <2>3. CASE n > 1 /\ Less(h[n], h[p])
    <3>1. g = [F[p] EXCEPT ![n] = h[p]]
      BY <2>1, <2>3 DEF UpBody
    <3>2. /\ F[p] \in [1 .. n -> Items]
          /\ IsHeap(F[p], n - 1) /\ ~Less(h[p], F[p][p])
      BY <2>2, <2>3 DEF UpDone
    <3>3. g[n] = h[p] /\ \A i \in 1 .. n - 1 : g[i] = F[p][i]
      BY <1>7, <3>1, <3>2
    <3> HIDE DEF g
    <3>4. ASSUME NEW i \in 2 .. n PROVE ~Less(g[i], g[i \div 2])
      <4>1. PICK q \in 1 .. n - 1 : q = i \div 2 /\ q < i
        BY Halves
      <4>2. CASE i = n
        BY <3>2, <3>3, <4>1, <4>2
      <4>3. CASE i \in 2 .. n - 1
        BY <3>2, <3>3, <4>1, <4>3 DEF IsHeap
      <4> QED BY <4>2, <4>3
    <3> QED BY <3>4 DEF IsHeap
  <2>4. CASE ~(n > 1 /\ Less(h[n], h[p]))
    <3>1. g = [h EXCEPT ![n] = h[n]]
      BY <2>1, <2>4 DEF UpBody
    <3>2. \A i \in 1 .. n : g[i] = h[i]
      BY <1>1, <3>1
    <3> HIDE DEF g
    <3>3. ASSUME NEW i \in 2 .. n PROVE ~Less(g[i], g[i \div 2])
      <4>1. PICK q \in 1 .. n - 1 : q = i \div 2 /\ q < i
        BY Halves
      <4>2. CASE i = n
        BY <2>4, <3>2, <4>1, <4>2
      <4>3. CASE i \in 2 .. n - 1
        BY <1>1, <3>2, <4>1, <4>3 DEF IsHeap
      <4> QED BY <4>2, <4>3
    <3> QED BY <3>3 DEF IsHeap
  <2> QED BY <2>3, <2>4
<1> QED BY <1>1, <1>2, <1>8, <1>9

(* The way down: from k to the lesser of its children.                     *)
LEMMA ChildIsLesser ==
  ASSUME NEW h \in Seq(Items), NEW n \in Nat, n = Len(h), NEW k \in 1 .. n, 2 * k <= n
  PROVE  /\ Child(h, k) \in 1 .. n /\ Child(h, k) >= 2 * k
         /\ Child(h, k) \div 2 = k
         /\ \A i \in 1 .. n : i \div 2 = k => ~Less(h[i], h[Child(h, k)])
<1>1. \A i \in 1 .. n : h[i] \in Items
  BY ElementOfSeq
<1>2. \A i \in 1 .. n : i \div 2 = k => i = 2 * k \/ i = 2 * k + 1
  OBVIOUS
<1>3. (2 * k) \div 2 = k /\ (2 * k + 1) \div 2 = k
  OBVIOUS
<1>4. 2 * k \in 1 .. n
  OBVIOUS
<1>5. CASE 2 * k + 1 <= n /\ Less(h[2 * k + 1], h[2 * k])
  <2>1. Child(h, k) = 2 * k + 1 /\ 2 * k + 1 \in 1 .. n
    BY <1>5 DEF Child
  <2>2. ~Less(h[2 * k], h[2 * k + 1]) /\ ~Less(h[2 * k + 1], h[2 * k + 1])
    BY <1>1, <1>4, <1>5, <2>1, LessIsAnOrder
  <2> QED BY <1>2, <1>3, <2>1, <2>2
<1>6. CASE ~(2 * k + 1 <= n /\ Less(h[2 * k + 1], h[2 * k]))
  <2>1. Child(h, k) = 2 * k
    BY <1>6 DEF Child
  <2>2. ~Less(h[2 * k], h[2 * k])
    BY <1>1, <1>4, LessIsAnOrder
  <2>3. 2 * k + 1 \in 1 .. n => ~Less(h[2 * k + 1], h[2 * k])
    BY <1>6
  <2> QED BY <1>2, <1>3, <1>4, <2>1, <2>2, <2>3
<1> QED BY <1>5, <1>6

(* The recursive function of Down exists.                                  *)
DownBody(f, h, n, x, k) ==
  IF 2 * k <= n /\ Less(h[Child(h, k)], x) THEN [f[Child(h, k)] EXCEPT ![k] = h[Child(h, k)]]
  ELSE [h EXCEPT ![k] = x]

IsDown(f, h, n, x) == f = [k \in 1 .. n |-> DownBody(f, h, n, x, k)]

LEMMA DownExists ==
  ASSUME NEW h \in Seq(Items), NEW n \in Nat, n = Len(h), NEW x
  PROVE  \E f : IsDown(f, h, n, x)
<1> DEFINE Has(m) == \E f : f = [k \in m .. n |-> DownBody(f, h, n, x, k)]
           T == {j \in Nat : j <= n /\ ~Has(n + 1 - j)}
<1>1. Has(n + 1)
  <2> DEFINE f == [k \in n + 1 .. n |-> 0]
  <2>1. f = [k \in n + 1 .. n |-> DownBody(f, h, n, x, k)]
    OBVIOUS
  <2> QED BY <2>1
<1>2. ASSUME NEW m \in 1 .. n, Has(m + 1) PROVE Has(m)
  <2>1. PICK f : f = [k \in m + 1 .. n |-> DownBody(f, h, n, x, k)]
    BY <1>2
  <2> DEFINE g == [k \in m .. n |-> DownBody(f, h, n, x, k)]
  <2>2. \A k \in m + 1 .. n : g[k] = f[k]
    <3>1. \A k \in m + 1 .. n : f[k] = DownBody(f, h, n, x, k)
      BY <2>1
    <3> QED BY <3>1
  <2>3. ASSUME NEW k \in m .. n PROVE DownBody(f, h, n, x, k) = DownBody(g, h, n, x, k)
    <3> HIDE DEF g
    <3>1. CASE 2 * k <= n
      <4>1. Child(h, k) \in 1 .. n /\ Child(h, k) >= 2 * k
        BY <3>1, ChildIsLesser
      <4>2. Child(h, k) \in m + 1 .. n
        BY <4>1
      <4>3. f[Child(h, k)] = g[Child(h, k)]
        BY <2>2, <4>2
      <4> QED BY <4>3 DEF DownBody
    <3>2. CASE ~(2 * k <= n)
      BY <3>2 DEF DownBody
    <3> QED BY <3>1, <3>2
  <2>4. g = [k \in m .. n |-> DownBody(g, h, n, x, k)]
    BY <2>3
  <2> HIDE DEF g
  <2> QED BY <2>4
<1> HIDE DEF Has
<1>3. T = {}
  <2> SUFFICES ASSUME T # {} PROVE FALSE
    OBVIOUS
  <2>1. PICK j \in T : \A l \in T : j <= l
    <3>1. T \subseteq Nat
      OBVIOUS
    <3> HIDE DEF T
    <3> QED BY <3>1, Smallest
  <2>2. j \in Nat /\ j <= n /\ ~Has(n + 1 - j)
    BY <2>1
  <2>3. j # 0
    BY <1>1, <2>2
  <2>4. j - 1 \in Nat /\ j - 1 \notin T /\ j - 1 <= n
    BY <2>1, <2>2, <2>3
  <2>5. Has(n + 1 - (j - 1))
    BY <2>4
  <2>6. PICK m \in 1 .. n : m = n + 1 - j /\ m + 1 = n + 1 - (j - 1)
    BY <2>2, <2>3
  <2> QED BY <1>2, <2>2, <2>5, <2>6
<1>4. Has(1)
  <2>1. n \in Nat /\ n <= n /\ n + 1 - n = 1
    OBVIOUS
  <2> QED BY <1>3, <2>1
<1> QED BY <1>4 DEF Has, IsDown

(* What the function does with x and the place k: what comes before k and  *)
(* the sibling of k stay, k loses its item and x is gained, and all items  *)
(* but the one at k are in order with their parents.                       *)
DownDone(f, h, n, x, k) ==
  /\ f[k] \in [1 .. n -> Items]
  /\ \A i \in 1 .. n : i < k \/ (i = k + 1 /\ k > 1) => f[k][i] = h[i]
  /\ \A y : Count(f[k], n, y) = Count(h, n, y) - One(h[k], y) + One(x, y)
  /\ \A i \in 2 .. n : i # k => ~Less(f[k][i], f[k][i \div 2])
  /\ f[k][k] = x \/ (2 * k <= n /\ f[k][k] = h[Child(h, k)])

LEMMA DownOne ==
  ASSUME NEW h \in Seq(Items), NEW n \in Nat, n = Len(h), IsHeap(h, n), NEW x \in Items, NEW f,
         NEW k \in 1 .. n, f[k] = DownBody(f, h, n, x, k),
         2 * k <= n => DownDone(f, h, n, x, Child(h, k))
  PROVE  DownDone(f, h, n, x, k)
<1> DEFINE c == Child(h, k)
           g == f[k]
<1>0. h \in [1 .. n -> Items]
  BY LenProperties
<1>1. ASSUME 2 * k <= n
      PROVE  /\ c \in 1 .. n /\ c >= 2 * k /\ c > k /\ c \div 2 = k /\ h[c] \in Items
             /\ \A i \in 1 .. n : i \div 2 = k => ~Less(h[i], h[c])
  <2>1. /\ c \in 1 .. n /\ c >= 2 * k /\ c \div 2 = k
        /\ \A i \in 1 .. n : i \div 2 = k => ~Less(h[i], h[c])
    BY <1>1, ChildIsLesser
  <2> HIDE DEF c
  <2> QED BY <1>0, <2>1
<1>a. \A y : Count(h, n, y) \in Int /\ \A a, b : One(a, b) \in Int
  BY CountType DEF One
<1>b. \A i \in 2 .. n : i \div 2 \in 1 .. n /\ i \div 2 < i /\ ~Less(h[i], h[i \div 2])
  BY Halves DEF IsHeap
<1>2. CASE 2 * k <= n /\ Less(h[c], x)
  <2>1. g = [f[c] EXCEPT ![k] = h[c]]
    BY <1>2 DEF DownBody
  <2>2. /\ c \in 1 .. n /\ c >= 2 * k /\ c > k /\ c \div 2 = k /\ h[c] \in Items
        /\ \A i \in 1 .. n : i \div 2 = k => ~Less(h[i], h[c])
    BY <1>1, <1>2
  <2>3. /\ f[c] \in [1 .. n -> Items]
        /\ \A i \in 1 .. n : i < c \/ (i = c + 1 /\ c > 1) => f[c][i] = h[i]
        /\ \A y : Count(f[c], n, y) = Count(h, n, y) - One(h[c], y) + One(x, y)
        /\ \A i \in 2 .. n : i # c => ~Less(f[c][i], f[c][i \div 2])
        /\ f[c][c] = x \/ (2 * c <= n /\ f[c][c] = h[Child(h, c)])
    BY <1>2 DEF DownDone
  <2>4. ~Less(f[c][c], h[c])
    <3>1. CASE f[c][c] = x
      BY <1>2, <2>2, <3>1, LessIsAnOrder
    <3>2. CASE 2 * c <= n /\ f[c][c] = h[Child(h, c)]
      <4> HIDE DEF c
      <4>1. Child(h, c) \in 1 .. n /\ Child(h, c) \div 2 = c /\ Child(h, c) >= 2 * c
        BY <2>2, <3>2, ChildIsLesser
      <4>2. Child(h, c) \in 2 .. n
        BY <2>2, <4>1
      <4> QED BY <1>b, <3>2, <4>1, <4>2
    <3> QED BY <2>3, <3>1, <3>2
  <2> HIDE DEF c, g
  <2>5. /\ g \in [1 .. n -> Items] /\ g[k] = h[c]
        /\ \A i \in 1 .. n : i # k => g[i] = f[c][i]
    BY <2>1, <2>2, <2>3
  <2>6. f[c][k] = h[k]
    BY <2>2, <2>3
  <2>7. \A i \in 1 .. n : i < k \/ (i = k + 1 /\ k > 1) => g[i] = h[i]
    <3> SUFFICES ASSUME NEW i \in 1 .. n, i < k \/ (i = k + 1 /\ k > 1) PROVE g[i] = h[i]
      OBVIOUS
    <3>1. i < c /\ i # k
      BY <2>2
    <3> QED BY <2>3, <2>5, <3>1
  <2>8. \A y : Count(g, n, y) = Count(h, n, y) - One(h[k], y) + One(x, y)
    <3> TAKE y
    <3>1. Count(g, n, y) = Count(f[c], n, y) - One(f[c][k], y) + One(g[k], y)
      <4>1. AlikeBut(f[c], g, n, k)
        BY <2>5 DEF AlikeBut
      <4> QED BY <4>1, CountChange
    <3>2. Count(f[c], n, y) = Count(h, n, y) - One(h[c], y) + One(x, y)
      BY <2>3
    <3> QED BY <1>a, <2>5, <2>6, <3>1, <3>2
  <2>9. ASSUME NEW i \in 2 .. n, i # k PROVE ~Less(g[i], g[i \div 2])
    <3>1. PICK q \in 1 .. n : q = i \div 2 /\ q < i
      BY <1>b
    <3>2. g[i] = f[c][i] /\ i \in 1 .. n
      BY <2>5, <2>9
    <3>3. CASE i = c
      <4>1. g[q] = h[c]
        BY <2>2, <2>5, <3>1, <3>3
      <4> QED BY <2>4, <3>1, <3>2, <3>3, <4>1
    <3>4. CASE i # c /\ q = k
      <4>1. g[q] = h[c] /\ ~Less(h[i], h[c])
        BY <2>2, <2>5, <3>1, <3>2, <3>4
      <4>2. (i = 2 * k \/ i = 2 * k + 1) /\ (c = 2 * k \/ c = 2 * k + 1)
        BY <2>2, <3>1, <3>4
      <4>3. i < c \/ (i = c + 1 /\ c > 1)
        BY <2>2, <3>4, <4>2
      <4>4. f[c][i] = h[i]
        BY <2>3, <3>2, <4>3
      <4> QED BY <3>1, <3>2, <4>1, <4>4
    <3>5. CASE i # c /\ q # k
      BY <2>3, <2>5, <3>1, <3>2, <3>5
    <3> QED BY <3>3, <3>4, <3>5
  <2> QED BY <1>2, <2>5, <2>7, <2>8, <2>9 DEF DownDone, c, g
<1>3. CASE ~(2 * k <= n /\ Less(h[c], x))
  <2>1. g = [h EXCEPT ![k] = x]
    BY <1>3 DEF DownBody
  <2>2. /\ g \in [1 .. n -> Items] /\ g[k] = x
        /\ \A i \in 1 .. n : i # k => g[i] = h[i]
    BY <1>0, <2>1
  <2> HIDE DEF c, g
  <2>3. \A i \in 1 .. n : i < k \/ (i = k + 1 /\ k > 1) => g[i] = h[i]
    BY <2>2
  <2>4. \A y : Count(g, n, y) = Count(h, n, y) - One(h[k], y) + One(x, y)
    <3>1. AlikeBut(h, g, n, k)
      BY <2>2 DEF AlikeBut
    <3> QED BY <2>2, <3>1, CountChange
  <2>5. ASSUME NEW i \in 2 .. n, i # k PROVE ~Less(g[i], g[i \div 2])
    <3>1. PICK q \in 1 .. n : q = i \div 2 /\ q < i
      BY <1>b
    <3>2. g[i] = h[i] /\ i \in 1 .. n /\ h[i] \in Items
      BY <1>0, <2>2, <2>5
    <3>3. CASE q = k
      <4>1. 2 * k <= n
        BY <3>1, <3>2, <3>3
      <4>2. c \in 1 .. n /\ h[c] \in Items /\ ~Less(h[i], h[c]) /\ ~Less(h[c], x)
        BY <1>1, <1>3, <3>1, <3>2, <3>3, <4>1
      <4> QED BY <2>2, <3>1, <3>2, <3>3, <4>2, LessIsAnOrder
    <3>4. CASE q # k
      <4>1. g[q] = h[q]
        BY <2>2, <3>4
      <4> QED BY <1>b, <3>1, <3>2, <4>1
    <3> QED BY <3>3, <3>4
  <2> QED BY <2>2, <2>3, <2>4, <2>5 DEF DownDone, g
<1> QED BY <1>2, <1>3

(* Down makes a heap of a heap whose first item is replaced.               *)
LEMMA DownSifts ==
  ASSUME NEW h \in Seq(Items), h # <<>>, IsHeap(h, Len(h)), NEW x \in Items
  PROVE  /\ Down(h, x) \in [1 .. Len(h) -> Items]
         /\ IsHeap(Down(h, x), Len(h))
         /\ \A y : Count(Down(h, x), Len(h), y) = Count(h, Len(h), y) - One(h[1], y) + One(x, y)
<1>1. PICK n \in Nat \ {0} : n = Len(h)
  BY LenProperties, EmptySeq
<1> DEFINE F == CHOOSE f : f = [k \in 1 .. n |-> DownBody(f, h, n, x, k)]
<1>2. Down(h, x) = F[1]
  BY <1>1 DEF Down, DownBody
<1>3. F = [k \in 1 .. n |-> DownBody(F, h, n, x, k)]
  <2>1. \E f : IsDown(f, h, n, x)
    BY <1>1, DownExists
  <2> QED BY <2>1 DEF IsDown
<1> HIDE DEF F
<1>4. \A k \in 1 .. n : F[k] = DownBody(F, h, n, x, k)
  BY <1>3
<1> DEFINE T == {k \in 1 .. n : ~DownDone(F, h, n, x, k)}
<1>5. T = {}
  <2> SUFFICES ASSUME T # {} PROVE FALSE
    OBVIOUS
  <2>1. PICK k \in T : \A j \in T : j <= k
    <3>1. T \in SUBSET (1 .. n)
      OBVIOUS
    <3> HIDE DEF T
    <3> QED BY <3>1, MaxOfIndices
  <2>2. k \in 1 .. n /\ ~DownDone(F, h, n, x, k)
    BY <2>1
  <2>3. 2 * k <= n => DownDone(F, h, n, x, Child(h, k))
    <3> SUFFICES ASSUME 2 * k <= n PROVE DownDone(F, h, n, x, Child(h, k))
      OBVIOUS
    <3>1. PICK c \in 1 .. n : c = Child(h, k) /\ c > k
      <4>1. Child(h, k) \in 1 .. n /\ Child(h, k) >= 2 * k
        BY <1>1, <2>2, ChildIsLesser
      <4> QED BY <2>2, <4>1
    <3>2. c \notin T
      BY <2>1, <2>2, <3>1
    <3> QED BY <3>1, <3>2
  <2> QED BY <1>1, <1>4, <2>2, <2>3, DownOne
<1>6. 1 \in 1 .. n
  OBVIOUS
<1>7. DownDone(F, h, n, x, 1)
  BY <1>5, <1>6
<1>8. \A i \in 2 .. n : i # 1
  OBVIOUS
<1> QED BY <1>1, <1>2, <1>7, <1>8 DEF DownDone, IsHeap

LEMMA CountAlike ==
  ASSUME NEW n \in Nat, NEW f, NEW g, NEW y, \A i \in 1 .. n : g[i] = f[i]
  PROVE  Count(g, n, y) = Count(f, n, y)
<1>1. {i \in 1 .. n : g[i] = y} = {i \in 1 .. n : f[i] = y}
  OBVIOUS
<1> QED BY <1>1 DEF Count

LEMMA CountMore ==
  ASSUME NEW n \in Nat, NEW f, NEW y
  PROVE  Count(f, n + 1, y) = Count(f, n, y) + One(f[n + 1], y)
<1> DEFINE A == {i \in 1 .. n : f[i] = y}
           B == {i \in 1 .. n + 1 : f[i] = y}
<1>1. IsFiniteSet(1 .. n)
  BY FS_Interval
<1>2. IsFiniteSet(A) /\ n + 1 \notin A
  BY <1>1, FS_Subset
<1>3. Cardinality(A) \in Nat /\ Cardinality(A \cup {n + 1}) = Cardinality(A) + 1
  BY <1>2, FS_CardinalityType, FS_AddElement
<1>4. B = IF f[n + 1] = y THEN A \cup {n + 1} ELSE A
  OBVIOUS
<1> HIDE DEF A, B
<1>5. Cardinality(B) = Cardinality(A) + One(f[n + 1], y)
  BY <1>3, <1>4 DEF One
<1> QED BY <1>5 DEF Count, A, B

QueueInv ==
  /\ heap \in Seq(Items) /\ waiting \in [Items -> Int]
  /\ IsHeap(heap, Len(heap))
  /\ \A x \in Items : waiting[x] = Count(heap, Len(heap), x)

LEMMA QueueStep == QueueInv /\ [QueueNext]_queueVars => QueueInv'
<1> SUFFICES ASSUME QueueInv, [QueueNext]_queueVars PROVE QueueInv'
  OBVIOUS
<1>1. PICK n \in Nat : n = Len(heap) /\ heap \in [1 .. n -> Items]
  BY LenProperties DEF QueueInv
<1>2. \A s, m : m \in Nat /\ s \in [1 .. m -> Items] => s \in Seq(Items) /\ Len(s) = m
  <2>1. Seq(Items) = UNION {[1 .. m -> Items] : m \in Nat}
    BY SeqDef
  <2> SUFFICES ASSUME NEW s, NEW m \in Nat, s \in [1 .. m -> Items]
               PROVE  s \in Seq(Items) /\ Len(s) = m
    OBVIOUS
  <2>2. s \in Seq(Items)
    BY <2>1
  <2>3. Len(s) \in Nat /\ 1 .. Len(s) = 1 .. m
    BY <2>2, LenProperties
  <2>4. Len(s) = m
    <3>1. Len(s) >= 1 => Len(s) \in 1 .. Len(s)
      BY <2>3
    <3>2. m >= 1 => m \in 1 .. m
      OBVIOUS
    <3> QED BY <2>3, <3>1, <3>2
  <2> QED BY <2>2, <2>4
<1>3. \A x, y \in Items : One(x, y) \in Int
  BY DEF One
<1>4. \A x \in Items : Count(heap, n, x) \in Int /\ waiting[x] = Count(heap, n, x)
  BY <1>1, CountType DEF QueueInv
<1>5. ASSUME NEW x \in Items, Add(x) PROVE QueueInv'
  <2> DEFINE h == Append(heap, x)
  <2>1. /\ h \in Seq(Items) /\ Len(h) = n + 1 /\ h[n + 1] = x
        /\ \A i \in 1 .. n : h[i] = heap[i]
    BY <1>1, AppendProperties DEF QueueInv
  <2>2. heap' = Up(h) /\ waiting' = [waiting EXCEPT ![x] = @ + 1]
    BY <1>5 DEF Add
  <2> HIDE DEF h
  <2>3. IsHeap(h, Len(h) - 1)
    <3>1. Len(h) - 1 = n
      BY <2>1
    <3>2. \A i \in 2 .. n : ~Less(h[i], h[i \div 2])
      <4> TAKE i \in 2 .. n
      <4>1. i \in 1 .. n /\ i \div 2 \in 1 .. n
        BY Halves
      <4>2. ~Less(heap[i], heap[i \div 2])
        BY <1>1 DEF QueueInv, IsHeap
      <4> QED BY <2>1, <4>1, <4>2
    <3> QED BY <3>1, <3>2 DEF IsHeap
  <2>4. h # <<>>
    BY <2>1, EmptySeq
  <2>5. /\ Up(h) \in [1 .. n + 1 -> Items] /\ IsHeap(Up(h), n + 1)
        /\ \A y : Count(Up(h), n + 1, y) = Count(h, n + 1, y)
    BY <2>1, <2>3, <2>4, UpSifts
  <2>6. heap' \in Seq(Items) /\ Len(heap') = n + 1
    BY <1>2, <2>2, <2>5
  <2>7. ASSUME NEW y \in Items PROVE waiting'[y] = Count(heap', n + 1, y)
    <3>1. Count(h, n + 1, y) = Count(h, n, y) + One(x, y)
      BY <2>1, CountMore
    <3>2. Count(h, n, y) = Count(heap, n, y)
      BY <2>1, CountAlike
    <3>3. waiting'[y] = waiting[y] + One(x, y)
      BY <1>4, <2>2 DEF QueueInv, One
    <3> QED BY <1>4, <2>2, <2>5, <3>1, <3>2, <3>3
  <2>8. waiting' \in [Items -> Int]
    BY <2>2 DEF QueueInv
  <2> QED BY <2>2, <2>5, <2>6, <2>7, <2>8 DEF QueueInv
<1>6. ASSUME Take PROVE QueueInv'
  <2> DEFINE h == SubSeq(heap, 1, n - 1)
             x == heap[n]
  <2>1. heap # <<>> /\ n # 0
    BY <1>1, <1>6, EmptySeq DEF Take, QueueInv
  <2>2. n \in 1 .. n /\ x \in Items /\ heap[1] \in Items /\ n - 1 \in Nat
    BY <1>1, <2>1
  <2>3. heap' = Down(h, x) /\ waiting' = [waiting EXCEPT ![heap[1]] = @ - 1]
    BY <1>1, <1>6 DEF Take, Pop
  <2>4. /\ h \in Seq(Items) /\ Len(h) = n - 1
        /\ \A i \in 1 .. n - 1 : h[i] = heap[i]
    <3>1. \A i \in 1 .. n - 1 : heap[i] \in Items
      BY <1>1
    <3>2. /\ h \in Seq(Items)
          /\ Len(h) = IF 1 <= n - 1 THEN (n - 1) - 1 + 1 ELSE 0
          /\ \A i \in 1 .. (n - 1) - 1 + 1 : h[i] = heap[1 + i - 1]
      BY <2>2, <3>1, SubSeqProperties
    <3> HIDE DEF h
    <3>3. (n - 1) - 1 + 1 = n - 1 /\ \A i \in 1 .. n - 1 : 1 + i - 1 = i
      BY <2>2
    <3> QED BY <2>2, <3>2, <3>3
  <2> HIDE DEF h, x
  <2>5. waiting' \in [Items -> Int] /\ \A y \in Items : waiting'[y] = waiting[y] - One(heap[1], y)
    BY <1>4, <2>2, <2>3 DEF QueueInv, One
  <2>6. \A y : Count(heap, n, y) = Count(h, n - 1, y) + One(x, y)
    <3> TAKE y
    <3>1. PICK m \in Nat : m = n - 1 /\ n = m + 1
      BY <2>2
    <3>2. Count(heap, m + 1, y) = Count(heap, m, y) + One(heap[m + 1], y)
      BY CountMore
    <3>3. Count(h, m, y) = Count(heap, m, y)
      BY <2>4, <3>1, CountAlike
    <3> QED BY <3>1, <3>2, <3>3 DEF x
  <2>7. CASE n = 1
    <3>1. h = <<>>
      BY <2>4, <2>7, EmptySeq
    <3>2. heap' = h
      BY <2>3, <3>1 DEF Down
    <3>3. \A y \in Items : waiting'[y] = Count(h, 0, y)
      <4> TAKE y \in Items
      <4>1. Count(h, 0, y) \in Int /\ One(x, y) \in Int /\ x = heap[1]
        BY <1>3, <2>2, <2>7, CountType DEF x
      <4> QED BY <1>4, <2>5, <2>6, <2>7, <4>1
    <3> QED BY <2>4, <2>5, <2>7, <3>2, <3>3 DEF QueueInv, IsHeap
  <2>8. CASE n # 1
    <3>1. h # <<>> /\ 1 \in 1 .. n - 1 /\ h[1] = heap[1]
      BY <2>2, <2>4, <2>8, EmptySeq
    <3>2. IsHeap(h, Len(h))
      <4>1. \A i \in 2 .. n - 1 : ~Less(h[i], h[i \div 2])
        <5> TAKE i \in 2 .. n - 1
        <5>1. i \in 1 .. n - 1 /\ i \div 2 \in 1 .. n - 1 /\ i \in 2 .. n
          BY Halves
        <5>2. ~Less(heap[i], heap[i \div 2])
          BY <1>1, <5>1 DEF QueueInv, IsHeap
        <5> QED BY <2>4, <5>1, <5>2
      <4> QED BY <2>4, <4>1 DEF IsHeap
    <3>3. /\ Down(h, x) \in [1 .. n - 1 -> Items] /\ IsHeap(Down(h, x), n - 1)
          /\ \A y : Count(Down(h, x), n - 1, y) = Count(h, n - 1, y) - One(h[1], y) + One(x, y)
      BY <2>2, <2>4, <3>1, <3>2, DownSifts
    <3>4. heap' \in Seq(Items) /\ Len(heap') = n - 1
      BY <1>2, <2>2, <2>3, <3>3
    <3>5. ASSUME NEW y \in Items PROVE waiting'[y] = Count(heap', n - 1, y)
      <4>1. /\ Count(h, n - 1, y) \in Int /\ One(x, y) \in Int /\ One(heap[1], y) \in Int
        BY <1>3, <2>2, CountType
      <4> QED BY <1>4, <2>3, <2>5, <2>6, <3>1, <3>3, <4>1
    <3> QED BY <2>3, <2>5, <3>3, <3>4, <3>5 DEF QueueInv
  <2> QED BY <2>7, <2>8
<1>7. CASE UNCHANGED queueVars
  BY <1>7 DEF QueueInv, queueVars, IsHeap, Count
<1> QED BY <1>5, <1>6, <1>7 DEF QueueNext

(* priority.Queue hands out the best of what waits, for every number of    *)
(* items.                                                                  *)
THEOREM QueueIsByPriority == QueueSpec => []NextIsBest
<1>1. QueueInit => QueueInv
  <2> SUFFICES ASSUME QueueInit PROVE QueueInv
    OBVIOUS
  <2>1. heap = <<>> /\ heap \in Seq(Items) /\ Len(heap) = 0
    BY EmptySeq DEF QueueInit
  <2>2. \A x : Count(heap, 0, x) = 0
    <3> TAKE x
    <3>1. {i \in 1 .. 0 : heap[i] = x} = {}
      OBVIOUS
    <3> QED BY <3>1, FS_EmptySet DEF Count
  <2> QED BY <2>1, <2>2 DEF QueueInit, QueueInv, IsHeap
<1>2. QueueInv => NextIsBest
  <2> SUFFICES ASSUME QueueInv PROVE NextIsBest
    OBVIOUS
  <2>1. PICK n \in Nat : n = Len(heap) /\ heap \in [1 .. n -> Items]
    BY LenProperties DEF QueueInv
  <2>2. \A x \in Items : waiting[x] = Cardinality({i \in DOMAIN heap : heap[i] = x})
    BY <2>1 DEF QueueInv, Count
  <2>3. ASSUME heap # <<>>, NEW x \in Items, waiting[x] > 0
        PROVE  \/ x.priority < heap[1].priority
               \/ x.priority = heap[1].priority /\ heap[1].id <= x.id
    <3>1. n # 0 /\ 1 \in 1 .. n /\ heap[1] \in Items
      BY <2>1, <2>3, EmptySeq DEF QueueInv
    <3>2. PICK i \in 1 .. n : heap[i] = x
      <4>1. {j \in DOMAIN heap : heap[j] = x} # {}
        BY <2>2, <2>3, FS_EmptySet
      <4> QED BY <2>1, <4>1
    <3>3. ~Less(x, heap[1])
      <4>1. IsHeap(heap, n) /\ \A j \in 1 .. n : heap[j] \in Items
        BY <2>1 DEF QueueInv
      <4> QED BY <3>2, <4>1, FirstIsLeast
    <3>4. PICK p \in Int, q \in Int : x.priority = p /\ x.id = q
      BY QueueAssumption DEF Items
    <3>5. PICK r \in Int, s \in Int : heap[1].priority = r /\ heap[1].id = s
      BY <3>1, QueueAssumption DEF Items
    <3> QED BY <3>3, <3>4, <3>5 DEF Less
  <2> QED BY <2>2, <2>3 DEF NextIsBest
<1> QED BY <1>1, <1>2, QueueStep, PTL DEF QueueSpec
=============================================================================
