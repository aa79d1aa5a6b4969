--------------------------- MODULE MigrationProofs ---------------------------
(***************************************************************************)
(* Proofs about Migration, for every set of processes, every number of     *)
(* migrations and every number of faults.                                  *)
(***************************************************************************)
EXTENDS Migration, TLAPS

(* A process has come as far as its position says: everything before the   *)
(* migration it is at is recorded, it works only on an existing migration, *)
(* and it serves only after the last one.                                  *)
Progress ==
  \A p \in Procs :
    /\ pc[p] \in {"inspect", "execute", "record", "commit", "serving"} =>
         \A v \in 1 .. N : v < item[p] => v \in history
    /\ pc[p] \in {"execute", "record", "commit"} => item[p] <= N
    /\ pc[p] = "serving" => item[p] = N + 1
    /\ pc[p] \in {"prepare", "create"} => item[p] = 1

(* The primary key of schema_migrations: a version inserted and not yet    *)
(* committed is not in the table, and has one inserter.                    *)
OneInserter ==
  /\ \A p \in Procs : pc[p] = "commit" => item[p] \notin history
  /\ \A p, q \in Procs : pc[p] = "commit" /\ pc[q] = "commit" /\ item[p] = item[q]
                           => p = q

HistoryInOrder == \A v \in history : \A u \in 1 .. N : u <= v => u \in history

(* The inductive invariant.                                                *)
MigrationInv == TypeOK /\ Progress /\ OneInserter /\ HistoryInOrder /\ AppliedOnce

LEMMA InitMigration == Init => MigrationInv
<1> SUFFICES ASSUME Init PROVE MigrationInv
  OBVIOUS
<1>1. PICK k \in 0 .. N : /\ table \in BOOLEAN
                          /\ history = 1 .. k
                          /\ effects = [v \in 1 .. N |-> IF v <= k THEN 1 ELSE 0]
  BY DEF Init
<1>2. TypeOK
  BY <1>1, MigrationAssumption DEF Init, TypeOK, Labels
<1>3. Progress /\ OneInserter
  BY MigrationAssumption DEF Init, Progress, OneInserter
<1>4. HistoryInOrder /\ AppliedOnce
  BY <1>1, MigrationAssumption DEF HistoryInOrder, AppliedOnce
<1> QED BY <1>2, <1>3, <1>4 DEF MigrationInv

(* What a commit does to the table and to the count of effects.            *)
LEMMA CommitKeeps ==
  ASSUME MigrationInv, NEW p \in Procs, pc[p] = "commit", CommitOf(p),
         UNCHANGED table, faults' \in 0 .. MaxFaults
  PROVE  /\ history \subseteq history' /\ item[p] \in history'
         /\ history' \subseteq 1 .. N
         /\ effects' \in [1 .. N -> Nat]
         /\ HistoryInOrder' /\ AppliedOnce'
         /\ \A q \in Procs : pc[q] = "commit" /\ q # p => item[q] \notin history'
<1>1. item[p] \in 1 .. N /\ item[p] \notin history
  BY MigrationAssumption DEF MigrationInv, TypeOK, Progress, OneInserter
<1>2. history' = history \cup {item[p]}
  BY DEF CommitOf
<1>3. \A v \in 1 .. N : effects'[v] = IF v = item[p] THEN effects[v] + 1 ELSE effects[v]
  BY <1>1 DEF CommitOf, MigrationInv, TypeOK
<1>4. effects' \in [1 .. N -> Nat]
  BY <1>1 DEF CommitOf, MigrationInv, TypeOK
<1>5. AppliedOnce'
  BY <1>1, <1>2, <1>3 DEF MigrationInv, TypeOK, AppliedOnce
<1>6. HistoryInOrder'
  <2>1. \A v \in 1 .. N : v < item[p] => v \in history
    BY DEF MigrationInv, Progress
  <2> QED BY <1>1, <1>2, <2>1, MigrationAssumption
          DEF HistoryInOrder, MigrationInv
<1>7. \A q \in Procs : pc[q] = "commit" /\ q # p => item[q] \notin history'
  BY <1>2 DEF MigrationInv, OneInserter
<1> QED BY <1>1, <1>2, <1>4, <1>5, <1>6, <1>7 DEF MigrationInv, TypeOK

LEMMA MigrationStep == MigrationInv /\ [Next]_vars => MigrationInv'
<1> SUFFICES ASSUME MigrationInv, [Next]_vars PROVE MigrationInv'
  OBVIOUS
<1> USE MigrationAssumption
<1>0. CASE UNCHANGED vars
  BY <1>0 DEF vars, MigrationInv, TypeOK, Progress, OneInserter, HistoryInOrder, AppliedOnce
<1>a. /\ table \in BOOLEAN /\ history \subseteq 1 .. N /\ effects \in [1 .. N -> Nat]
      /\ pc \in [Procs -> Labels] /\ item \in [Procs -> 1 .. N + 1]
      /\ faults \in 0 .. MaxFaults
  BY DEF MigrationInv, TypeOK
(* A step that leaves the tables alone has only positions to account for.  *)
<1>b. ASSUME UNCHANGED <<history, effects>>, TypeOK', Progress', OneInserter'
      PROVE  MigrationInv'
  BY <1>b DEF MigrationInv, HistoryInOrder, AppliedOnce
<1>1. ASSUME NEW p \in Procs, EnsureVersionTable(p) PROVE MigrationInv'
  BY <1>1, <1>a, <1>b DEF EnsureVersionTable, Goto, MigrationInv, TypeOK, Labels,
                          Progress, OneInserter
<1>2. ASSUME NEW p \in Procs, CreateVersionTable(p) PROVE MigrationInv'
  BY <1>2, <1>a, <1>b DEF CreateVersionTable, Goto, MigrationInv, TypeOK, Labels,
                          Progress, OneInserter
<1>3. ASSUME NEW p \in Procs, IsApplied(p) PROVE MigrationInv'
  <2>1. CASE AllDone(p) /\ Goto(p, "serving") /\ UNCHANGED item
    BY <1>3, <2>1, <1>a, <1>b DEF IsApplied, AllDone, Goto, MigrationInv, TypeOK, Labels,
                                  Progress, OneInserter
  <2>2. CASE /\ ~AllDone(p) /\ item[p] \in history
             /\ item' = [item EXCEPT ![p] = @ + 1] /\ UNCHANGED pc
    <3>1. TypeOK'
      BY <1>3, <2>2, <1>a DEF IsApplied, AllDone, TypeOK
    <3>2. Progress' /\ OneInserter'
      BY <1>3, <2>2, <1>a DEF IsApplied, MigrationInv, AllDone, Progress, OneInserter
    <3> QED BY <1>3, <1>b, <3>1, <3>2 DEF IsApplied
  <2>3. CASE /\ ~AllDone(p) /\ item[p] \notin history
             /\ Goto(p, "execute") /\ UNCHANGED item
    BY <1>3, <2>3, <1>a, <1>b DEF IsApplied, AllDone, Goto, MigrationInv, TypeOK, Labels,
                                  Progress, OneInserter
  <2> QED BY <1>3, <2>1, <2>2, <2>3 DEF IsApplied
<1>4. ASSUME NEW p \in Procs, ExecuteBody(p) PROVE MigrationInv'
  BY <1>4, <1>a, <1>b DEF ExecuteBody, Goto, MigrationInv, TypeOK, Labels,
                          Progress, OneInserter
<1>5. ASSUME NEW p \in Procs, RecordVersion(p) PROVE MigrationInv'
  <2>1. TypeOK' /\ Progress'
    BY <1>5, <1>a DEF RecordVersion, Goto, MigrationInv, TypeOK, Labels, Progress
  <2>2. OneInserter'
    <3>1. \A q \in Procs : pc[q] = "commit" => item[q] # item[p]
      BY <1>5 DEF RecordVersion, Recorded
    <3> QED BY <1>5, <3>1, <1>a DEF RecordVersion, Goto, MigrationInv, OneInserter
  <2> QED BY <1>5, <1>b, <2>1, <2>2 DEF RecordVersion
<1>6. ASSUME NEW p \in Procs, Commit(p) PROVE MigrationInv'
  <2>1. /\ pc[p] = "commit" /\ CommitOf(p) /\ UNCHANGED table /\ faults' \in 0 .. MaxFaults
        /\ item' = [item EXCEPT ![p] = @ + 1] /\ pc' = [pc EXCEPT ![p] = "inspect"]
    BY <1>6, <1>a DEF Commit, Goto
  <2>2. /\ history \subseteq history' /\ item[p] \in history' /\ history' \subseteq 1 .. N
        /\ effects' \in [1 .. N -> Nat] /\ HistoryInOrder' /\ AppliedOnce'
        /\ \A q \in Procs : pc[q] = "commit" /\ q # p => item[q] \notin history'
    BY <2>1, CommitKeeps
  <2>3. item[p] \in 1 .. N
    BY <2>1, <1>a DEF MigrationInv, Progress
  <2>4. item' \in [Procs -> 1 .. N + 1] /\ pc' \in [Procs -> Labels]
    BY <2>1, <2>3, <1>a DEF Labels
  <2>5. TypeOK'
    BY <2>1, <2>2, <2>4, <1>a DEF TypeOK
  <2>6. Progress'
    <3>1. \A v \in 1 .. N : v < item[p] + 1 => v \in history'
      BY <2>1, <2>2, <2>3 DEF MigrationInv, Progress
    <3>2. /\ pc'[p] = "inspect" /\ item'[p] = item[p] + 1
          /\ \A q \in Procs : q # p => pc'[q] = pc[q] /\ item'[q] = item[q]
      BY <2>1, <1>a
    <3> QED BY <2>2, <3>1, <3>2 DEF MigrationInv, Progress
  <2>7. OneInserter'
    BY <2>1, <2>2, <1>a DEF MigrationInv, OneInserter
  <2> QED BY <2>2, <2>5, <2>6, <2>7 DEF MigrationInv
<1>7. ASSUME NEW p \in Procs, Fault(p) PROVE MigrationInv'
  BY <1>7, <1>a, <1>b DEF Fault, Goto, MigrationInv, TypeOK, Labels, Progress, OneInserter
<1>8. ASSUME NEW p \in Procs, CommitAnswerLost(p) PROVE MigrationInv'
  <2>1. /\ pc[p] = "commit" /\ CommitOf(p) /\ UNCHANGED <<table, item>>
        /\ faults' \in 0 .. MaxFaults /\ pc' = [pc EXCEPT ![p] = "failed"]
    BY <1>8, <1>a DEF CommitAnswerLost, Goto
  <2>2. /\ history \subseteq history' /\ history' \subseteq 1 .. N
        /\ effects' \in [1 .. N -> Nat] /\ HistoryInOrder' /\ AppliedOnce'
        /\ \A q \in Procs : pc[q] = "commit" /\ q # p => item[q] \notin history'
    BY <2>1, CommitKeeps
  <2>3. TypeOK'
    BY <2>1, <2>2, <1>a DEF TypeOK, Labels
  <2>4. Progress' /\ OneInserter'
    BY <2>1, <2>2, <1>a DEF MigrationInv, Progress, OneInserter
  <2> QED BY <2>2, <2>3, <2>4 DEF MigrationInv
<1>9. ASSUME NEW p \in Procs, Restart(p) PROVE MigrationInv'
  BY <1>9, <1>a, <1>b DEF Restart, Goto, MigrationInv, TypeOK, Labels, Progress, OneInserter
<1> QED BY <1>0, <1>1, <1>2, <1>3, <1>4, <1>5, <1>6, <1>7, <1>8, <1>9 DEF Next, Step

LEMMA MigrationInvariance == Spec => []MigrationInv
BY InitMigration, MigrationStep, PTL DEF Spec

(* The body of a migration takes effect exactly once, when its version is  *)
(* recorded, however many startups race for it, fail and retry.            *)
THEOREM MigrationsApplyOnce == Spec => []AppliedOnce
<1>1. MigrationInv => AppliedOnce
  BY DEF MigrationInv
<1> QED BY <1>1, MigrationInvariance, PTL

(* Versions are recorded in the order of the migrations, and a process     *)
(* works on one only when all smaller ones are recorded.                   *)
THEOREM MigrationsApplyInOrder == Spec => []AppliedInOrder
<1>1. MigrationInv => AppliedInOrder
  <2> SUFFICES ASSUME MigrationInv PROVE AppliedInOrder
    OBVIOUS
  <2>1. \A v \in history : 1 .. v \subseteq history
    BY MigrationAssumption DEF MigrationInv, TypeOK, HistoryInOrder
  <2>2. \A p \in Procs : pc[p] \in {"execute", "record", "commit"} =>
                           1 .. (item[p] - 1) \subseteq history
    BY MigrationAssumption DEF MigrationInv, TypeOK, Progress
  <2> QED BY <2>1, <2>2 DEF AppliedInOrder
<1> QED BY <1>1, MigrationInvariance, PTL

(* A server process that serves has every migration in its database.       *)
THEOREM ServersSeeFullSchema == Spec => []ServesOnFullSchema
<1>1. MigrationInv => ServesOnFullSchema
  <2> SUFFICES ASSUME MigrationInv, NEW p \in Procs, pc[p] = "serving"
               PROVE  history = 1 .. N
    BY DEF ServesOnFullSchema
  <2>1. \A v \in 1 .. N : v \in history
    BY MigrationAssumption DEF MigrationInv, Progress
  <2>2. \A v \in history : v \in 1 .. N
    BY DEF MigrationInv, TypeOK
  <2> QED BY <2>1, <2>2
<1> QED BY <1>1, MigrationInvariance, PTL
=============================================================================
