------------------------------ MODULE Migration ------------------------------
(***************************************************************************)
(* The schema migrations of package repository/postgres: every server      *)
(* process runs them at startup, main exits if they fail, and several      *)
(* processes may start on one database.                                    *)
(*                                                                         *)
(* The migrations are 1 .. N in the order of their file names.  A process  *)
(* applies one in a transaction: execute the body, insert the version      *)
(* under a primary key, commit.  An insert waits for an uncommitted insert *)
(* of the same version and fails if that one commits.  Bodies may wait for *)
(* each other in the catalog as well; they only wait earlier for the same  *)
(* transaction.                                                            *)
(***************************************************************************)
EXTENDS Integers

CONSTANTS Procs,
          N,            \* the number of migrations
          MaxFaults     \* bound: database errors and crashes

ASSUME MigrationAssumption == N \in Nat /\ MaxFaults \in Nat

VARIABLES
  table,      \* schema_migrations exists
  history,    \* the versions in schema_migrations, committed
  effects,    \* how often the body of a version was committed
  pc, item,   \* per process: where it is and the migration it is at
  faults

vars == <<table, history, effects, pc, item, faults>>

Labels == {"prepare", "create", "inspect", "execute", "record", "commit",
           "serving", "failed"}

TypeOK ==
  /\ table \in BOOLEAN
  /\ history \subseteq 1 .. N
  /\ effects \in [1 .. N -> Nat]
  /\ pc \in [Procs -> Labels]
  /\ item \in [Procs -> 1 .. N + 1]
  /\ faults \in 0 .. MaxFaults

(* An empty database, or one that earlier releases migrated up to some     *)
(* version.                                                                *)
Init ==
  /\ \E k \in 0 .. N :
       /\ table \in BOOLEAN /\ (k > 0 => table)
       /\ history = 1 .. k
       /\ effects = [v \in 1 .. N |-> IF v <= k THEN 1 ELSE 0]
  /\ pc = [p \in Procs |-> "prepare"]
  /\ item = [p \in Procs |-> 1]
  /\ faults = 0

Goto(p, l) == pc' = [pc EXCEPT ![p] = l]

-----------------------------------------------------------------------------
(* CREATE TABLE IF NOT EXISTS looks for the table and creates it if it is  *)
(* not there; of two that find it missing the second one fails on the      *)
(* catalog's unique index.                                                 *)
EnsureVersionTable(p) ==
  /\ pc[p] = "prepare"
  /\ Goto(p, IF table THEN "inspect" ELSE "create")
  /\ UNCHANGED <<table, history, effects, item, faults>>

CreateVersionTable(p) ==
  /\ pc[p] = "create"
  /\ Goto(p, IF table THEN "failed" ELSE "inspect")
  /\ table' = TRUE
  /\ UNCHANGED <<history, effects, item, faults>>

(* The loop over the migrations is through.                                *)
AllDone_OneEarly(p) == item[p] >= N
AllDone(p) == item[p] > N

(* isApplied, outside of any transaction; after the last migration the     *)
(* server starts.                                                          *)
IsApplied(p) ==
  /\ pc[p] = "inspect"
  /\ \/ AllDone(p) /\ Goto(p, "serving") /\ UNCHANGED item
     \/ /\ ~AllDone(p) /\ item[p] \in history
        /\ item' = [item EXCEPT ![p] = @ + 1]
        /\ UNCHANGED pc
     \/ /\ ~AllDone(p) /\ item[p] \notin history
        /\ Goto(p, "execute")
        /\ UNCHANGED item
  /\ UNCHANGED <<table, history, effects, faults>>

ExecuteBody(p) ==
  /\ pc[p] = "execute"
  /\ Goto(p, "record")
  /\ UNCHANGED <<table, history, effects, item, faults>>

(* The processes whose transaction has inserted the version v.             *)
Recorded(v) == {q \in Procs : pc[q] = "commit" /\ item[q] = v}

RecordVersion_OnConflictDoNothing(p) ==
  /\ pc[p] = "record"
  /\ Recorded(item[p]) = {}
  /\ Goto(p, "commit")
  /\ UNCHANGED <<table, history, effects, item, faults>>
RecordVersion_RetriesConflict(p) ==
  /\ pc[p] = "record"
  /\ Recorded(item[p]) = {}
  /\ item[p] \notin history /\ Goto(p, "commit")
  /\ UNCHANGED <<table, history, effects, item, faults>>
RecordVersion(p) ==
  /\ pc[p] = "record"
  /\ Recorded(item[p]) = {}
  /\ Goto(p, IF item[p] \in history THEN "failed" ELSE "commit")
  /\ UNCHANGED <<table, history, effects, item, faults>>

CommitOf(p) ==
  /\ history' = history \cup {item[p]}
  /\ effects' = [effects EXCEPT ![item[p]] = @ + 1]

Commit(p) ==
  /\ pc[p] = "commit"
  /\ CommitOf(p)
  /\ item' = [item EXCEPT ![p] = @ + 1]
  /\ Goto(p, "inspect")
  /\ UNCHANGED <<table, faults>>

(* A statement fails, or the process dies: its transaction is rolled back. *)
Fault_Continues(p) ==
  /\ pc[p] \in {"execute", "record", "commit"}
  /\ faults < MaxFaults /\ faults' = faults + 1
  /\ Goto(p, "inspect")
  /\ item' = [item EXCEPT ![p] = @ + 1]
  /\ UNCHANGED <<table, history, effects>>
Fault(p) ==
  /\ pc[p] \notin {"serving", "failed"}
  /\ faults < MaxFaults /\ faults' = faults + 1
  /\ Goto(p, "failed")
  /\ UNCHANGED <<table, history, effects, item>>

(* The commit takes effect and its answer is lost.                         *)
CommitAnswerLost(p) ==
  /\ pc[p] = "commit"
  /\ faults < MaxFaults /\ faults' = faults + 1
  /\ CommitOf(p)
  /\ Goto(p, "failed")
  /\ UNCHANGED <<table, item>>

(* main exits with status 1; the operator starts it again.                 *)
Restart(p) ==
  /\ pc[p] = "failed"
  /\ Goto(p, "prepare")
  /\ item' = [item EXCEPT ![p] = 1]
  /\ UNCHANGED <<table, history, effects, faults>>

-----------------------------------------------------------------------------
Step(p) == \/ EnsureVersionTable(p) \/ CreateVersionTable(p) \/ IsApplied(p)
           \/ ExecuteBody(p) \/ RecordVersion(p) \/ Commit(p)

Next == \E p \in Procs : Step(p) \/ Fault(p) \/ CommitAnswerLost(p) \/ Restart(p)

Spec == Init /\ [][Next]_vars

(* A process keeps running and the database answers.  Nothing starts a     *)
(* process again that has exited: Restart may happen and need not.         *)
FairSpec == Spec /\ \A p \in Procs : WF_vars(Step(p))

-----------------------------------------------------------------------------
(* The body of a migration takes effect exactly once, when its version is  *)
(* recorded, however many startups race for it, fail and retry.            *)
AppliedOnce == \A v \in 1 .. N : effects[v] = IF v \in history THEN 1 ELSE 0

(* Migrations are applied in order: a version is recorded, or worked on,   *)
(* only after all smaller ones are recorded.                               *)
AppliedInOrder ==
  /\ \A v \in history : 1 .. v \subseteq history
  /\ \A p \in Procs : pc[p] \in {"execute", "record", "commit"} =>
                        1 .. (item[p] - 1) \subseteq history

(* A process serves requests only on the complete schema.                  *)
ServesOnFullSchema ==
  \A p \in Procs : pc[p] = "serving" => history = 1 .. N

(* Every startup comes to an end, in service or with an error, and waits   *)
(* for no other process for ever.  If no statement fails and no process    *)
(* dies, some process serves, nobody restarting any: the startups that     *)
(* race for a migration cannot all lose.  A startup that finds the schema  *)
(* complete fails only by a fault of its own or of another process.        *)
StartupsConclude ==
  /\ \A p \in Procs : pc[p] = "prepare" ~> pc[p] \in {"serving", "failed"}
  /\ [](faults = 0) => <>(\E p \in Procs : pc[p] = "serving")
  /\ \A p \in Procs, n \in 0 .. MaxFaults :
       (pc[p] = "prepare" /\ history = 1 .. N /\ faults = n)
         ~> (pc[p] = "serving" \/ faults > n)

(* The concurrent startup test wants every startup to succeed that no      *)
(* fault stops, on a database whose version table exists.                  *)
StartupsSucceed ==
  [][\A p \in Procs : /\ pc[p] \notin {"create", "failed"}
                      /\ pc'[p] = "failed"
                      => faults' > faults]_vars
=============================================================================
