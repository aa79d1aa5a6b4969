-------------------------------- MODULE Bulk --------------------------------
(***************************************************************************)
(* One Run of bulk.Processor: the caller hands the indices of the values   *)
(* to the workers over an unbuffered channel, or drops an index when its   *)
(* context is done; a worker reads the flag cancelled under the mutex,     *)
(* calls Handle or not, and sends one result.  The channel of results has  *)
(* room for all of them.                                                   *)
(***************************************************************************)
EXTENDS Integers, Sequences, FiniteSets

CONSTANTS BulkWorkers, Values,     \* the values are 1 .. Values
          StopOnError

(* Run makes at least one worker.                                          *)
ASSUME BulkAssumption ==
  Values \in Nat /\ IsFiniteSet(BulkWorkers) /\ BulkWorkers # {} /\ StopOnError \in BOOLEAN

VARIABLES
  index,         \* the caller: the index it hands out next, 0 before, Values + 2 after Run
  ctxDone,       \* the context of the call is done
  cancelled,     \* the flag of Run
  bulkWorker,    \* per worker: "idle", "got", "go", "skip", "ok", "failed", "exited"
  bulkJob,       \* per worker: the index it works on
  results,       \* the results sent: <<index, "ok" | "failed" | "skip">>
  late           \* history: Handle calls begun after cancelled was set

bulkVars == <<index, ctxDone, cancelled, bulkWorker, bulkJob, results, late>>

BulkInit ==
  /\ index = 0 /\ ctxDone = FALSE /\ cancelled = FALSE
  /\ bulkWorker = [w \in BulkWorkers |-> "idle"] /\ bulkJob = [w \in BulkWorkers |-> 0]
  /\ results = <<>> /\ late = 0

BulkRun ==
  /\ index = 0 /\ index' = 1
  /\ UNCHANGED <<ctxDone, cancelled, bulkWorker, bulkJob, results, late>>

Dispatch(w) ==
  /\ index \in 1 .. Values /\ bulkWorker[w] = "idle"
  /\ bulkWorker' = [bulkWorker EXCEPT ![w] = "got"] /\ bulkJob' = [bulkJob EXCEPT ![w] = index]
  /\ index' = index + 1
  /\ UNCHANGED <<ctxDone, cancelled, results, late>>

(* The select took the context: the flag is set and the index dropped.     *)
DropIndex ==
  /\ index \in 1 .. Values /\ ctxDone
  /\ cancelled' = TRUE /\ index' = index + 1
  /\ UNCHANGED <<ctxDone, bulkWorker, bulkJob, results, late>>

ReadFlag_Never(w) ==
  /\ bulkWorker[w] = "got"
  /\ bulkWorker' = [bulkWorker EXCEPT ![w] = "go"]
  /\ UNCHANGED <<index, ctxDone, cancelled, bulkJob, results, late>>
ReadFlag(w) ==
  /\ bulkWorker[w] = "got"
  /\ bulkWorker' = [bulkWorker EXCEPT ![w] = IF cancelled THEN "skip" ELSE "go"]
  /\ UNCHANGED <<index, ctxDone, cancelled, bulkJob, results, late>>

(* Handle begins, and ends in an error or not.                             *)
Handle(w) ==
  /\ bulkWorker[w] = "go"
  /\ \E end \in {"ok", "failed"} : bulkWorker' = [bulkWorker EXCEPT ![w] = end]
  /\ late' = late + (IF cancelled THEN 1 ELSE 0)
  /\ UNCHANGED <<index, ctxDone, cancelled, bulkJob, results>>

AfterResult(w) ==
  [bulkWorker EXCEPT ![w] =
     IF bulkWorker[w] = "failed" /\ StopOnError THEN "stop" ELSE "idle"]

SendResult(w) ==
  /\ bulkWorker[w] \in {"ok", "failed", "skip"}
  /\ results' = Append(results, <<bulkJob[w], bulkWorker[w]>>)
  /\ bulkWorker' = AfterResult(w)
  /\ UNCHANGED <<index, ctxDone, cancelled, bulkJob, late>>

SetFlag(w) ==
  /\ bulkWorker[w] = "stop" /\ bulkWorker' = [bulkWorker EXCEPT ![w] = "idle"]
  /\ cancelled' = TRUE
  /\ UNCHANGED <<index, ctxDone, bulkJob, results, late>>

(* jobs is closed after the last index: the range ends.                    *)
RangeEnds(w) ==
  /\ index > Values /\ bulkWorker[w] = "idle"
  /\ bulkWorker' = [bulkWorker EXCEPT ![w] = "exited"]
  /\ UNCHANGED <<index, ctxDone, cancelled, bulkJob, results, late>>

RunReturns ==
  /\ index = Values + 1 /\ \A w \in BulkWorkers : bulkWorker[w] = "exited"
  /\ index' = index + 1
  /\ UNCHANGED <<ctxDone, cancelled, bulkWorker, bulkJob, results, late>>

BulkCancel ==
  /\ ~ctxDone /\ ctxDone' = TRUE
  /\ UNCHANGED <<index, cancelled, bulkWorker, bulkJob, results, late>>

BulkStep ==
  \/ DropIndex \/ RunReturns
  \/ \E w \in BulkWorkers : \/ Dispatch(w) \/ ReadFlag(w) \/ Handle(w)
                            \/ SendResult(w) \/ SetFlag(w) \/ RangeEnds(w)

BulkNext == BulkRun \/ BulkStep \/ BulkCancel

BulkSpec == BulkInit /\ [][BulkNext]_bulkVars

(* Goroutines are scheduled and Handle returns.                            *)
BulkFairness == WF_bulkVars(BulkStep)

-----------------------------------------------------------------------------
(* When Run returns, no index has two results, and every index has one if  *)
(* the context was never done, failures and StopOnError notwithstanding.   *)
OneResultEach ==
  index = Values + 2 =>
    LET indices == {results[i][1] : i \in DOMAIN results} IN
    /\ Cardinality(indices) = Len(results)
    /\ ~ctxDone => indices = 1 .. Values

(* After the first failure with StopOnError each of the other workers      *)
(* begins at most the one Handle it had checked the flag for before; after *)
(* a dropped index each worker does.                                       *)
StopsSoon == late <= Cardinality(BulkWorkers) - (IF ctxDone THEN 0 ELSE 1)

(* Run returns.                                                            *)
RunEnds == (index = 1) ~> (index = Values + 2)

(* What Run promises: one result for an index, and a failure stops it soon. *)
BulkSound == OneResultEach /\ StopsSoon
=============================================================================
