---------------------------- MODULE MCGoroutines ----------------------------
(***************************************************************************)
(* The packages with goroutines, one instance of each for TLC.  They share *)
(* nothing, so a behaviour is one of one of them: the others do not move.  *)
(***************************************************************************)
EXTENDS WorkerPool, KeyedLock, Bulk, StreamBus, Retry

VARIABLE subject     \* the package that runs

vars == <<poolVars, lockVars, bulkVars, busVars, retryVars, subject>>

Init ==
  /\ PoolInit /\ LockInit /\ BulkInit /\ BusInit /\ RetryInit
  /\ subject \in {"pool", "lock", "bulk", "bus", "retry"}

Next ==
  /\ \/ subject = "pool"  /\ PoolNext  /\ UNCHANGED <<lockVars, bulkVars, busVars, retryVars>>
     \/ subject = "lock"  /\ LockNext  /\ UNCHANGED <<poolVars, bulkVars, busVars, retryVars>>
     \/ subject = "bulk"  /\ BulkNext  /\ UNCHANGED <<poolVars, lockVars, busVars, retryVars>>
     \/ subject = "bus"   /\ BusNext   /\ UNCHANGED <<poolVars, lockVars, bulkVars, retryVars>>
     \/ subject = "retry" /\ RetryNext /\ UNCHANGED <<poolVars, lockVars, bulkVars, busVars>>
  /\ UNCHANGED subject

(* What is fair in a package is disabled until one of its calls is made,   *)
(* so fairness asks nothing of the packages that do not move.              *)
Spec ==
  /\ Init /\ [][Next]_vars
  /\ PoolFairness /\ LockFairness
  /\ BulkFairness /\ BusFairness
  /\ RetryFairness

-----------------------------------------------------------------------------
(* Every call of these packages returns, whatever the others do: Stop, while *)
(* jobs are submitted, unless it panics; Acquire, although no context       *)
(* expires; Run, although its context ends in the middle; Subscribe and    *)
(* Unsubscribe, although subscribers do not read, unless a Publish whose   *)
(* context never ends stays before a full channel; Do.  And an accepted job *)
(* is run, unless the pool is stopped or cancelled.                        *)
CallsReturn ==
  PoolProgress /\ AcquireReturns /\ RunEnds /\ WritersProceed /\ RetryEnds
=============================================================================
