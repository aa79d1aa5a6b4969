----------------------------- MODULE WorkerPool -----------------------------
(***************************************************************************)
(* workerpool.Pool: a bounded channel of jobs, workers that select on the  *)
(* context, the done channel and the jobs, submitters that select on the   *)
(* same three, and callers of Stop, which closes done and waits for the    *)
(* workers.  A select with several ready cases takes any of them, so a     *)
(* Submit may be accepted after Stop and a worker may run jobs after it.   *)
(*                                                                         *)
(* Nothing keeps Start from being called again, during a Stop or after it. *)
(* The WaitGroup then counts workers that Wait may not wait for: it panics *)
(* if the counter has gone up again before a Wait that was woken returns   *)
(* (Add itself may, in the middle of the wake-up; the outcome is the same: *)
(* the process ends).                                                      *)
(***************************************************************************)
EXTENDS Integers, Sequences

CONSTANTS PoolWorkers,      \* bound: the workers all calls of Start launch
          Jobs, Stoppers,
          PoolSize, Queue   \* the arguments of New

(* A job is none of the values that stand for a worker without one.        *)
ASSUME WorkerPoolAssumption == Jobs \cap {"new", "select", "exited"} = {}

VARIABLES
  poolJobs,       \* the channel
  poolDone,       \* the done channel is closed
  poolCancelled,  \* the context of Start and of Submit is done
  poolWorker,     \* per worker: "new", "select", "exited", or the job it runs
  submit,         \* per job: "new", "ok" or "refused"
  stopper,        \* per Stop: "new", "closed" (done, before wg.Wait), "waits" (in it),
                  \*   "woken", "blocked" (on the Once), "returned" or "panicked"
  lateWorkers,    \* history: the workers started after done was closed
  accepted, ran   \* history: the jobs accepted, and those started, in order

poolVars == <<poolJobs, poolDone, poolCancelled, poolWorker, submit, stopper, lateWorkers, accepted, ran>>

(* New: the queue is never shorter than the number of workers.             *)
PoolCapacity ==
  LET n == IF PoolSize < 1 THEN 1 ELSE PoolSize IN IF Queue < n THEN n ELSE Queue

PoolInit ==
  /\ poolJobs = <<>> /\ accepted = <<>> /\ ran = <<>>
  /\ poolDone = FALSE /\ poolCancelled = FALSE /\ lateWorkers = {}
  /\ poolWorker = [w \in PoolWorkers |-> "new"]
  /\ submit = [j \in Jobs |-> "new"] /\ stopper = [s \in Stoppers |-> "new"]

(* The workers the WaitGroup counts.                                       *)
Counted_None == {}
Counted == {w \in PoolWorkers : poolWorker[w] \notin {"new", "exited"}}

(* An iteration of a Start: wg.Add and go.                                 *)
PoolStart(w) ==
  /\ poolWorker[w] = "new"
  /\ poolWorker' = [poolWorker EXCEPT ![w] = "select"]
  /\ lateWorkers' = IF poolDone THEN lateWorkers \cup {w} ELSE lateWorkers
  /\ UNCHANGED <<poolJobs, poolDone, poolCancelled, submit, stopper, accepted, ran>>

SubmitAccepted(j) ==
  /\ submit[j] = "new" /\ Len(poolJobs) < PoolCapacity
  /\ poolJobs' = Append(poolJobs, j) /\ accepted' = Append(accepted, j)
  /\ submit' = [submit EXCEPT ![j] = "ok"]
  /\ UNCHANGED <<poolDone, poolCancelled, poolWorker, stopper, lateWorkers, ran>>

SubmitRefused(j) ==
  /\ submit[j] = "new" /\ (poolDone \/ poolCancelled)
  /\ submit' = [submit EXCEPT ![j] = "refused"]
  /\ UNCHANGED <<poolJobs, poolDone, poolCancelled, poolWorker, stopper, lateWorkers, accepted, ran>>

TakeJob(w) ==
  /\ poolWorker[w] = "select" /\ poolJobs # <<>>
  /\ poolJobs' = Tail(poolJobs)
  /\ poolWorker' = [poolWorker EXCEPT ![w] = Head(poolJobs)] /\ ran' = Append(ran, Head(poolJobs))
  /\ UNCHANGED <<poolDone, poolCancelled, submit, stopper, lateWorkers, accepted>>

(* The job returns, its error is dropped.                                  *)
JobReturns(w) ==
  /\ poolWorker[w] \in Jobs /\ poolWorker' = [poolWorker EXCEPT ![w] = "select"]
  /\ UNCHANGED <<poolJobs, poolDone, poolCancelled, submit, stopper, lateWorkers, accepted, ran>>

(* Done or the context ends the worker; the last one wakes the Stop that   *)
(* waits.                                                                  *)
WorkerExits(w) ==
  /\ poolDone \/ poolCancelled
  /\ poolWorker[w] = "select" /\ poolWorker' = [poolWorker EXCEPT ![w] = "exited"]
  /\ stopper' = [s \in Stoppers |->
                   IF stopper[s] = "waits" /\ Counted = {w} THEN "woken" ELSE stopper[s]]
  /\ UNCHANGED <<poolJobs, poolDone, poolCancelled, submit, lateWorkers, accepted, ran>>

(* The first Stop runs the function of the Once, later ones wait for it.   *)
PoolStop(s) ==
  /\ stopper[s] = "new"
  /\ stopper' = [stopper EXCEPT ![s] = IF poolDone THEN "blocked" ELSE "closed"]
  /\ poolDone' = TRUE
  /\ UNCHANGED <<poolJobs, poolCancelled, poolWorker, submit, lateWorkers, accepted, ran>>

StopMoves(s, to) ==
  /\ stopper' = [stopper EXCEPT ![s] = to]
  /\ UNCHANGED <<poolJobs, poolDone, poolCancelled, poolWorker, submit, lateWorkers, accepted, ran>>

(* wg.Wait looks at the counter, and again when it was woken; a Stop that  *)
(* was blocked returns once the first one has.                             *)
PoolWaits(s) ==
  stopper[s] = "closed" /\ StopMoves(s, IF Counted = {} THEN "returned" ELSE "waits")

PoolWakes(s) ==
  stopper[s] = "woken" /\ StopMoves(s, IF Counted = {} THEN "returned" ELSE "panicked")

OnceReturns(s) ==
  /\ stopper[s] = "blocked" /\ \E t \in Stoppers : stopper[t] = "returned"
  /\ StopMoves(s, "returned")

PoolCancel ==
  /\ ~poolCancelled /\ poolCancelled' = TRUE
  /\ UNCHANGED <<poolJobs, poolDone, poolWorker, submit, stopper, lateWorkers, accepted, ran>>

(* A panic ends the process.                                               *)
Panicked == \E s \in Stoppers : stopper[s] = "panicked"

PoolNext ==
  /\ ~Panicked
  /\ \/ PoolCancel
     \/ \E j \in Jobs : SubmitAccepted(j) \/ SubmitRefused(j)
     \/ \E w \in PoolWorkers : PoolStart(w) \/ TakeJob(w) \/ JobReturns(w) \/ WorkerExits(w)
     \/ \E s \in Stoppers : PoolStop(s) \/ PoolWaits(s) \/ PoolWakes(s) \/ OnceReturns(s)

PoolSpec == PoolInit /\ [][PoolNext]_poolVars

(* Goroutines are scheduled, jobs return, and a select that can end the    *)
(* worker again and again does so (it chooses at random).                  *)
PoolFairness ==
  /\ \A w \in PoolWorkers : /\ WF_poolVars(~Panicked /\ (TakeJob(w) \/ JobReturns(w)))
                            /\ SF_poolVars(~Panicked /\ WorkerExits(w))
  /\ \A s \in Stoppers :
       WF_poolVars(~Panicked /\ (PoolWaits(s) \/ PoolWakes(s) \/ OnceReturns(s)))

-----------------------------------------------------------------------------
(* Jobs start in the order they were accepted and each at most once: what  *)
(* has started and what is queued is what was accepted.                    *)
JobsRunInOrder == accepted = ran \o poolJobs

(* Once a Stop has returned, the first call or any other one, no worker    *)
(* that was started before the Stop began is left: a job runs after that   *)
(* only on a worker of a Start that came during the Stop or after it.  And *)
(* only such a Start makes Stop panic.                                     *)
QuietAfterStop ==
  /\ (\E s \in Stoppers : stopper[s] = "returned") =>
        \A w \in PoolWorkers : poolWorker[w] \in Jobs \cup {"select"} => w \in lateWorkers
  /\ Panicked => lateWorkers # {}

(* An accepted job is run once the pool is started, unless it is stopped   *)
(* or cancelled; and every Stop returns, also while jobs are submitted and *)
(* workers started, unless one panics.                                     *)
PoolProgress ==
  /\ \A j \in Jobs : (submit[j] = "ok" /\ \E w \in PoolWorkers : poolWorker[w] # "new") ~>
       (poolDone \/ poolCancelled \/ \E i \in DOMAIN ran : ran[i] = j)
  /\ \A s \in Stoppers : (stopper[s] # "new") ~> (stopper[s] = "returned" \/ Panicked)

(* What Submit and Stop promise: accepted jobs start in order and once, and *)
(* after a Stop none runs on a worker that was started before it.          *)
PoolSound == JobsRunInOrder /\ QuietAfterStop
=============================================================================
