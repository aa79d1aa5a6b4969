------------------------------- MODULE Outbox -------------------------------
(***************************************************************************)
(* The outbox table and worker.OutboxRunner, one runner per server process *)
(* on a shared table.  A runner claims a batch, and publishes and marks    *)
(* its events one by one; processes are shut down, crash and are started   *)
(* again between any two steps.                                            *)
(*                                                                         *)
(* The backend is chosen at the start: Postgres refuses calls whose        *)
(* context is done, the memory store (used by tests) ignores the context.  *)
(* Time is relative: delay[e] is how long event e is not yet available.    *)
(***************************************************************************)
EXTENDS Integers, FiniteSets

CONSTANTS Events,
          Runners,
          Backends,       \* the stores to run on: "postgres", "memory"
          Batch,          \* events per claim, 20 in the code
          MaxDelay,       \* bound: how far ahead an event is enqueued
          MaxAttempts,    \* bound: claims of an event by a cancelled runner
          MaxShutdowns,   \* bound: SIGTERMs
          MaxFaults       \* bound: crashes and lost database answers

ASSUME OutboxAssumption ==
  /\ Backends \subseteq {"postgres", "memory"}
  /\ Batch \in Nat \ {0}
  /\ MaxDelay \in Nat /\ MaxAttempts \in Nat /\ MaxShutdowns \in Nat /\ MaxFaults \in Nat

VARIABLES
  queued, claimed, published,  \* the rows: enqueued, claimed_at and published_at set
  attempts, delay,
  pc,          \* per runner: "stopped", "wait", "batch", "sent" or "failed"
  todo,        \* per runner: the events of its batch not yet handled
  current,     \* per runner: the event being marked
  cancelled,   \* per runner: its context is done
  sent,        \* history: how often an event was handed to the airline systems
  shutdowns, faults,
  backend

table == <<queued, claimed, published, attempts, delay>>
runner == <<pc, todo, current, cancelled>>
state == <<table, runner, sent, shutdowns, faults>>
vars == <<state, backend>>

TypeOK ==
  /\ queued \subseteq Events /\ claimed \subseteq Events /\ published \subseteq Events
  /\ attempts \in [Events -> Nat] /\ delay \in [Events -> Nat]
  /\ pc \in [Runners -> {"stopped", "wait", "batch", "sent", "failed"}]
  /\ todo \in [Runners -> SUBSET Events]
  /\ current \in [Runners -> SUBSET Events]
  /\ cancelled \subseteq Runners
  /\ sent \in [Events -> Nat]
  /\ shutdowns \in 0 .. MaxShutdowns /\ faults \in 0 .. MaxFaults
  /\ backend \in Backends

Init ==
  /\ queued = {} /\ claimed = {} /\ published = {}
  /\ attempts = [e \in Events |-> 0] /\ delay = [e \in Events |-> 0]
  /\ pc = [p \in Runners |-> "wait"]
  /\ todo = [p \in Runners |-> {}] /\ current = [p \in Runners |-> {}]
  /\ cancelled = {}
  /\ sent = [e \in Events |-> 0]
  /\ shutdowns = 0 /\ faults = 0
  /\ backend \in Backends

-----------------------------------------------------------------------------
(* The store.                                                              *)

Enqueue(e) ==
  /\ e \notin queued
  /\ queued' = queued \cup {e}
  /\ \E d \in 0 .. MaxDelay : delay' = [delay EXCEPT ![e] = d]
  /\ UNCHANGED <<claimed, published, attempts, runner, sent, shutdowns, faults>>

Ready_IgnoreClaims == {e \in queued \ published : delay[e] = 0}
Ready == {e \in (queued \ published) \ claimed : delay[e] = 0}

(* Postgres skips the rows that another claim has locked, so it may return *)
(* fewer than fit.                                                         *)
PostgresPicks == {S \in SUBSET Ready : S # {} /\ Cardinality(S) <= Batch}

(* The memory store takes as many as fit, in no order.                     *)
MemoryPicks == {S \in PostgresPicks : S = Ready \/ Cardinality(S) = Batch}

Picks == IF backend = "postgres" THEN PostgresPicks ELSE MemoryPicks

StoreClaim(S) ==
  /\ claimed' = claimed \cup S
  /\ attempts' = [e \in Events |-> attempts[e] + (IF e \in S THEN 1 ELSE 0)]
  /\ UNCHANGED <<queued, published, delay>>

StoreAccepts(p) == backend = "memory" \/ p \notin cancelled

(* Postgres clears claimed_at.                                             *)
StoreMarkPublished_OnlyUnclaims(e) ==
  /\ claimed' = claimed \ {e}
  /\ UNCHANGED <<queued, published, attempts, delay>>
StoreMarkPublished(e) ==
  /\ published' = published \cup {e}
  /\ claimed' = claimed \ {e}
  /\ UNCHANGED <<queued, attempts, delay>>

(* The memory store leaves it set.                                         *)
MemoryMarkPublished(e) ==
  /\ published' = published \cup {e}
  /\ UNCHANGED <<queued, claimed, attempts, delay>>

(* available_at counts from the tick that claimed the event, some time ago *)
StoreMarkFailed(e) ==
  /\ claimed' = claimed \ {e}
  /\ \E d \in 0 .. 1 : delay' = [delay EXCEPT ![e] = d]
  /\ UNCHANGED <<queued, published, attempts>>

(* and in the memory store it grows with the attempts.                     *)
MemoryMarkFailed(e) ==
  /\ claimed' = claimed \ {e}
  /\ \E d \in 0 .. attempts[e] : delay' = [delay EXCEPT ![e] = d]
  /\ UNCHANGED <<queued, published, attempts>>

-----------------------------------------------------------------------------
(* The runner.                                                             *)

(* With its context done, the select may still choose the tick over the    *)
(* end of Run.                                                             *)
Claim(p) ==
  /\ pc[p] = "wait" /\ StoreAccepts(p)
  /\ \E S \in Picks :
       /\ p \in cancelled => \A e \in S : attempts[e] < MaxAttempts
       /\ StoreClaim(S)
       /\ todo' = [todo EXCEPT ![p] = S]
  /\ pc' = [pc EXCEPT ![p] = "batch"]
  /\ UNCHANGED <<current, cancelled, sent, shutdowns, faults>>

(* The claim commits and its answer is lost: the runner logs and waits for *)
(* the next tick.                                                          *)
ClaimAnswerLost(p) ==
  /\ pc[p] = "wait" /\ StoreAccepts(p) /\ backend = "postgres"
  /\ faults < MaxFaults /\ faults' = faults + 1
  /\ \E S \in Picks : StoreClaim(S)
  /\ UNCHANGED <<runner, sent, shutdowns>>

(* publish fails only if the context is done.                              *)
Publish(p) ==
  /\ pc[p] = "batch"
  /\ \E e \in todo[p] :
       /\ current' = [current EXCEPT ![p] = {e}]
       /\ todo' = [todo EXCEPT ![p] = @ \ {e}]
       /\ IF p \in cancelled
          THEN pc' = [pc EXCEPT ![p] = "failed"] /\ UNCHANGED sent
          ELSE /\ pc' = [pc EXCEPT ![p] = "sent"]
               /\ sent' = [sent EXCEPT ![e] = @ + 1]
  /\ UNCHANGED <<table, cancelled, shutdowns, faults>>

AfterMark_DropsBatch(p) ==
  /\ pc' = [pc EXCEPT ![p] = "wait"]
  /\ current' = [current EXCEPT ![p] = {}]
  /\ UNCHANGED <<todo, cancelled, sent, shutdowns>>
AfterMark(p) ==
  /\ pc' = [pc EXCEPT ![p] = IF todo[p] = {} THEN "wait" ELSE "batch"]
  /\ current' = [current EXCEPT ![p] = {}]
  /\ UNCHANGED <<todo, cancelled, sent, shutdowns>>

MarkPublished(p) ==
  /\ pc[p] = "sent" /\ StoreAccepts(p)
  /\ \E e \in current[p] : IF backend = "postgres" THEN StoreMarkPublished(e)
                         ELSE MemoryMarkPublished(e)
  /\ AfterMark(p)
  /\ UNCHANGED faults

MarkFailed(p) ==
  /\ pc[p] = "failed" /\ StoreAccepts(p)
  /\ \E e \in current[p] : IF backend = "postgres" THEN StoreMarkFailed(e)
                         ELSE MemoryMarkFailed(e)
  /\ AfterMark(p)
  /\ UNCHANGED faults

(* The store refuses the mark, or fails: the error is dropped.             *)
MarkRefused(p) ==
  /\ pc[p] \in {"sent", "failed"}
  /\ \/ ~StoreAccepts(p) /\ UNCHANGED faults
     \/ /\ StoreAccepts(p) /\ backend = "postgres"
        /\ faults < MaxFaults /\ faults' = faults + 1
  /\ AfterMark(p)
  /\ UNCHANGED table

(* Run returns when it is back in its select.                              *)
Stop(p) ==
  /\ pc[p] = "wait" /\ p \in cancelled
  /\ pc' = [pc EXCEPT ![p] = "stopped"]
  /\ UNCHANGED <<table, todo, current, cancelled, sent, shutdowns, faults>>

-----------------------------------------------------------------------------
(* The process: SIGTERM cancels the context main gave the runner; a crash  *)
(* ends the runner anywhere; the process is started again.                 *)

Shutdown(p) ==
  /\ pc[p] # "stopped" /\ p \notin cancelled
  /\ shutdowns < MaxShutdowns /\ shutdowns' = shutdowns + 1
  /\ cancelled' = cancelled \cup {p}
  /\ UNCHANGED <<table, pc, todo, current, sent, faults>>

Crash(p) ==
  /\ pc[p] # "stopped" /\ backend = "postgres"
  /\ faults < MaxFaults /\ faults' = faults + 1
  /\ pc' = [pc EXCEPT ![p] = "stopped"]
  /\ todo' = [todo EXCEPT ![p] = {}] /\ current' = [current EXCEPT ![p] = {}]
  /\ UNCHANGED <<table, cancelled, sent, shutdowns>>

Start(p) ==
  /\ pc[p] = "stopped"
  /\ pc' = [pc EXCEPT ![p] = "wait"]
  /\ cancelled' = cancelled \ {p}
  /\ UNCHANGED <<table, todo, current, sent, shutdowns, faults>>

TimePasses ==
  /\ \E e \in Events : delay[e] > 0
  /\ delay' = [e \in Events |-> IF delay[e] > 0 THEN delay[e] - 1 ELSE 0]
  /\ UNCHANGED <<queued, claimed, published, attempts, runner, sent, shutdowns, faults>>

-----------------------------------------------------------------------------
Work(p) == \/ Claim(p) \/ Publish(p) \/ MarkPublished(p) \/ MarkFailed(p)
           \/ MarkRefused(p) \/ Stop(p)

Next ==
  /\ \/ \E e \in Events : Enqueue(e)
     \/ \E p \in Runners : \/ Work(p) \/ ClaimAnswerLost(p)
                           \/ Shutdown(p) \/ Crash(p) \/ Start(p)
     \/ TimePasses
  /\ UNCHANGED backend

Spec == Init /\ [][Next]_vars

(* The ticker fires and the goroutine is scheduled, a select with the      *)
(* context done ends the loop sooner or later (it chooses at random), time *)
(* passes, and a stopped process is started again.                         *)
Fairness ==
  /\ \A p \in Runners : WF_state(Work(p)) /\ SF_state(Stop(p)) /\ WF_state(Start(p))
  /\ WF_state(TimePasses)

FairSpec == Spec /\ Fairness

-----------------------------------------------------------------------------
Holds(p) == todo[p] \cup current[p]

(* A claimed event belongs to one runner: however claims, failures and     *)
(* restarts interleave, no two runners have the same event in hand, and    *)
(* what a runner has in hand is claimed and not published.                 *)
ExclusiveClaim ==
  /\ \A p, q \in Runners : p # q => Holds(p) \cap Holds(q) = {}
  /\ \A p \in Runners : /\ Holds(p) \subseteq claimed \ published
                        /\ todo[p] \cap current[p] = {}

(* No event is published twice, not even after a lost mark, a crash or a   *)
(* restart, and the table never says an event was published that was not.  *)
AtMostOncePublish ==
  \A e \in Events : sent[e] <= 1 /\ (e \in published => sent[e] = 1)

(* Every event enqueued is marked published in the end, unless a fault or, *)
(* on Postgres, a shutdown comes in between: then nothing gives a claim    *)
(* back.                                                                   *)
EventuallyPublished ==
  \A e \in Events :
    (e \in queued) ~> \/ e \in published
                      \/ faults > 0
                      \/ backend = "postgres" /\ shutdowns > 0

(* README: outbox events are durable: an event enqueued reaches the        *)
(* downstream systems, a restart of the process in between or not.         *)
DurableDelivery == \A e \in Events : (e \in queued) ~> (sent[e] > 0)
=============================================================================
