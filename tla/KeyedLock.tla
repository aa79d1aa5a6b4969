----------------------------- MODULE KeyedLock -----------------------------
(***************************************************************************)
(* locks.Keyed: a map from keys to channels of capacity one.  Acquire      *)
(* looks the channel up, or makes it, under the mutex, and then selects on *)
(* sending to it and on its context; a release receives.  A full channel   *)
(* has a queue of blocked senders, and a receive completes the send of the *)
(* first of them.  Every Acquire has a timeout, as WithTimeout gives it.   *)
(***************************************************************************)
EXTENDS Integers, SequencesExt

CONSTANTS Callers, LockKeys, Rounds     \* Rounds is a bound: calls of Acquire

ASSUME KeyedLockAssumption == Rounds \in Nat

Channels == 1 .. Rounds                 \* a call makes at most one

VARIABLES
  held,      \* key -> its channel, 0 if there is none
  full,      \* the channels with a token in them
  senders,   \* channel -> the callers blocked in a send, in order
  caller,    \* per caller: "idle", "found", "blocked", "holds"
  chan,      \* per caller: the channel it works on
  wants,     \* per caller: the key
  expired,   \* the callers whose context is done
  acquires      \* how many calls of Acquire were made

lockVars == <<held, full, senders, caller, chan, wants, expired, acquires>>

LockInit ==
  /\ held = [k \in LockKeys |-> 0] /\ full = {} /\ senders = [c \in Channels |-> <<>>]
  /\ caller = [g \in Callers |-> "idle"] /\ chan = [g \in Callers |-> 0]
  /\ wants = [g \in Callers |-> CHOOSE k \in LockKeys : TRUE] /\ expired = {} /\ acquires = 0

(* A channel for the key, made if there is none.                           *)
LookUp(g, k) == IF held[k] = 0 THEN acquires + 1 ELSE held[k]

Acquire(g, k) ==
  /\ caller[g] = "idle" /\ acquires < Rounds /\ acquires' = acquires + 1
  /\ held' = [held EXCEPT ![k] = LookUp(g, k)]
  /\ chan' = [chan EXCEPT ![g] = LookUp(g, k)]
  /\ caller' = [caller EXCEPT ![g] = "found"] /\ wants' = [wants EXCEPT ![g] = k]
  /\ expired' = expired \ {g}
  /\ UNCHANGED <<full, senders>>

(* The select: the send succeeds at once, or the caller blocks in it.      *)
Send(g) ==
  /\ caller[g] = "found"
  /\ IF chan[g] \in full
     THEN /\ caller' = [caller EXCEPT ![g] = "blocked"]
          /\ senders' = [senders EXCEPT ![chan[g]] = Append(@, g)]
          /\ UNCHANGED full
     ELSE /\ caller' = [caller EXCEPT ![g] = "holds"]
          /\ full' = full \cup {chan[g]}
          /\ UNCHANGED senders
  /\ UNCHANGED <<held, chan, wants, expired, acquires>>

(* The context ends the select, and takes the caller off the queue.        *)
GiveUp_StaysQueued(g) == UNCHANGED senders
GiveUp(g) ==
  senders' = [senders EXCEPT ![chan[g]] = RemoveFirst(@, g)]

TimeOut(g) ==
  /\ caller[g] \in {"found", "blocked"} /\ g \in expired
  /\ caller' = [caller EXCEPT ![g] = "idle"] /\ GiveUp(g)
  /\ UNCHANGED <<held, full, chan, wants, expired, acquires>>

(* The function Acquire returned, called once by its holder.               *)
Release_WakesNobody(g) ==
  /\ caller[g] = "holds" /\ caller' = [caller EXCEPT ![g] = "idle"]
  /\ full' = full \ {chan[g]}
  /\ UNCHANGED <<held, senders, chan, wants, expired, acquires>>
Release(g) ==
  LET queue == senders[chan[g]] IN
  /\ caller[g] = "holds"
  /\ IF queue = <<>>
     THEN /\ caller' = [caller EXCEPT ![g] = "idle"]
          /\ full' = full \ {chan[g]} /\ UNCHANGED senders
     ELSE /\ caller' = [[caller EXCEPT ![g] = "idle"] EXCEPT ![Head(queue)] = "holds"]
          /\ senders' = [senders EXCEPT ![chan[g]] = Tail(queue)] /\ UNCHANGED full
  /\ UNCHANGED <<held, chan, wants, expired, acquires>>

Expire(g) ==
  /\ caller[g] \in {"found", "blocked"} /\ g \notin expired
  /\ expired' = expired \cup {g}
  /\ UNCHANGED <<held, full, senders, caller, chan, wants, acquires>>

LockNext ==
  \E g \in Callers : \/ \E k \in LockKeys : Acquire(g, k)
                     \/ Send(g) \/ TimeOut(g) \/ Release(g) \/ Expire(g)

LockSpec == LockInit /\ [][LockNext]_lockVars

(* Goroutines are scheduled and holders release; that contexts expire is   *)
(* not assumed.                                                            *)
LockFairness ==
  \A g \in Callers : /\ WF_lockVars(Send(g) \/ TimeOut(g))
                     /\ WF_lockVars(Release(g))

-----------------------------------------------------------------------------
(* Two callers never hold the same key, although the channel of a key is   *)
(* looked up before and used after the mutex is released.                  *)
MutualExclusion ==
  \A g, h \in Callers :
    g # h /\ caller[g] = "holds" /\ caller[h] = "holds" => wants[g] # wants[h]

(* A timeout that races with a release loses no token and leaves none: a   *)
(* channel is full exactly while one caller holds it, and its queue is the *)
(* callers that still wait for it.                                         *)
NoLostLock ==
  /\ full = {chan[g] : g \in {x \in Callers : caller[x] = "holds"}}
  /\ \A c \in Channels :
       {senders[c][i] : i \in DOMAIN senders[c]}
         = {g \in Callers : caller[g] = "blocked" /\ chan[g] = c}

(* Every Acquire returns, with the lock or with an error, even if no       *)
(* context ever expires: the holders before it release.                    *)
AcquireReturns == \A g \in Callers : (caller[g] = "found") ~> (caller[g] \in {"holds", "idle"})

(* What Acquire promises: one holder of a key, and timeouts that lose no   *)
(* lock and leave none behind.                                             *)
LockSound == MutualExclusion /\ NoLostLock
=============================================================================
