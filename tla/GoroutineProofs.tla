--------------------------- MODULE GoroutineProofs ---------------------------
(***************************************************************************)
(* Proofs about the packages with goroutines: WorkerPool, Bulk, StreamBus, *)
(* Retry and KeyedLock, for every set of workers, jobs, publishers,        *)
(* subscribers, callers and keys and every number of values and attempts.  *)
(***************************************************************************)
EXTENDS WorkerPool, Bulk, StreamBus, Retry, KeyedLock, SetLemmas, SequenceTheorems, TLAPS

-----------------------------------------------------------------------------
(* A channel and what was taken from it, end to end: an append to the      *)
(* channel is one to the whole, and moving the head changes nothing.       *)
LEMMA ConcatAppend ==
  ASSUME NEW S, NEW a \in Seq(S), NEW q \in Seq(S), NEW e \in S
  PROVE  a \o Append(q, e) = Append(a \o q, e)
<1>1. <<e>> \in Seq(S) /\ a \o q \in Seq(S)
  BY ConcatProperties
<1>2. Append(q, e) = q \o <<e>> /\ Append(a \o q, e) = (a \o q) \o <<e>>
  BY <1>1, AppendIsConcat
<1> QED BY <1>1, <1>2, ConcatAssociative

LEMMA HeadMoves ==
  ASSUME NEW S, NEW a \in Seq(S), NEW q \in Seq(S), q # <<>>
  PROVE  Append(a, Head(q)) \o Tail(q) = a \o q
<1>1. /\ Head(q) \in S /\ Tail(q) \in Seq(S) /\ <<Head(q)>> \in Seq(S)
      /\ Len(q) \in Nat \ {0}
  BY HeadTailProperties, EmptySeq
<1>2. Append(a, Head(q)) = a \o <<Head(q)>>
  BY <1>1, AppendIsConcat
<1>3. <<Head(q)>> \o Tail(q) = q
  <2> DEFINE t == <<Head(q)>> \o Tail(q)
  <2>1. /\ t \in Seq(S) /\ Len(t) = 1 + (Len(q) - 1)
        /\ \A i \in 1 .. 1 + (Len(q) - 1) : t[i] = IF i <= 1 THEN <<Head(q)>>[i] ELSE Tail(q)[i - 1]
    BY <1>1, ConcatProperties, HeadTailProperties
  <2>2. \A i \in 1 .. Len(q) - 1 : Tail(q)[i] = q[i + 1]
    BY HeadTailProperties
  <2>3. <<Head(q)>>[1] = q[1]
    BY <1>1
  <2> HIDE DEF t
  <2>4. Len(t) = Len(q)
    BY <1>1, <2>1
  <2>5. ASSUME NEW i \in 1 .. Len(q) PROVE t[i] = q[i]
    <3>1. i \in 1 .. 1 + (Len(q) - 1)
      BY <1>1
    <3>2. CASE i = 1
      BY <2>1, <2>3, <3>1, <3>2
    <3>3. CASE i # 1
      <4>1. i - 1 \in 1 .. Len(q) - 1 /\ (i - 1) + 1 = i /\ ~(i <= 1)
        BY <1>1, <3>3
      <4> QED BY <2>1, <2>2, <3>1, <4>1
    <3> QED BY <3>2, <3>3
  <2> QED BY <2>1, <2>4, <2>5, SeqEqual DEF t
<1> QED BY <1>1, <1>2, <1>3, ConcatAssociative

-----------------------------------------------------------------------------
(* The worker pool.                                                        *)

PoolTypeOK ==
  /\ poolJobs \in Seq(Jobs) /\ ran \in Seq(Jobs)
  /\ poolDone \in BOOLEAN
  /\ poolWorker \in [PoolWorkers -> Jobs \cup {"new", "select", "exited"}]
  /\ stopper \in [Stoppers -> {"new", "closed", "waits", "woken", "blocked",
                               "returned", "panicked"}]

(* A Stop that began has closed done, and once the counter was seen to be  *)
(* zero the workers that run are those started later.                      *)
StopIsFinal ==
  \A s \in Stoppers :
    /\ stopper[s] # "new" => poolDone
    /\ stopper[s] \in {"woken", "returned"} =>
         \A w \in PoolWorkers : poolWorker[w] \in {"new", "exited"} \/ w \in lateWorkers
    /\ stopper[s] = "panicked" => lateWorkers # {}

(* The inductive invariant.                                                *)
PoolInv == PoolTypeOK /\ StopIsFinal /\ JobsRunInOrder

LEMMA InitPool == PoolInit => PoolInv
<1> SUFFICES ASSUME PoolInit PROVE PoolInv
  OBVIOUS
<1>1. poolJobs \in Seq(Jobs) /\ ran \in Seq(Jobs)
  BY EmptySeq DEF PoolInit
<1>2. PoolTypeOK /\ StopIsFinal
  BY <1>1 DEF PoolInit, PoolTypeOK, StopIsFinal
<1>3. <<>> \o <<>> = <<>>
  BY EmptySeq, ConcatEmptySeq
<1> QED BY <1>2, <1>3 DEF PoolInit, PoolInv, JobsRunInOrder

LEMMA PoolStep == PoolInv /\ [PoolNext]_poolVars => PoolInv'
<1> SUFFICES ASSUME PoolInv, [PoolNext]_poolVars PROVE PoolInv'
  OBVIOUS
<1> USE WorkerPoolAssumption
<1>a. PoolTypeOK /\ StopIsFinal /\ JobsRunInOrder
  BY DEF PoolInv
<1>0. CASE UNCHANGED poolVars
  BY <1>0, <1>a DEF poolVars, PoolInv, PoolTypeOK, StopIsFinal, JobsRunInOrder
<1>b. ASSUME UNCHANGED <<poolJobs, accepted, ran>> PROVE JobsRunInOrder'
  BY <1>a, <1>b DEF JobsRunInOrder
<1>1. ASSUME NEW w \in PoolWorkers, PoolStart(w) PROVE PoolInv'
  <2>1. PoolTypeOK'
    BY <1>1, <1>a DEF PoolStart, PoolTypeOK
  <2>2. StopIsFinal'
    BY <1>1, <1>a DEF PoolStart, PoolTypeOK, StopIsFinal
  <2> QED BY <1>1, <1>b, <2>1, <2>2 DEF PoolStart, PoolInv
<1>2. CASE PoolCancel
  <2>1. PoolTypeOK' /\ StopIsFinal'
    BY <1>2, <1>a DEF PoolCancel, PoolTypeOK, StopIsFinal
  <2> QED BY <1>2, <1>b, <2>1 DEF PoolCancel, PoolInv
<1>3. ASSUME NEW j \in Jobs, SubmitAccepted(j) PROVE PoolInv'
  <2>1. /\ poolJobs' = Append(poolJobs, j) /\ accepted' = Append(accepted, j)
        /\ UNCHANGED <<poolDone, poolWorker, stopper, lateWorkers, ran>>
    BY <1>3 DEF SubmitAccepted
  <2>2. Append(poolJobs, j) \in Seq(Jobs)
    BY <1>a DEF PoolTypeOK
  <2>3. PoolTypeOK' /\ StopIsFinal'
    BY <1>a, <2>1, <2>2 DEF PoolTypeOK, StopIsFinal
  <2>4. ran \o Append(poolJobs, j) = Append(ran \o poolJobs, j)
    BY <1>a, ConcatAppend DEF PoolTypeOK
  <2> QED BY <1>a, <2>1, <2>3, <2>4 DEF PoolInv, JobsRunInOrder
<1>4. ASSUME NEW j \in Jobs, SubmitRefused(j) PROVE PoolInv'
  <2>1. PoolTypeOK' /\ StopIsFinal'
    BY <1>4, <1>a DEF SubmitRefused, PoolTypeOK, StopIsFinal
  <2> QED BY <1>4, <1>b, <2>1 DEF SubmitRefused, PoolInv
<1>5. ASSUME NEW w \in PoolWorkers, TakeJob(w) PROVE PoolInv'
  <2>1. /\ poolWorker[w] = "select" /\ poolJobs # <<>> /\ poolJobs' = Tail(poolJobs)
        /\ poolWorker' = [poolWorker EXCEPT ![w] = Head(poolJobs)]
        /\ ran' = Append(ran, Head(poolJobs))
        /\ UNCHANGED <<poolDone, stopper, lateWorkers, accepted>>
    BY <1>5 DEF TakeJob
  <2>2. poolJobs \in Seq(Jobs) /\ ran \in Seq(Jobs)
    BY <1>a DEF PoolTypeOK
  <2>3. Head(poolJobs) \in Jobs /\ Tail(poolJobs) \in Seq(Jobs)
    BY <2>1, <2>2, HeadTailProperties
  <2>4. Append(ran, Head(poolJobs)) \in Seq(Jobs)
    BY <2>2, <2>3, AppendProperties
  <2>5. PoolTypeOK'
    BY <1>a, <2>1, <2>3, <2>4 DEF PoolTypeOK
  <2>6. /\ \A v \in PoolWorkers : v # w => poolWorker'[v] = poolWorker[v]
        /\ \A s \in Stoppers : stopper[s] \in {"woken", "returned"} => w \in lateWorkers
    BY <1>a, <2>1 DEF StopIsFinal, PoolTypeOK
  <2>7. StopIsFinal'
    BY <1>a, <2>1, <2>6 DEF StopIsFinal
  <2>8. Append(ran, Head(poolJobs)) \o Tail(poolJobs) = ran \o poolJobs
    BY <2>1, <2>2, HeadMoves
  <2> QED BY <1>a, <2>1, <2>5, <2>7, <2>8 DEF PoolInv, JobsRunInOrder
<1>6. ASSUME NEW w \in PoolWorkers, JobReturns(w) PROVE PoolInv'
  <2>1. PoolTypeOK'
    BY <1>6, <1>a DEF JobReturns, PoolTypeOK
  <2>2. StopIsFinal'
    BY <1>6, <1>a DEF JobReturns, PoolTypeOK, StopIsFinal
  <2> QED BY <1>6, <1>b, <2>1, <2>2 DEF JobReturns, PoolInv
<1>7. ASSUME NEW w \in PoolWorkers, WorkerExits(w) PROVE PoolInv'
  <2>1. PoolTypeOK'
    BY <1>7, <1>a DEF WorkerExits, PoolTypeOK
  <2>2. /\ UNCHANGED <<poolDone, lateWorkers>>
        /\ \A v \in PoolWorkers : poolWorker'[v] = IF v = w THEN "exited" ELSE poolWorker[v]
        /\ \A s \in Stoppers :
             \/ stopper'[s] = stopper[s]
             \/ stopper[s] = "waits" /\ stopper'[s] = "woken" /\ Counted = {w}
    BY <1>7, <1>a DEF WorkerExits, PoolTypeOK
  <2>3. Counted = {w} => \A v \in PoolWorkers : poolWorker'[v] \in {"new", "exited"}
    BY <2>2 DEF Counted
  <2>4. StopIsFinal'
    BY <1>a, <2>2, <2>3 DEF StopIsFinal
  <2> QED BY <1>7, <1>b, <2>1, <2>4 DEF WorkerExits, PoolInv
<1>8. ASSUME NEW s \in Stoppers, PoolStop(s) PROVE PoolInv'
  <2>1. PoolTypeOK' /\ StopIsFinal'
    BY <1>8, <1>a DEF PoolStop, PoolTypeOK, StopIsFinal
  <2> QED BY <1>8, <1>b, <2>1 DEF PoolStop, PoolInv
<1>9. ASSUME NEW s \in Stoppers, PoolWaits(s) \/ PoolWakes(s) \/ OnceReturns(s) PROVE PoolInv'
  <2>1. PICK to \in {"waits", "returned", "panicked"} : StopMoves(s, to) /\ stopper[s] # "new"
    BY <1>9 DEF PoolWaits, PoolWakes, OnceReturns
  <2>2. /\ UNCHANGED <<poolJobs, poolDone, poolWorker, lateWorkers, accepted, ran>>
        /\ \A t \in Stoppers : stopper'[t] = IF t = s THEN to ELSE stopper[t]
        /\ PoolTypeOK'
    BY <1>a, <2>1 DEF StopMoves, PoolTypeOK
  <2>3. to = "returned" => \A w \in PoolWorkers : poolWorker[w] \in {"new", "exited"} \/ w \in lateWorkers
    <3>1. CASE PoolWaits(s) \/ PoolWakes(s)
      BY <1>a, <2>1, <2>2, <3>1 DEF PoolWaits, PoolWakes, StopMoves, Counted, PoolTypeOK
    <3>2. CASE OnceReturns(s)
      BY <1>a, <3>2 DEF OnceReturns, StopIsFinal
    <3> QED BY <1>9, <3>1, <3>2
  <2>4. to = "panicked" => lateWorkers # {}
    <3>1. to = "panicked" => stopper[s] = "woken" /\ Counted # {}
      BY <1>9, <1>a, <2>1, <2>2 DEF PoolWaits, PoolWakes, OnceReturns, StopMoves, PoolTypeOK
    <3> QED BY <1>a, <3>1 DEF StopIsFinal, Counted
  <2>5. StopIsFinal'
    BY <1>a, <2>1, <2>2, <2>3, <2>4 DEF StopIsFinal
  <2> QED BY <1>b, <2>2, <2>5 DEF PoolInv
<1> QED BY <1>0, <1>1, <1>2, <1>3, <1>4, <1>5, <1>6, <1>7, <1>8, <1>9 DEF PoolNext

(* Jobs start in the order they were accepted and each at most once; once  *)
(* a Stop has returned, only workers of a Start that came during the Stop  *)
(* or after it are left; and Stop panics only if there was such a Start.   *)
THEOREM PoolIsSound == PoolSpec => []PoolSound
<1>1. PoolInv => PoolSound
  BY WorkerPoolAssumption DEF PoolInv, StopIsFinal, PoolSound, QuietAfterStop, Panicked
<1> QED BY <1>1, InitPool, PoolStep, PTL DEF PoolSpec

-----------------------------------------------------------------------------
(* The retry policy.                                                       *)

(* Where Do is says how many calls it has made and how the last one ended. *)
RetryProgress ==
  /\ policy.MaxAttempts \in Nat \ {0} /\ calls \in Nat
  /\ retry \in {"idle", "check", "call", "pause", "nil", "failed", "ctx"}
  /\ retry = "idle" => calls = 0
  /\ retry \in {"idle", "check", "call", "pause"} =>
       calls < policy.MaxAttempts /\ outcome \in {"none", "error"}

(* A normalized policy has positive delays; the pauses are those Delay     *)
(* gives, one for every call that has failed.                              *)
PausesAreDelays ==
  /\ policy.MaxDelay \in Nat \ {0} /\ policy.InitialDelay \in Delays
  /\ slept \in Seq(Int)
  /\ retry \in {"idle", "check", "call", "pause"} => Len(slept) = calls
  /\ \A i \in 1 .. Len(slept) : slept[i] \in Delay(policy, i)

(* The inductive invariant.                                                *)
RetryInv == RetryProgress /\ RetryVerdict /\ PausesAreDelays

LEMMA Normalized ==
  ASSUME NEW p, p.MaxAttempts \in Int, p.InitialDelay \in Int, p.MaxDelay \in Int
  PROVE  /\ Normalize(p).MaxAttempts \in Nat \ {0}
         /\ Normalize(p).MaxDelay \in Nat \ {0}
         /\ p.InitialDelay <= MaxDuration => Normalize(p).InitialDelay \in Delays
BY RetryAssumption DEF Normalize, Delays

(* g is Power up to n.                                                     *)
IsPower(g, n) == g = [k \in 0 .. n |-> IF k = 0 THEN 1 ELSE 2 * g[k - 1]]

LEMMA PowerUpTo == \A n \in Nat : \E g : IsPower(g, n)
<1> DEFINE T == {n \in Nat : ~ \E g : IsPower(g, n)}
<1>1. \E g : IsPower(g, 0)
  <2> DEFINE g == [k \in 0 .. 0 |-> 1]
  <2>1. g = [k \in 0 .. 0 |-> IF k = 0 THEN 1 ELSE 2 * g[k - 1]]
    OBVIOUS
  <2> QED BY <2>1 DEF IsPower
<1>2. ASSUME NEW n \in Nat, NEW g, IsPower(g, n) PROVE \E h : IsPower(h, n + 1)
  <2> DEFINE h == [k \in 0 .. n + 1 |-> IF k = 0 THEN 1 ELSE 2 * g[k - 1]]
  <2>1. \A k \in 0 .. n : h[k] = g[k]
    BY <1>2 DEF IsPower
  <2>2. \A k \in 0 .. n + 1 : k # 0 => k - 1 \in 0 .. n
    OBVIOUS
  <2>3. h = [k \in 0 .. n + 1 |-> IF k = 0 THEN 1 ELSE 2 * h[k - 1]]
    BY <2>1, <2>2
  <2> HIDE DEF h
  <2> QED BY <2>3 DEF IsPower
<1>3. T = {}
  <2> SUFFICES ASSUME T # {} PROVE FALSE
    OBVIOUS
  <2>1. PICK n \in T : \A m \in T : n <= m
    <3>1. T \subseteq Nat
      OBVIOUS
    <3> HIDE DEF T
    <3> QED BY <3>1, Smallest
  <2>2. n \in Nat /\ n # 0 /\ n - 1 \in Nat /\ n - 1 \notin T
    BY <1>1, <2>1
  <2>3. \E g : IsPower(g, n - 1)
    BY <2>2
  <2>4. \E g : IsPower(g, (n - 1) + 1)
    BY <1>2, <2>2, <2>3
  <2>5. (n - 1) + 1 = n
    BY <2>2
  <2> QED BY <2>1, <2>4, <2>5
<1> QED BY <1>3

(* Two such functions agree where both are defined.                        *)
LEMMA PowerUnique ==
  ASSUME NEW m \in Nat, NEW n \in Nat, m <= n, NEW g, NEW h, IsPower(g, m), IsPower(h, n)
  PROVE  \A k \in 0 .. m : g[k] = h[k]
<1> DEFINE T == {k \in 0 .. m : g[k] # h[k]}
<1>0. /\ \A k \in 0 .. m : g[k] = IF k = 0 THEN 1 ELSE 2 * g[k - 1]
      /\ \A k \in 0 .. m : h[k] = IF k = 0 THEN 1 ELSE 2 * h[k - 1]
  BY DEF IsPower
<1> SUFFICES ASSUME T # {} PROVE FALSE
  OBVIOUS
<1>1. PICK k \in T : \A j \in T : k <= j
  <2>1. T \subseteq Nat
    OBVIOUS
  <2> HIDE DEF T
  <2> QED BY <2>1, Smallest
<1>2. k # 0 /\ k - 1 \in 0 .. m /\ k - 1 \notin T
  BY <1>0, <1>1
<1>3. g[k - 1] = h[k - 1]
  BY <1>2
<1> QED BY <1>0, <1>1, <1>2, <1>3

(* So the recursive function exists: Power doubles with every step.        *)
LEMMA PowerDoubles ==
  \A n \in Nat : Power[n] = IF n = 0 THEN 1 ELSE 2 * Power[n - 1]
<1> DEFINE G(n) == CHOOSE g : IsPower(g, n)
           p == [n \in Nat |-> G(n)[n]]
<1>1. \A n \in Nat : IsPower(G(n), n)
  BY PowerUpTo
<1> HIDE DEF G
<1>2. ASSUME NEW n \in Nat PROVE p[n] = IF n = 0 THEN 1 ELSE 2 * p[n - 1]
  <2>1. G(n)[n] = IF n = 0 THEN 1 ELSE 2 * G(n)[n - 1]
    <3>1. IsPower(G(n), n) /\ n \in 0 .. n
      BY <1>1
    <3> QED BY <3>1 DEF IsPower
  <2>2. n # 0 => G(n)[n - 1] = G(n - 1)[n - 1]
    <3> SUFFICES ASSUME n # 0 PROVE G(n - 1)[n - 1] = G(n)[n - 1]
      OBVIOUS
    <3>1. n - 1 \in Nat /\ n - 1 <= n /\ n - 1 \in 0 .. n - 1
      OBVIOUS
    <3>2. IsPower(G(n - 1), n - 1) /\ IsPower(G(n), n)
      BY <1>1, <3>1
    <3> QED BY <3>1, <3>2, PowerUnique
  <2>3. p[n] = G(n)[n] /\ (n # 0 => p[n - 1] = G(n - 1)[n - 1])
    OBVIOUS
  <2> QED BY <2>1, <2>2, <2>3
<1>3. p = [n \in Nat |-> IF n = 0 THEN 1 ELSE 2 * p[n - 1]]
  <2>1. p = [n \in Nat |-> p[n]]
    OBVIOUS
  <2> HIDE DEF p
  <2> QED BY <1>2, <2>1
<1> HIDE DEF p
<1>4. \E f : f = [n \in Nat |-> IF n = 0 THEN 1 ELSE 2 * f[n - 1]]
  BY <1>3
<1>5. Power = [n \in Nat |-> IF n = 0 THEN 1 ELSE 2 * Power[n - 1]]
  BY <1>4 DEF Power
<1> QED BY <1>5

LEMMA PowerPositive == \A n \in Nat : Power[n] \in Nat \ {0}
<1> DEFINE T == {n \in Nat : Power[n] \notin Nat \ {0}}
<1> SUFFICES ASSUME T # {} PROVE FALSE
  OBVIOUS
<1>1. PICK n \in T : \A m \in T : n <= m
  <2>1. T \subseteq Nat
    OBVIOUS
  <2> HIDE DEF T
  <2> QED BY <2>1, Smallest
<1>2. n \in Nat /\ n # 0 /\ n - 1 \in Nat /\ n - 1 \notin T
  BY <1>1, PowerDoubles
<1>3. Power[n] = 2 * Power[n - 1] /\ Power[n - 1] \in Nat \ {0}
  BY <1>2, PowerDoubles
<1> QED BY <1>1, <1>3

LEMMA DivideByUnit ==
  ASSUME NEW u \in Nat \ {0}, NEW n \in Nat
  PROVE  n % u \in 0 .. u - 1 /\ n \div u \in Int /\ n = u * (n \div u) + (n % u)
OBVIOUS

(* A delay is rounded to a positive number, and one of a mantissa's bits   *)
(* not at all.                                                             *)
LEMMA FloatRounds ==
  ASSUME NEW n \in Delays
  PROVE  Float(n) \in Nat \ {0} /\ (n <= Mantissa => Float(n) = n)
<1> DEFINE fits == {e \in 0 .. Spare : n <= Mantissa * Power[e]}
           e == CHOOSE x \in fits : \A d \in fits : x <= d
<1>0. n \in Nat \ {0} /\ n <= MaxDuration
  BY RetryAssumption DEF Delays
<1>1. Spare \in fits
  <2>1. PICK m \in Nat : m = Mantissa * Power[Spare]
    BY RetryAssumption, PowerPositive
  <2> QED BY <1>0, <2>1, RetryAssumption
<1>2. e \in fits /\ \A d \in fits : e <= d
  <2>1. fits \subseteq Nat
    OBVIOUS
  <2> HIDE DEF fits
  <2> QED BY <1>1, <2>1, Smallest
<1>3. e \in Nat /\ e <= Spare /\ Power[e] \in Nat \ {0} /\ Unit(n) = Power[e]
  BY <1>2, PowerPositive, RetryAssumption DEF Unit
<1>4. PICK u \in Nat \ {0} : u = Power[e] /\ Unit(n) = u
  BY <1>3
<1>5. e = 0 => u = 1
  BY <1>4, PowerDoubles
<1>6. e # 0 => n >= u
  <2> SUFFICES ASSUME e # 0 PROVE n >= u
    OBVIOUS
  <2>1. e - 1 \in 0 .. Spare /\ e - 1 \in Nat /\ ~(e <= e - 1)
    <3> HIDE DEF e
    <3> QED BY <1>3, RetryAssumption
  <2>2. e - 1 \notin fits
    BY <1>2, <2>1
  <2>3. PICK h \in Nat \ {0} : h = Power[e - 1]
    BY <2>1, PowerPositive
  <2>4. u = 2 * h
    BY <1>3, <1>4, <2>3, PowerDoubles
  <2>5. PICK m \in Nat : m = Mantissa * h
    BY RetryAssumption
  <2>6. ~(n <= m)
    BY <2>1, <2>2, <2>3, <2>5
  <2>7. m >= 2 * h
    BY <2>5, RetryAssumption
  <2> QED BY <1>0, <2>4, <2>6, <2>7
<1>7. n <= Mantissa => e = 0
  <2>1. Power[0] = 1 /\ 0 \in 0 .. Spare
    BY PowerDoubles, RetryAssumption
  <2>2. n <= Mantissa => 0 \in fits
    BY <2>1, RetryAssumption
  <2> QED BY <1>2, <1>3, <2>2
<1> HIDE DEF e, fits
<1>8. PICK q \in Int, m \in 0 .. u - 1 : q = n \div u /\ m = n % u /\ n = u * q + m
  BY <1>0, <1>4, DivideByUnit
<1>9. q >= 1
  <2>1. n >= u
    BY <1>0, <1>3, <1>4, <1>5, <1>6
  <2>2. ASSUME q <= 0 PROVE FALSE
    <3>1. PICK y \in Int : y = u * q
      OBVIOUS
    <3>2. y <= 0
      BY <2>2, <3>1
    <3> QED BY <1>0, <1>8, <2>1, <3>1, <3>2
  <2> QED BY <2>2
<1>10. PICK y \in Nat \ {0} : y = u * q
  BY <1>9
<1>11. Float(n) = y \/ Float(n) = y + u
  BY <1>4, <1>8, <1>10 DEF Float
<1>12. ASSUME n <= Mantissa PROVE Float(n) = n
  <2>1. u = 1 /\ m = 0 /\ n = u * q
    BY <1>5, <1>7, <1>8, <1>12
  <2>2. ~(2 * m > u) /\ ~(2 * m = u)
    BY <2>1
  <2> QED BY <1>4, <1>8, <2>1, <2>2 DEF Float
<1> QED BY <1>10, <1>11, <1>12

(* The products double.                                                    *)
LEMMA ProductDoubles ==
  ASSUME NEW p, p.InitialDelay \in Delays, NEW attempt \in Nat \ {0}
  PROVE  /\ Product(p, attempt) \in Nat \ {0}
         /\ attempt > 1 => Product(p, attempt) = 2 * Product(p, attempt - 1)
<1>1. PICK a \in Nat \ {0} : a = Float(p.InitialDelay)
  BY FloatRounds
<1>2. Power[attempt - 1] \in Nat \ {0}
  BY PowerPositive
<1>3. \A x, y \in Nat \ {0} : x * y \in Nat \ {0} /\ x * (2 * y) = 2 * (x * y)
  OBVIOUS
<1>4. attempt > 1 => /\ Power[attempt - 1] = 2 * Power[(attempt - 1) - 1]
                     /\ Power[(attempt - 1) - 1] \in Nat \ {0}
  BY PowerDoubles, PowerPositive
<1> QED BY <1>1, <1>2, <1>3, <1>4 DEF Product

(* Delay gives a Duration of at most MaxDelay, whatever the conversion of  *)
(* a product out of range gives, and the product if it fits.               *)
LEMMA DelayIsCapped ==
  ASSUME NEW p, p.InitialDelay \in Delays, p.MaxDelay \in Nat \ {0},
         NEW attempt \in Nat \ {0}, NEW d \in Delay(p, attempt)
  PROVE  /\ d \in Int /\ d <= p.MaxDelay
         /\ Product(p, attempt) <= MaxDuration =>
              d = IF Product(p, attempt) > p.MaxDelay THEN p.MaxDelay ELSE Product(p, attempt)
<1>2. Product(p, attempt) \in Nat
  BY ProductDoubles
<1>3. \A x \in ToDuration(Product(p, attempt)) :
        /\ x \in Int
        /\ Product(p, attempt) <= MaxDuration => x = Product(p, attempt)
  BY <1>2, RetryAssumption DEF ToDuration
<1>4. PICK x \in ToDuration(Product(p, attempt)) : d = IF x > p.MaxDelay THEN p.MaxDelay ELSE x
  BY DEF Delay
<1> QED BY <1>3, <1>4

LEMMA InitRetry == RetryInit => RetryInv
<1> SUFFICES ASSUME RetryInit PROVE RetryInv
  OBVIOUS
<1>1. /\ policy.MaxAttempts \in Nat \ {0}
      /\ policy.MaxDelay \in Nat \ {0} /\ policy.InitialDelay \in Delays
  BY Normalized, RetryAssumption DEF RetryInit
<1>2. PausesAreDelays
  BY <1>1, EmptySeq DEF RetryInit, PausesAreDelays
<1> QED BY <1>1, <1>2 DEF RetryInit, RetryInv, RetryProgress, RetryVerdict

LEMMA RetryStep == RetryInv /\ [RetryNext]_retryVars => RetryInv'
<1> SUFFICES ASSUME RetryInv, [RetryNext]_retryVars PROVE RetryInv'
  OBVIOUS
<1>0. CASE UNCHANGED retryVars
  BY <1>0 DEF retryVars, RetryInv, RetryProgress, RetryVerdict, PausesAreDelays
<1>a. ASSUME UNCHANGED <<policy, slept, calls>>, retry \in {"idle", "check", "call", "pause"}
      PROVE  PausesAreDelays'
  BY <1>a DEF RetryInv, PausesAreDelays
<1>1. CASE Do
  <2>1. PICK p \in [MaxAttempts : Attempts, InitialDelay : InitialDelays, MaxDelay : MaxDelays] :
          policy' = Normalize(p)
    BY <1>1 DEF Do
  <2>2. /\ policy'.MaxAttempts \in Nat \ {0}
        /\ policy'.MaxDelay \in Nat \ {0} /\ policy'.InitialDelay \in Delays
    BY <2>1, RetryAssumption, Normalized
  <2>3. slept \in Seq(Int) /\ Len(slept) = 0 /\ calls' = 0 /\ slept' = slept
    BY <1>1 DEF Do, RetryInv, RetryProgress, PausesAreDelays
  <2>4. PausesAreDelays'
    BY <2>2, <2>3 DEF PausesAreDelays
  <2> QED BY <1>1, <2>2, <2>4 DEF Do, RetryInv, RetryProgress, RetryVerdict
<1>2. CASE CheckContext
  BY <1>2, <1>a DEF CheckContext, RetryInv, RetryProgress, RetryVerdict
<1>3. CASE CallFn
  <2>1. PICK result \in {"ok", "error", "ctx"} : outcome' = result /\ retry' = AfterCall(result)
    BY <1>3 DEF CallFn
  <2>2. retry = "call" /\ calls' = calls + 1 /\ UNCHANGED <<policy, retryDone>>
    BY <1>3 DEF CallFn
  <2>3. retry' \in {"nil", "ctx", "failed", "pause"}
    BY <2>1 DEF AfterCall
  <2>4. RetryProgress' /\ RetryVerdict'
    <3>1. CASE result = "ok"
      BY <2>1, <2>2, <3>1 DEF AfterCall, RetryInv, RetryProgress, RetryVerdict
    <3>2. CASE result = "ctx"
      BY <2>1, <2>2, <3>2 DEF AfterCall, RetryInv, RetryProgress, RetryVerdict
    <3>3. CASE result = "error"
      BY <2>1, <2>2, <3>3 DEF AfterCall, RetryInv, RetryProgress, RetryVerdict
    <3> QED BY <3>1, <3>2, <3>3
  <2>5. CASE retry' # "pause"
    <3>1. slept' = slept
      BY <1>3, <2>5 DEF CallFn
    <3>2. PausesAreDelays'
      BY <2>2, <2>3, <2>5, <3>1 DEF RetryInv, PausesAreDelays
    <3> QED BY <2>4, <3>2 DEF RetryInv
  <2>6. CASE retry' = "pause"
    <3>1. PICK d \in Delay(policy, calls') : slept' = Append(slept, d)
      BY <1>3, <2>6 DEF CallFn
    <3>2. /\ calls' \in Nat \ {0} /\ policy.MaxDelay \in Nat \ {0}
          /\ policy.InitialDelay \in Delays /\ slept \in Seq(Int) /\ Len(slept) = calls
      BY <2>2 DEF RetryInv, RetryProgress, PausesAreDelays
    <3>3. d \in Int
      BY <3>1, <3>2, DelayIsCapped
    <3>4. /\ slept' \in Seq(Int) /\ Len(slept') = Len(slept) + 1 /\ Len(slept) \in Nat
          /\ \A i \in 1 .. Len(slept) : slept'[i] = slept[i]
          /\ slept'[Len(slept) + 1] = d
      BY <3>1, <3>2, <3>3, AppendProperties, LenProperties
    <3>5. ASSUME NEW i \in 1 .. Len(slept') PROVE slept'[i] \in Delay(policy', i)
      <4>1. CASE i \in 1 .. Len(slept)
        BY <2>2, <3>4, <4>1 DEF RetryInv, PausesAreDelays
      <4>2. CASE i = Len(slept) + 1
        BY <2>2, <3>1, <3>2, <3>4, <4>2
      <4> QED BY <3>4, <4>1, <4>2
    <3>6. PausesAreDelays'
      BY <2>2, <3>2, <3>4, <3>5 DEF PausesAreDelays
    <3> QED BY <2>4, <3>6 DEF RetryInv
  <2> QED BY <2>5, <2>6
<1>4. CASE Pause
  BY <1>4, <1>a DEF Pause, RetryInv, RetryProgress, RetryVerdict
<1>5. CASE RetryCancel
  BY <1>5 DEF RetryCancel, RetryInv, RetryProgress, RetryVerdict, PausesAreDelays
<1> QED BY <1>0, <1>1, <1>2, <1>3, <1>4, <1>5 DEF RetryNext

(* Pauses made by Delay are capped, grow, and are exact up to a mantissa.  *)
LEMMA DelaysGrow == PausesAreDelays => NoLongPause /\ PausesGrow /\ PausesAreExact
<1> SUFFICES ASSUME PausesAreDelays PROVE NoLongPause /\ PausesGrow /\ PausesAreExact
  OBVIOUS
<1>0. /\ policy.MaxDelay \in Nat \ {0} /\ policy.InitialDelay \in Delays
      /\ slept \in Seq(Int) /\ \A i \in 1 .. Len(slept) : slept[i] \in Delay(policy, i)
  BY DEF PausesAreDelays
<1>1. DOMAIN slept = 1 .. Len(slept) /\ Len(slept) \in Nat
  BY <1>0, LenProperties
<1>2. NoLongPause
  BY <1>0, <1>1, DelayIsCapped DEF NoLongPause
<1>3. ASSUME NEW i \in DOMAIN slept, Product(policy, i) <= MaxDuration
      PROVE  slept[i] > 0 /\ (i > 1 => slept[i - 1] <= slept[i])
  <2> DEFINE e == Product(policy, i)
             f == Product(policy, i - 1)
             cap == policy.MaxDelay
  <2>1. i \in Nat \ {0} /\ i \in 1 .. Len(slept)
    BY <1>1
  <2>2. e \in Nat \ {0} /\ (i > 1 => e = 2 * f)
    BY <1>0, <2>1, ProductDoubles
  <2>3. slept[i] = IF e > cap THEN cap ELSE e
    BY <1>0, <1>3, <2>1, DelayIsCapped
  <2>4. ASSUME i > 1 PROVE slept[i - 1] <= slept[i]
    <3>1. i - 1 \in Nat \ {0} /\ i - 1 \in 1 .. Len(slept)
      BY <2>1, <2>4
    <3>2. f \in Nat \ {0}
      BY <1>0, <3>1, ProductDoubles
    <3>3. MaxDuration \in Nat /\ f <= MaxDuration
      <4> HIDE DEF e, f
      <4> QED BY <1>3, <2>2, <2>4, <3>2, RetryAssumption DEF e
    <3>4. slept[i - 1] = IF f > cap THEN cap ELSE f
      BY <1>0, <3>1, <3>3, DelayIsCapped
    <3> HIDE DEF e, f, cap
    <3>5. cap \in Nat
      BY <1>0 DEF cap
    <3> QED BY <2>2, <2>3, <2>4, <3>2, <3>4, <3>5
  <2> HIDE DEF e, f, cap
  <2>5. cap \in Nat \ {0}
    BY <1>0 DEF cap
  <2> QED BY <2>2, <2>3, <2>4, <2>5
<1>4. PausesGrow
  BY <1>3 DEF PausesGrow
<1>5. ASSUME NEW i \in DOMAIN slept, policy.InitialDelay <= Mantissa,
             policy.InitialDelay * Power[i - 1] <= MaxDuration
      PROVE  slept[i] = IF policy.InitialDelay * Power[i - 1] > policy.MaxDelay THEN policy.MaxDelay
                        ELSE policy.InitialDelay * Power[i - 1]
  <2>1. i \in Nat \ {0} /\ i \in 1 .. Len(slept)
    BY <1>1
  <2>2. Product(policy, i) = policy.InitialDelay * Power[i - 1]
    BY <1>0, <1>5, FloatRounds DEF Product
  <2> QED BY <1>0, <1>5, <2>1, <2>2, DelayIsCapped
<1>6. PausesAreExact
  BY <1>5 DEF PausesAreExact
<1> QED BY <1>2, <1>4, <1>6

(* Do makes at most MaxAttempts calls, returns nil exactly after a call    *)
(* that did, and gives up only after the last call failed or a context     *)
(* ended.  No pause is longer than MaxDelay, on no platform, and none      *)
(* shorter than the one before it while the product, rounded as float64    *)
(* rounds it, fits an int64; without rounding it is the exact product.     *)
THEOREM RetryIsSound == RetrySpec => []RetrySound
<1>1. RetryInv => RetrySound
  BY DelaysGrow DEF RetryInv, RetrySound
<1> QED BY <1>1, InitRetry, RetryStep, PTL DEF RetrySpec

-----------------------------------------------------------------------------
(* The bulk processor.                                                     *)

BulkTypeOK ==
  /\ index \in 0 .. Values + 2 /\ ctxDone \in BOOLEAN /\ cancelled \in BOOLEAN
  /\ bulkWorker \in [BulkWorkers ->
       {"idle", "got", "go", "skip", "ok", "failed", "stop", "exited"}]
  /\ bulkJob \in [BulkWorkers -> 0 .. Values]
  /\ results \in Seq((1 .. Values) \X {"ok", "failed", "skip"})
  /\ late \in Nat

(* A worker that has an index and has not sent its result.                 *)
Busy(w) == bulkWorker[w] \in {"got", "go", "skip", "ok", "failed"}

HasResult(k) == \E i \in DOMAIN results : results[i][1] = k

(* An index handed out is in one hand, or has one result, or, if the       *)
(* context is done, was dropped.                                           *)
OnePlace ==
  /\ \A w \in BulkWorkers : Busy(w) =>
       bulkJob[w] \in 1 .. Values /\ bulkJob[w] < index /\ ~HasResult(bulkJob[w])
  /\ \A v, w \in BulkWorkers : Busy(v) /\ Busy(w) /\ bulkJob[v] = bulkJob[w] => v = w
  /\ \A i \in DOMAIN results : results[i][1] < index
  /\ \A i, j \in DOMAIN results : results[i][1] = results[j][1] => i = j

NothingDropped ==
  ~ctxDone => \A k \in 1 .. Values : k < index =>
                HasResult(k) \/ \E w \in BulkWorkers : Busy(w) /\ bulkJob[w] = k

AllExited == index = Values + 2 => \A w \in BulkWorkers : bulkWorker[w] = "exited"

(* The workers that passed the check of the flag and have not begun.       *)
Going == {w \in BulkWorkers : bulkWorker[w] = "go"}

(* Handle calls begun after the flag was set were checked before it.       *)
LateIsBounded ==
  /\ ~cancelled => late = 0
  /\ cancelled => late + Cardinality(Going)
                    <= Cardinality(BulkWorkers) - (IF ctxDone THEN 0 ELSE 1)

(* The inductive invariant.                                                *)
BulkInv == BulkTypeOK /\ OnePlace /\ NothingDropped /\ AllExited /\ LateIsBounded

LEMMA WorkersCounted ==
  /\ Cardinality(BulkWorkers) \in Nat \ {0}
  /\ IsFiniteSet(Going) /\ Cardinality(Going) \in Nat
  /\ Cardinality(Going) <= Cardinality(BulkWorkers)
  /\ \A w \in BulkWorkers : w \notin Going => Cardinality(Going) <= Cardinality(BulkWorkers) - 1
<1>1. Cardinality(BulkWorkers) \in Nat \ {0}
  BY BulkAssumption, FS_CardinalityType, FS_EmptySet
<1>2. Going \in SUBSET BulkWorkers
  BY DEF Going
<1>3. IsFiniteSet(Going) /\ Cardinality(Going) <= Cardinality(BulkWorkers)
  BY <1>2, BulkAssumption, FS_Subset
<1>4. Cardinality(Going) \in Nat
  BY <1>3, FS_CardinalityType
<1>5. ASSUME NEW w \in BulkWorkers, w \notin Going
      PROVE  Cardinality(Going) <= Cardinality(BulkWorkers) - 1
  <2>1. /\ IsFiniteSet(BulkWorkers \ {w})
        /\ Cardinality(BulkWorkers \ {w}) = Cardinality(BulkWorkers) - 1
    BY BulkAssumption, FS_RemoveElement
  <2>2. Going \in SUBSET (BulkWorkers \ {w})
    BY <1>2, <1>5
  <2>3. Cardinality(Going) <= Cardinality(BulkWorkers \ {w})
    BY <2>1, <2>2, FS_Subset
  <2> QED BY <2>1, <2>3
<1> QED BY <1>1, <1>3, <1>4, <1>5

LEMMA InitBulk == BulkInit => BulkInv
<1> SUFFICES ASSUME BulkInit PROVE BulkInv
  OBVIOUS
<1>1. results = <<>> /\ results \in Seq((1 .. Values) \X {"ok", "failed", "skip"})
  BY EmptySeq DEF BulkInit
<1>2. BulkTypeOK
  <2>1. 0 \in 0 .. Values + 2 /\ 0 \in 0 .. Values /\ 0 \in Nat
    BY BulkAssumption
  <2> QED BY <1>1, <2>1 DEF BulkInit, BulkTypeOK
<1>3. OnePlace
  BY <1>1 DEF BulkInit, OnePlace, Busy
<1>4. NothingDropped /\ AllExited /\ LateIsBounded
  BY BulkAssumption DEF BulkInit, NothingDropped, AllExited, LateIsBounded
<1> QED BY <1>2, <1>3, <1>4 DEF BulkInv

(* A step of one worker that neither takes an index nor sends a result.    *)
LEMMA WorkerMoves ==
  ASSUME BulkInv, NEW w \in BulkWorkers,
         NEW to \in {"idle", "got", "go", "skip", "ok", "failed", "stop", "exited"},
         bulkWorker' = [bulkWorker EXCEPT ![w] = to],
         to \in {"got", "go", "skip", "ok", "failed"} <=> Busy(w),
         bulkWorker[w] # "exited",
         UNCHANGED <<index, ctxDone, bulkJob, results>>
  PROVE  OnePlace' /\ NothingDropped' /\ AllExited'
<1>1. /\ bulkWorker'[w] = to
      /\ \A v \in BulkWorkers : v # w => bulkWorker'[v] = bulkWorker[v]
  BY DEF BulkInv, BulkTypeOK
<1>2. \A v \in BulkWorkers : Busy(v)' <=> Busy(v)
  BY <1>1 DEF Busy
<1>3. \A k : HasResult(k)' <=> HasResult(k)
  BY DEF HasResult
<1>4. OnePlace'
  BY <1>2, <1>3 DEF BulkInv, OnePlace
<1>5. NothingDropped'
  BY <1>2, <1>3 DEF BulkInv, NothingDropped
<1>6. AllExited'
  BY <1>1 DEF BulkInv, AllExited
<1> QED BY <1>4, <1>5, <1>6

(* The count of late calls when the set of those under way does not grow.  *)
LEMMA LateKeeps ==
  ASSUME BulkInv, UNCHANGED <<cancelled, late>>, ctxDone' \in BOOLEAN, ctxDone => ctxDone',
         cancelled => Going' \subseteq Going
  PROVE  LateIsBounded'
<1>1. CASE ~cancelled
  BY <1>1 DEF BulkInv, LateIsBounded
<1>2. CASE cancelled
  <2>1. IsFiniteSet(Going) /\ Cardinality(Going) \in Nat /\ Cardinality(BulkWorkers) \in Nat
    BY WorkersCounted
  <2>2. Going' \in SUBSET Going
    BY <1>2
  <2>3. IsFiniteSet(Going') /\ Cardinality(Going') <= Cardinality(Going)
    BY <2>1, <2>2, FS_Subset
  <2>4. Cardinality(Going') \in Nat
    BY <2>3, FS_CardinalityType
  <2>5. late + Cardinality(Going) <= Cardinality(BulkWorkers) - (IF ctxDone THEN 0 ELSE 1)
    BY <1>2 DEF BulkInv, LateIsBounded
  <2> HIDE DEF Going
  <2>6. late + Cardinality(Going') <= Cardinality(BulkWorkers) - (IF ctxDone' THEN 0 ELSE 1)
    <3>1. late \in Nat
      BY DEF BulkInv, BulkTypeOK
    <3> QED BY <2>1, <2>3, <2>4, <2>5, <3>1
  <2> QED BY <1>2, <2>6 DEF LateIsBounded
<1> QED BY <1>1, <1>2 DEF BulkInv, BulkTypeOK

LEMMA BulkInvStep == BulkInv /\ [BulkNext]_bulkVars => BulkInv'
<1> SUFFICES ASSUME BulkInv, [BulkNext]_bulkVars PROVE BulkInv'
  OBVIOUS
<1> USE BulkAssumption
<1>a. BulkTypeOK /\ OnePlace /\ NothingDropped /\ AllExited /\ LateIsBounded
  BY DEF BulkInv
<1>0. CASE UNCHANGED bulkVars
  BY <1>0, <1>a DEF bulkVars, BulkInv, BulkTypeOK, OnePlace, NothingDropped, AllExited,
                    LateIsBounded, Busy, HasResult, Going
(* A step of the caller or of the context leaves the workers alone.        *)
<1>b. ASSUME UNCHANGED <<bulkWorker, bulkJob, results>>
      PROVE  /\ \A w \in BulkWorkers : Busy(w)' <=> Busy(w)
             /\ \A k : HasResult(k)' <=> HasResult(k)
             /\ Going' = Going
  BY <1>b DEF Busy, HasResult, Going
<1>1. CASE BulkRun
  <2>1. /\ index = 0 /\ index' = 1
        /\ UNCHANGED <<ctxDone, cancelled, bulkWorker, bulkJob, results, late>>
    BY <1>1 DEF BulkRun
  <2>2. BulkTypeOK' /\ NothingDropped' /\ AllExited'
    BY <1>a, <2>1 DEF BulkTypeOK, NothingDropped, AllExited
  <2>3. OnePlace'
    <3>1. \A w \in BulkWorkers : ~Busy(w)
      BY <1>a, <2>1 DEF OnePlace
    <3>2. \A i \in DOMAIN results : results[i][1] \in Nat
      BY <1>a, LenProperties, ElementOfSeq DEF BulkTypeOK
    <3>3. \A w \in BulkWorkers : ~Busy(w)'
      BY <1>b, <2>1, <3>1
    <3> QED BY <1>a, <2>1, <3>2, <3>3 DEF OnePlace
  <2>4. LateIsBounded'
    BY <1>a, <1>b, <2>1, LateKeeps DEF BulkTypeOK
  <2> QED BY <2>2, <2>3, <2>4 DEF BulkInv
<1>2. CASE DropIndex
  <2>1. /\ index \in 1 .. Values /\ index' = index + 1 /\ ctxDone /\ cancelled' = TRUE
        /\ UNCHANGED <<ctxDone, bulkWorker, bulkJob, results, late>>
    BY <1>2 DEF DropIndex
  <2>2. BulkTypeOK' /\ NothingDropped' /\ AllExited'
    BY <1>a, <2>1 DEF BulkTypeOK, NothingDropped, AllExited
  <2>3. OnePlace'
    <3>1. \A i \in DOMAIN results : results[i][1] \in Nat
      BY <1>a, LenProperties, ElementOfSeq DEF BulkTypeOK
    <3> QED BY <1>a, <1>b, <2>1, <3>1 DEF OnePlace, BulkTypeOK
  <2>4. LateIsBounded'
    <3>1. late + Cardinality(Going) <= Cardinality(BulkWorkers)
      <4>1. CASE cancelled
        BY <1>a, <2>1, <4>1, WorkersCounted DEF LateIsBounded, BulkTypeOK
      <4>2. CASE ~cancelled
        <5>1. late = 0
          BY <1>a, <4>2 DEF LateIsBounded
        <5> QED BY <5>1, WorkersCounted
      <4> QED BY <4>1, <4>2
    <3>2. Going' = Going
      BY <1>b, <2>1
    <3>3. Cardinality(BulkWorkers) - 0 = Cardinality(BulkWorkers)
      BY WorkersCounted
    <3> QED BY <2>1, <3>1, <3>2, <3>3 DEF LateIsBounded
  <2> QED BY <2>2, <2>3, <2>4 DEF BulkInv
<1>3. CASE RunReturns
  <2>1. /\ index = Values + 1 /\ index' = index + 1
        /\ \A w \in BulkWorkers : bulkWorker[w] = "exited"
        /\ UNCHANGED <<ctxDone, cancelled, bulkWorker, bulkJob, results, late>>
    BY <1>3 DEF RunReturns
  <2>2. BulkTypeOK' /\ AllExited'
    BY <1>a, <2>1 DEF BulkTypeOK, AllExited
  <2>3. OnePlace' /\ NothingDropped'
    <3>1. \A i \in DOMAIN results : results[i][1] \in Nat
      BY <1>a, LenProperties, ElementOfSeq DEF BulkTypeOK
    <3>2. \A w \in BulkWorkers : ~Busy(w)
      BY <2>1 DEF Busy
    <3>3. OnePlace'
      BY <1>a, <1>b, <2>1, <3>1, <3>2 DEF OnePlace
    <3>4. NothingDropped'
      BY <1>a, <1>b, <2>1, <3>2 DEF NothingDropped
    <3> QED BY <3>3, <3>4
  <2>4. LateIsBounded'
    BY <1>a, <1>b, <2>1, LateKeeps DEF BulkTypeOK
  <2> QED BY <2>2, <2>3, <2>4 DEF BulkInv
<1>4. CASE BulkCancel
  <2>1. /\ ctxDone' = TRUE
        /\ UNCHANGED <<index, cancelled, bulkWorker, bulkJob, results, late>>
    BY <1>4 DEF BulkCancel
  <2>2. BulkTypeOK' /\ NothingDropped' /\ AllExited'
    BY <1>a, <2>1 DEF BulkTypeOK, NothingDropped, AllExited
  <2>3. OnePlace'
    BY <1>a, <1>b, <2>1 DEF OnePlace
  <2>4. LateIsBounded'
    BY <1>a, <1>b, <2>1, LateKeeps DEF BulkTypeOK
  <2> QED BY <2>2, <2>3, <2>4 DEF BulkInv
<1>5. ASSUME NEW w \in BulkWorkers, Dispatch(w) PROVE BulkInv'
  <2>1. /\ index \in 1 .. Values /\ bulkWorker[w] = "idle" /\ index' = index + 1
        /\ bulkWorker' = [bulkWorker EXCEPT ![w] = "got"]
        /\ bulkJob' = [bulkJob EXCEPT ![w] = index]
        /\ UNCHANGED <<ctxDone, cancelled, results, late>>
    BY <1>5 DEF Dispatch
  <2>2. BulkTypeOK' /\ AllExited'
    BY <1>a, <2>1 DEF BulkTypeOK, AllExited
  <2>3. /\ bulkWorker'[w] = "got" /\ bulkJob'[w] = index
        /\ \A v \in BulkWorkers : v # w => /\ bulkWorker'[v] = bulkWorker[v]
                                           /\ bulkJob'[v] = bulkJob[v]
    BY <1>a, <2>1 DEF BulkTypeOK
  <2>4. Busy(w)' /\ ~Busy(w) /\ \A v \in BulkWorkers : v # w => (Busy(v)' <=> Busy(v))
    BY <2>1, <2>3 DEF Busy
  <2>5. \A k : HasResult(k)' <=> HasResult(k)
    BY <2>1 DEF HasResult
  <2>6. \A i \in DOMAIN results : results[i][1] \in Nat
    BY <1>a, LenProperties, ElementOfSeq DEF BulkTypeOK
  <2>7. ~HasResult(index)
    BY <1>a, <2>1, <2>6 DEF HasResult, OnePlace
  <2>8. OnePlace'
    <3>1. \A v \in BulkWorkers : v # w /\ Busy(v) => bulkJob[v] # index
      BY <1>a, <2>1 DEF OnePlace, BulkTypeOK
    <3>2. \A v \in BulkWorkers : Busy(v)' =>
            bulkJob'[v] \in 1 .. Values /\ bulkJob'[v] < index' /\ ~HasResult(bulkJob[v])'
      <4> SUFFICES ASSUME NEW v \in BulkWorkers, Busy(v)'
                   PROVE  bulkJob'[v] \in 1 .. Values /\ bulkJob'[v] < index'
                          /\ ~HasResult(bulkJob[v])'
        OBVIOUS
      <4>a. HasResult(bulkJob[v])' <=> HasResult(bulkJob'[v])
        BY <2>1 DEF HasResult
      <4>1. CASE v = w
        BY <2>1, <2>3, <2>7, <4>a, <4>1
      <4>2. CASE v # w
        <5>1. /\ bulkJob'[v] = bulkJob[v] /\ bulkJob[v] \in 1 .. Values
              /\ bulkJob[v] < index /\ ~HasResult(bulkJob[v])
          BY <1>a, <2>3, <2>4, <4>2 DEF OnePlace
        <5> QED BY <2>1, <4>a, <5>1
      <4> QED BY <4>1, <4>2
    <3>3. \A u, v \in BulkWorkers : Busy(u)' /\ Busy(v)' /\ bulkJob'[u] = bulkJob'[v] => u = v
      BY <1>a, <2>3, <2>4, <3>1 DEF OnePlace
    <3>4. \A i \in DOMAIN results' : results'[i][1] < index'
      BY <1>a, <2>1, <2>6 DEF OnePlace
    <3>5. \A i, j \in DOMAIN results' : results'[i][1] = results'[j][1] => i = j
      BY <1>a, <2>1 DEF OnePlace
    <3> QED BY <3>2, <3>3, <3>4, <3>5 DEF OnePlace
  <2>9. NothingDropped'
    <3> SUFFICES ASSUME ~ctxDone, NEW k \in 1 .. Values, k < index'
                 PROVE  HasResult(k)' \/ \E v \in BulkWorkers : Busy(v)' /\ bulkJob'[v] = k
      BY <2>1 DEF NothingDropped
    <3>1. CASE k = index
      BY <2>3, <2>4, <3>1
    <3>2. CASE k # index
      <4>1. k < index
        BY <2>1, <3>2
      <4>2. HasResult(k) \/ \E v \in BulkWorkers : Busy(v) /\ bulkJob[v] = k
        BY <1>a, <4>1 DEF NothingDropped
      <4> QED BY <2>3, <2>4, <2>5, <4>2
    <3> QED BY <3>1, <3>2
  <2>10. LateIsBounded'
    <3>1. Going' = Going
      BY <2>1, <2>3 DEF Going
    <3> QED BY <1>a, <2>1, <3>1, LateKeeps DEF BulkTypeOK
  <2> QED BY <2>2, <2>8, <2>9, <2>10 DEF BulkInv
<1>6. ASSUME NEW w \in BulkWorkers, ReadFlag(w) PROVE BulkInv'
  <2> DEFINE to == IF cancelled THEN "skip" ELSE "go"
  <2>1. /\ bulkWorker[w] = "got" /\ bulkWorker' = [bulkWorker EXCEPT ![w] = to]
        /\ UNCHANGED <<index, ctxDone, cancelled, bulkJob, results, late>>
    BY <1>6 DEF ReadFlag
  <2>2. to \in {"skip", "go"} /\ (cancelled => to = "skip")
    OBVIOUS
  <2> HIDE DEF to
  <2>3. OnePlace' /\ NothingDropped' /\ AllExited'
    BY <2>1, <2>2, WorkerMoves DEF Busy
  <2>4. BulkTypeOK'
    BY <1>a, <2>1, <2>2 DEF BulkTypeOK
  <2>5. cancelled => Going' \subseteq Going
    BY <1>a, <2>1, <2>2 DEF Going, BulkTypeOK
  <2>6. LateIsBounded'
    BY <1>a, <2>1, <2>5, LateKeeps DEF BulkTypeOK
  <2> QED BY <2>3, <2>4, <2>6 DEF BulkInv
<1>7. ASSUME NEW w \in BulkWorkers, Handle(w) PROVE BulkInv'
  <2>1. PICK end \in {"ok", "failed"} : bulkWorker' = [bulkWorker EXCEPT ![w] = end]
    BY <1>7 DEF Handle
  <2>2. /\ bulkWorker[w] = "go" /\ late' = late + (IF cancelled THEN 1 ELSE 0)
        /\ UNCHANGED <<index, ctxDone, cancelled, bulkJob, results>>
    BY <1>7 DEF Handle
  <2>3. OnePlace' /\ NothingDropped' /\ AllExited'
    BY <2>1, <2>2, WorkerMoves DEF Busy
  <2>4. BulkTypeOK'
    BY <1>a, <2>1, <2>2 DEF BulkTypeOK
  <2>5. w \in Going /\ Going' = Going \ {w}
    BY <1>a, <2>1, <2>2 DEF Going, BulkTypeOK
  <2>6. LateIsBounded'
    <3>1. CASE ~cancelled
      BY <1>a, <2>2, <3>1 DEF LateIsBounded
    <3>2. CASE cancelled
      <4>1. Cardinality(Going') = Cardinality(Going) - 1
        BY <2>5, WorkersCounted, FS_RemoveElement
      <4>2. late' = late + 1 /\ late \in Nat
        BY <1>a, <2>2, <3>2 DEF BulkTypeOK
      <4>3. late + Cardinality(Going) <= Cardinality(BulkWorkers) - (IF ctxDone THEN 0 ELSE 1)
        BY <1>a, <3>2 DEF LateIsBounded
      <4>4. late' + Cardinality(Going') = late + Cardinality(Going)
        <5>1. \A a, b \in Int : (a + 1) + (b - 1) = a + b
          OBVIOUS
        <5> QED BY <4>1, <4>2, <5>1, WorkersCounted
      <4> QED BY <2>2, <3>2, <4>3, <4>4 DEF LateIsBounded
    <3> QED BY <3>1, <3>2
  <2> QED BY <2>3, <2>4, <2>6 DEF BulkInv
<1>8. ASSUME NEW w \in BulkWorkers, SendResult(w) PROVE BulkInv'
  <2> DEFINE r == <<bulkJob[w], bulkWorker[w]>>
             R == (1 .. Values) \X {"ok", "failed", "skip"}
             to == IF bulkWorker[w] = "failed" /\ StopOnError THEN "stop" ELSE "idle"
  <2>1. /\ bulkWorker[w] \in {"ok", "failed", "skip"} /\ results' = Append(results, r)
        /\ bulkWorker' = [bulkWorker EXCEPT ![w] = to]
        /\ UNCHANGED <<index, ctxDone, cancelled, bulkJob, late>>
    BY <1>8 DEF SendResult, AfterResult
  <2>2. /\ Busy(w) /\ bulkJob[w] \in 1 .. Values /\ bulkJob[w] < index
        /\ ~HasResult(bulkJob[w])
    BY <1>a, <2>1 DEF OnePlace, Busy
  <2>3. r \in R /\ r[1] = bulkJob[w] /\ results \in Seq(R) /\ to \in {"stop", "idle"}
    BY <1>a, <2>1, <2>2 DEF BulkTypeOK
  <2> HIDE DEF r, to
  <2>4. /\ results' \in Seq(R) /\ Len(results) \in Nat
        /\ DOMAIN results = 1 .. Len(results) /\ DOMAIN results' = 1 .. Len(results) + 1
        /\ \A i \in 1 .. Len(results) : results'[i] = results[i]
        /\ results'[Len(results) + 1] = r
    BY <2>1, <2>3, AppendProperties, LenProperties
  <2>5. /\ bulkWorker'[w] = to
        /\ \A v \in BulkWorkers : v # w => bulkWorker'[v] = bulkWorker[v]
    BY <1>a, <2>1 DEF BulkTypeOK
  <2>6. ~Busy(w)' /\ \A v \in BulkWorkers : v # w => (Busy(v)' <=> Busy(v))
    BY <2>3, <2>5 DEF Busy
  <2>7. \A k : HasResult(k)' <=> HasResult(k) \/ k = bulkJob[w]
    <3> SUFFICES ASSUME NEW k PROVE HasResult(k)' <=> HasResult(k) \/ k = bulkJob[w]
      OBVIOUS
    <3>1. Len(results) + 1 \in DOMAIN results' /\ results'[Len(results) + 1][1] = bulkJob[w]
      BY <2>3, <2>4
    <3>2. \A i \in DOMAIN results : i \in DOMAIN results' /\ results'[i] = results[i]
      BY <2>4
    <3>3. \A i \in DOMAIN results' : i \in DOMAIN results \/ i = Len(results) + 1
      BY <2>4
    <3> QED BY <3>1, <3>2, <3>3 DEF HasResult
  <2>8. BulkTypeOK'
    BY <1>a, <2>1, <2>3, <2>4 DEF BulkTypeOK
  <2>9. AllExited'
    BY <1>a, <2>1 DEF AllExited
  <2>10. NothingDropped'
    <3> SUFFICES ASSUME ~ctxDone, NEW k \in 1 .. Values, k < index
                 PROVE  HasResult(k)' \/ \E v \in BulkWorkers : Busy(v)' /\ bulkJob'[v] = k
      BY <2>1 DEF NothingDropped
    <3>1. HasResult(k) \/ \E v \in BulkWorkers : Busy(v) /\ bulkJob[v] = k
      BY <1>a DEF NothingDropped
    <3> QED BY <2>1, <2>6, <2>7, <3>1
  <2>11. OnePlace'
    <3>1. \A v \in BulkWorkers : v # w /\ Busy(v) => bulkJob[v] # bulkJob[w]
      BY <1>a, <2>2 DEF OnePlace
    <3>2. \A v \in BulkWorkers : Busy(v)' =>
            bulkJob'[v] \in 1 .. Values /\ bulkJob'[v] < index' /\ ~HasResult(bulkJob[v])'
      <4>1. \A v \in BulkWorkers : v # w /\ Busy(v) => ~HasResult(bulkJob[v])'
        BY <1>a, <2>1, <2>7, <3>1 DEF OnePlace
      <4> QED BY <1>a, <2>1, <2>6, <4>1 DEF OnePlace
    <3>3. \A u, v \in BulkWorkers : Busy(u)' /\ Busy(v)' /\ bulkJob'[u] = bulkJob'[v] => u = v
      BY <1>a, <2>1, <2>6 DEF OnePlace
    <3>4. \A i \in DOMAIN results : results'[i] = results[i] /\ results[i][1] # bulkJob[w]
      BY <2>2, <2>4 DEF HasResult
    <3>5. \A i \in DOMAIN results' : i \in DOMAIN results \/
                                     (i = Len(results) + 1 /\ results'[i][1] = bulkJob[w])
      BY <2>3, <2>4
    <3>6. \A i \in DOMAIN results' : results'[i][1] < index'
      BY <1>a, <2>1, <2>2, <3>4, <3>5 DEF OnePlace
    <3>7. \A i, j \in DOMAIN results' : results'[i][1] = results'[j][1] => i = j
      BY <1>a, <3>4, <3>5 DEF OnePlace
    <3> QED BY <3>2, <3>3, <3>6, <3>7 DEF OnePlace
  <2>12. Going' \subseteq Going
    BY <2>3, <2>5 DEF Going
  <2>13. LateIsBounded'
    BY <1>a, <2>1, <2>12, LateKeeps DEF BulkTypeOK
  <2> QED BY <2>8, <2>9, <2>10, <2>11, <2>13 DEF BulkInv
<1>9. ASSUME NEW w \in BulkWorkers, SetFlag(w) PROVE BulkInv'
  <2>1. /\ bulkWorker[w] = "stop" /\ bulkWorker' = [bulkWorker EXCEPT ![w] = "idle"]
        /\ cancelled' = TRUE /\ UNCHANGED <<index, ctxDone, bulkJob, results, late>>
    BY <1>9 DEF SetFlag
  <2>2. OnePlace' /\ NothingDropped' /\ AllExited'
    BY <2>1, WorkerMoves DEF Busy
  <2>3. BulkTypeOK'
    BY <1>a, <2>1 DEF BulkTypeOK
  <2>4. w \notin Going /\ Going' = Going
    BY <1>a, <2>1 DEF Going, BulkTypeOK
  <2>5. LateIsBounded'
    <3>1. late + Cardinality(Going) <= Cardinality(BulkWorkers) - (IF ctxDone THEN 0 ELSE 1)
      <4>1. CASE cancelled
        BY <1>a, <4>1 DEF LateIsBounded
      <4>2. CASE ~cancelled
        <5>1. late = 0 /\ Cardinality(Going) <= Cardinality(BulkWorkers) - 1
          BY <1>a, <2>4, <4>2, WorkersCounted DEF LateIsBounded
        <5> QED BY <5>1, WorkersCounted
      <4> QED BY <4>1, <4>2
    <3> QED BY <2>1, <2>4, <3>1 DEF LateIsBounded
  <2> QED BY <2>2, <2>3, <2>5 DEF BulkInv
<1>10. ASSUME NEW w \in BulkWorkers, RangeEnds(w) PROVE BulkInv'
  <2>1. /\ bulkWorker[w] = "idle" /\ bulkWorker' = [bulkWorker EXCEPT ![w] = "exited"]
        /\ UNCHANGED <<index, ctxDone, cancelled, bulkJob, results, late>>
    BY <1>10 DEF RangeEnds
  <2>2. OnePlace' /\ NothingDropped' /\ AllExited'
    BY <2>1, WorkerMoves DEF Busy
  <2>3. BulkTypeOK'
    BY <1>a, <2>1 DEF BulkTypeOK
  <2>4. Going' = Going
    BY <1>a, <2>1 DEF Going, BulkTypeOK
  <2>5. LateIsBounded'
    BY <1>a, <2>1, <2>4, LateKeeps DEF BulkTypeOK
  <2> QED BY <2>2, <2>3, <2>5 DEF BulkInv
<1> QED BY <1>0, <1>1, <1>2, <1>3, <1>4, <1>5, <1>6, <1>7, <1>8, <1>9, <1>10
        DEF BulkNext, BulkStep

(* When Run returns no index has two results, and every index has one if   *)
(* the context was never done; after the flag is set each worker begins at *)
(* most the one Handle it had checked the flag for.                        *)
THEOREM BulkIsSound == BulkSpec => []BulkSound
<1>1. BulkInv => OneResultEach
  <2> SUFFICES ASSUME BulkInv, index = Values + 2
               PROVE  LET indices == {results[i][1] : i \in DOMAIN results} IN
                      /\ Cardinality(indices) = Len(results)
                      /\ ~ctxDone => indices = 1 .. Values
    BY DEF OneResultEach
  <2> DEFINE indices == {results[i][1] : i \in DOMAIN results}
             f == [i \in 1 .. Len(results) |-> results[i][1]]
  <2>1. Len(results) \in Nat /\ DOMAIN results = 1 .. Len(results)
    BY LenProperties DEF BulkInv, BulkTypeOK
  <2>2. Cardinality(indices) = Len(results)
    <3>1. f \in Bijection(1 .. Len(results), indices)
      <4>1. f \in [1 .. Len(results) -> indices]
        BY <2>1
      <4>2. \A i, j \in 1 .. Len(results) : f[i] = f[j] => i = j
        BY <2>1 DEF BulkInv, OnePlace
      <4>3. \A k \in indices : \E i \in 1 .. Len(results) : f[i] = k
        BY <2>1
      <4> QED BY <4>1, <4>2, <4>3 DEF Bijection, Injection, Surjection, IsInjective
    <3>2. ExistsBijection(1 .. Len(results), indices)
      BY <3>1 DEF ExistsBijection
    <3> QED BY <2>1, <3>2, FS_CountingElements
  <2>3. ASSUME ~ctxDone PROVE indices = 1 .. Values
    <3>1. \A w \in BulkWorkers : ~Busy(w)
      BY DEF BulkInv, AllExited, Busy
    <3>2. \A k \in 1 .. Values : k \in indices
      BY <2>3, <3>1, BulkAssumption DEF BulkInv, NothingDropped, HasResult
    <3>3. \A i \in DOMAIN results : results[i][1] \in 1 .. Values
      BY <2>1, ElementOfSeq DEF BulkInv, BulkTypeOK
    <3> QED BY <3>2, <3>3
  <2> QED BY <2>2, <2>3
<1>2. BulkInv => StopsSoon
  <2> SUFFICES ASSUME BulkInv PROVE StopsSoon
    OBVIOUS
  <2>1. CASE cancelled
    <3>1. late + Cardinality(Going) <= Cardinality(BulkWorkers) - (IF ctxDone THEN 0 ELSE 1)
      BY <2>1 DEF BulkInv, LateIsBounded
    <3>2. late \in Nat
      BY DEF BulkInv, BulkTypeOK
    <3> QED BY <3>1, <3>2, WorkersCounted DEF StopsSoon
  <2>2. CASE ~cancelled
    <3>1. late = 0
      BY <2>2 DEF BulkInv, LateIsBounded
    <3> QED BY <3>1, WorkersCounted DEF StopsSoon
  <2> QED BY <2>1, <2>2 DEF BulkInv, BulkTypeOK
<1> QED BY <1>1, <1>2, InitBulk, BulkInvStep, PTL DEF BulkSpec, BulkSound
-----------------------------------------------------------------------------
(* The stream bus.                                                         *)

Message == Publishers \X Nat

BusTypeOK ==
  /\ subscriber \in [Subscribers -> {"out", "joins", "in", "leaves", "gone"}]
  /\ channel \in [Subscribers -> Seq(Message)] /\ received \in [Subscribers -> Seq(Message)]
  /\ publisher \in [Publishers -> {"idle", "sends"}]
  /\ targets \in [Publishers -> SUBSET Subscribers]
  /\ sequenceNo \in [Publishers -> Nat]

(* Only a Publish under way, with the read lock, has subscribers to send   *)
(* to, and who has not joined yet has got nothing.                         *)
LockHeld ==
  /\ NoSendOnClosed
  /\ \A p \in Publishers : publisher[p] = "idle" => targets[p] = {}
  /\ \A s \in Subscribers : subscriber[s] \in {"out", "joins"} =>
       channel[s] = <<>> /\ received[s] = <<>>

(* The messages of a publisher are in order, none is from a later call     *)
(* than its last one, and a subscriber still to be sent to does not have   *)
(* the current one.                                                        *)
InOrder ==
  \A s \in Subscribers :
    /\ \A i, j \in DOMAIN Stream(s) :
         j < i /\ Stream(s)[j][1] = Stream(s)[i][1] => Stream(s)[j][2] < Stream(s)[i][2]
    /\ \A i \in DOMAIN Stream(s) : Stream(s)[i][2] <= sequenceNo[Stream(s)[i][1]]
    /\ \A p \in Publishers : s \in targets[p] =>
         \A i \in DOMAIN Stream(s) : Stream(s)[i][1] = p => Stream(s)[i][2] < sequenceNo[p]

(* A Publish under way has sent to every member that it is not still to    *)
(* send to: nobody joins while it holds the read lock.                     *)
SentToTheOthers ==
  \A p \in Publishers : publisher[p] = "sends" =>
    \A s \in Members : s \in targets[p] \/ Got(s, p, sequenceNo[p])

Complete ==
  \A s \in Members : \A i \in DOMAIN Stream(s) :
    \A n \in Stream(s)[i][2] .. Completed(Stream(s)[i][1]) :
      Got(s, Stream(s)[i][1], n) \/ <<Stream(s)[i][1], n>> \in failed

(* The inductive invariant.                                                *)
BusInv == BusTypeOK /\ LockHeld /\ InOrder /\ SentToTheOthers /\ Complete

LEMMA StreamType ==
  ASSUME BusTypeOK, NEW s \in Subscribers
  PROVE  /\ Stream(s) \in Seq(Message) /\ Len(Stream(s)) \in Nat
         /\ DOMAIN Stream(s) = 1 .. Len(Stream(s))
         /\ \A i \in DOMAIN Stream(s) : Stream(s)[i] \in Message
                                        /\ Stream(s)[i][1] \in Publishers
                                        /\ Stream(s)[i][2] \in Nat
<1>1. Stream(s) \in Seq(Message)
  BY ConcatProperties DEF BusTypeOK, Stream
<1>2. Len(Stream(s)) \in Nat /\ DOMAIN Stream(s) = 1 .. Len(Stream(s))
  BY <1>1, LenProperties
<1>3. \A i \in DOMAIN Stream(s) : Stream(s)[i] \in Message
  BY <1>1, <1>2, ElementOfSeq
<1>4. \A m \in Message : m[1] \in Publishers /\ m[2] \in Nat
  BY DEF Message
<1> QED BY <1>1, <1>2, <1>3, <1>4

LEMMA InitBus == BusInit => BusInv
<1> SUFFICES ASSUME BusInit PROVE BusInv
  OBVIOUS
<1>1. <<>> \in Seq(Message) /\ <<>> \o <<>> = <<>>
  BY EmptySeq, ConcatEmptySeq
<1>2. BusTypeOK
  BY <1>1 DEF BusInit, BusTypeOK
<1>3. \A s \in Subscribers : Stream(s) = <<>>
  BY <1>1 DEF BusInit, Stream
<1>4. LockHeld /\ SentToTheOthers
  BY DEF BusInit, LockHeld, SentToTheOthers, NoSendOnClosed
<1>5. InOrder /\ Complete
  <2>1. \A s \in Subscribers : DOMAIN Stream(s) = {}
    BY <1>3
  <2> QED BY <2>1 DEF InOrder, Complete, Members
<1> QED BY <1>2, <1>4, <1>5 DEF BusInv

(* The streams do not change unless a message is sent.                     *)
LEMMA SameStreams ==
  ASSUME \A s \in Subscribers : Stream(s)' = Stream(s)
  PROVE  \A s \in Subscribers : \A p, n : Got(s, p, n)' <=> Got(s, p, n)
BY DEF Got

LEMMA BusStep == BusInv /\ [BusNext]_busVars => BusInv'
<1> SUFFICES ASSUME BusInv, [BusNext]_busVars PROVE BusInv'
  OBVIOUS
<1>a. BusTypeOK /\ LockHeld /\ InOrder /\ SentToTheOthers /\ Complete
  BY DEF BusInv
<1>b. ASSUME UNCHANGED <<channel, received>>
      PROVE  /\ \A s \in Subscribers : Stream(s)' = Stream(s)
             /\ \A s \in Subscribers : \A p, n : Got(s, p, n)' <=> Got(s, p, n)
  <2>1. \A s \in Subscribers : Stream(s)' = Stream(s)
    BY <1>b DEF Stream
  <2> QED BY <2>1, SameStreams
<1>0. CASE UNCHANGED busVars
  BY <1>0, <1>a, <1>b DEF busVars, BusInv, BusTypeOK, LockHeld, NoSendOnClosed, InOrder,
                          SentToTheOthers, Complete, Completed, Members
<1>m. Members \subseteq Subscribers
  BY DEF Members
<1>t. \A s \in Subscribers :
        /\ Len(Stream(s)) \in Nat /\ DOMAIN Stream(s) = 1 .. Len(Stream(s))
        /\ \A i \in DOMAIN Stream(s) : Stream(s)[i][1] \in Publishers /\ Stream(s)[i][2] \in Nat
  BY <1>a, StreamType
<1>1. ASSUME NEW p \in Publishers, Publish(p) PROVE BusInv'
  <2>1. /\ publisher[p] = "idle" /\ publisher' = [publisher EXCEPT ![p] = "sends"]
        /\ targets' = [targets EXCEPT ![p] = Members]
        /\ sequenceNo' = [sequenceNo EXCEPT ![p] = @ + 1]
        /\ UNCHANGED <<subscriber, channel, received, failed>>
    BY <1>1 DEF Publish
  <2>2. /\ publisher'[p] = "sends" /\ targets'[p] = Members
        /\ sequenceNo'[p] = sequenceNo[p] + 1 /\ sequenceNo[p] \in Nat
        /\ \A q \in Publishers : q # p => /\ publisher'[q] = publisher[q]
                                          /\ targets'[q] = targets[q]
                                          /\ sequenceNo'[q] = sequenceNo[q]
        /\ \A q \in Publishers : sequenceNo[q] \in Nat
    BY <1>a, <2>1 DEF BusTypeOK
  <2>3. Members' = Members /\ \A s \in Subscribers : Stream(s)' = Stream(s)
    BY <1>b, <2>1 DEF Members
  <2>4. BusTypeOK'
    BY <1>a, <1>m, <2>1 DEF BusTypeOK
  <2>5. LockHeld'
    BY <1>a, <2>1, <2>2, <2>3 DEF LockHeld, NoSendOnClosed
  <2>6. InOrder'
    <3> SUFFICES ASSUME NEW s \in Subscribers
                 PROVE  /\ \A i, j \in DOMAIN Stream(s) :
                             j < i /\ Stream(s)[j][1] = Stream(s)[i][1]
                               => Stream(s)[j][2] < Stream(s)[i][2]
                        /\ \A i \in DOMAIN Stream(s) :
                             Stream(s)[i][2] <= sequenceNo'[Stream(s)[i][1]]
                        /\ \A q \in Publishers : s \in targets'[q] =>
                             \A i \in DOMAIN Stream(s) : Stream(s)[i][1] = q =>
                               Stream(s)[i][2] < sequenceNo'[q]
      BY <2>3 DEF InOrder
    <3>1. \A i \in DOMAIN Stream(s) :
            /\ Stream(s)[i][2] <= sequenceNo'[Stream(s)[i][1]]
            /\ Stream(s)[i][1] = p => Stream(s)[i][2] < sequenceNo'[p]
      BY <1>a, <1>t, <2>2 DEF InOrder
    <3> QED BY <1>a, <2>2, <3>1 DEF InOrder
  <2>7. SentToTheOthers'
    BY <1>a, <1>b, <1>m, <2>1, <2>2, <2>3 DEF SentToTheOthers
  <2>8. \A q \in Publishers : Completed(q)' = Completed(q)
    BY <2>1, <2>2 DEF Completed
  <2>9. Complete'
    BY <1>a, <1>b, <1>m, <1>t, <2>1, <2>3, <2>8 DEF Complete
  <2> QED BY <2>4, <2>5, <2>6, <2>7, <2>9 DEF BusInv
<1>2. ASSUME NEW p \in Publishers, PublishReturns(p) \/ PublishExpires(p) PROVE BusInv'
  <2>1. /\ publisher[p] = "sends" /\ publisher' = [publisher EXCEPT ![p] = "idle"]
        /\ targets' = [targets EXCEPT ![p] = {}]
        /\ targets[p] = {} \/ <<p, sequenceNo[p]>> \in failed'
        /\ failed \subseteq failed'
        /\ UNCHANGED <<subscriber, channel, received, sequenceNo>>
    BY <1>a, <1>2 DEF PublishReturns, PublishExpires, BusTypeOK
  <2>2. /\ publisher'[p] = "idle" /\ targets'[p] = {} /\ sequenceNo[p] \in Nat
        /\ \A q \in Publishers : q # p => /\ publisher'[q] = publisher[q]
                                          /\ targets'[q] = targets[q]
    BY <1>a, <2>1 DEF BusTypeOK
  <2>3. Members' = Members /\ \A s \in Subscribers : Stream(s)' = Stream(s)
    BY <1>b, <2>1 DEF Members
  <2>4. BusTypeOK'
    BY <1>a, <2>1 DEF BusTypeOK
  <2>5. LockHeld'
    BY <1>a, <2>1, <2>2, <2>3 DEF LockHeld, NoSendOnClosed
  <2>6. InOrder'
    BY <1>a, <2>1, <2>2, <2>3 DEF InOrder
  <2>7. SentToTheOthers'
    BY <1>a, <1>b, <1>m, <2>1, <2>2, <2>3 DEF SentToTheOthers
  <2>8. /\ Completed(p)' = sequenceNo[p] /\ Completed(p) = sequenceNo[p] - 1
        /\ \A q \in Publishers : q # p => Completed(q)' = Completed(q)
    BY <2>1, <2>2 DEF Completed
  <2>9. \A s \in Members : Got(s, p, sequenceNo[p]) \/ <<p, sequenceNo[p]>> \in failed'
    BY <1>a, <2>1 DEF SentToTheOthers
  <2>10. ASSUME NEW s \in Members, NEW i \in DOMAIN Stream(s),
                NEW q \in Publishers, q = Stream(s)[i][1],
                NEW n \in Stream(s)[i][2] .. Completed(q)'
         PROVE  Got(s, q, n) \/ <<q, n>> \in failed'
    <3>1. s \in Subscribers /\ Stream(s)[i][2] \in Nat
      BY <1>m, <1>t
    <3>2. CASE n \in Stream(s)[i][2] .. Completed(q)
      BY <1>a, <2>1, <2>10, <3>2 DEF Complete
    <3>3. CASE n \notin Stream(s)[i][2] .. Completed(q)
      <4>1. q = p
        BY <2>8, <3>3
      <4>2. n = sequenceNo[p]
        BY <2>2, <2>8, <3>1, <3>3, <4>1
      <4> QED BY <2>9, <4>1, <4>2
    <3> QED BY <3>2, <3>3
  <2>11. Complete'
    <3> SUFFICES ASSUME NEW s \in Members, NEW i \in DOMAIN Stream(s),
                        NEW n \in Stream(s)'[i][2] .. Completed(Stream(s)[i][1])'
                 PROVE  Got(s, Stream(s)[i][1], n)' \/ <<Stream(s)[i][1], n>>' \in failed'
      BY <1>m, <2>3 DEF Complete
    <3>1. Stream(s)' = Stream(s) /\ s \in Subscribers
      BY <1>m, <2>3
    <3>2. PICK q \in Publishers : q = Stream(s)[i][1]
      BY <1>t, <3>1
    <3>3. Completed(Stream(s)[i][1])' = Completed(q)'
      BY <3>1, <3>2 DEF Completed
    <3>4. Got(s, q, n) \/ <<q, n>> \in failed'
      BY <2>10, <3>1, <3>2, <3>3
    <3> QED BY <2>1, <3>1, <3>2, <3>4 DEF Got, Stream
  <2> QED BY <2>4, <2>5, <2>6, <2>7, <2>11 DEF BusInv
<1>3. ASSUME NEW p \in Publishers, NEW s \in Subscribers, BusSend(p, s) PROVE BusInv'
  <2> DEFINE m == <<p, sequenceNo[p]>>
  <2>1. /\ s \in targets[p] /\ channel' = [channel EXCEPT ![s] = Append(@, m)]
        /\ targets' = [targets EXCEPT ![p] = @ \ {s}]
        /\ UNCHANGED <<subscriber, received, publisher, sequenceNo, failed>>
    BY <1>3 DEF BusSend
  <2>2. /\ m \in Message /\ m[1] = p /\ m[2] = sequenceNo[p] /\ sequenceNo[p] \in Nat
        /\ channel[s] \in Seq(Message) /\ received[s] \in Seq(Message)
    BY <1>a DEF BusTypeOK, Message
  <2> HIDE DEF m
  <2>3. /\ publisher[p] = "sends" /\ s \in Members /\ Members' = Members
        /\ targets'[p] = targets[p] \ {s}
        /\ \A q \in Publishers : q # p => targets'[q] = targets[q]
    BY <1>a, <2>1 DEF LockHeld, NoSendOnClosed, BusTypeOK, Members
  <2>4. BusTypeOK'
    <3>1. Append(channel[s], m) \in Seq(Message)
      BY <2>2, AppendProperties
    <3> QED BY <1>a, <2>1, <3>1 DEF BusTypeOK
  <2>5. /\ channel'[s] = Append(channel[s], m)
        /\ \A r \in Subscribers : r # s => channel'[r] = channel[r]
    BY <1>a, <2>1 DEF BusTypeOK
  <2>6. \A r \in Subscribers : r # s => Stream(r)' = Stream(r)
    BY <2>1, <2>5 DEF Stream
  <2>7. Stream(s)' = Append(Stream(s), m)
    <3>0. \A a, q \in Seq(Message), e \in Message : a \o Append(q, e) = Append(a \o q, e)
      BY ConcatAppend
    <3>1. received[s] \o Append(channel[s], m) = Append(received[s] \o channel[s], m)
      BY <2>2, <3>0
    <3>2. Stream(s)' = received'[s] \o channel'[s]
      BY DEF Stream
    <3> QED BY <2>1, <2>5, <3>1, <3>2 DEF Stream
  <2> DEFINE N == Len(Stream(s))
             st == Stream(s)
             st1 == Stream(s)'
  <2>8. /\ DOMAIN st1 = 1 .. N + 1 /\ DOMAIN st = 1 .. N /\ N \in Nat
        /\ \A i \in 1 .. N : st1[i] = st[i]
        /\ st1[N + 1] = m
    <3>1. st \in Seq(Message)
      BY <1>a, StreamType
    <3> QED BY <1>a, <2>2, <2>4, <2>7, <3>1, AppendProperties, LenProperties
  <2> HIDE DEF N, st, st1
  <2>9. LockHeld'
    BY <1>a, <2>1, <2>3, <2>5 DEF LockHeld, NoSendOnClosed, Members
  <2>10. /\ \A r \in Subscribers : \A q, n : Got(r, q, n) => Got(r, q, n)'
         /\ Got(s, p, sequenceNo[p])'
    <3>1. ASSUME NEW r \in Subscribers, NEW q, NEW n, Got(r, q, n) PROVE Got(r, q, n)'
      BY <2>6, <2>8, <3>1 DEF Got, st, st1
    <3>2. \E i \in DOMAIN st1 : st1[i] = <<p, sequenceNo[p]>>
      BY <2>8 DEF m
    <3>3. Got(s, p, sequenceNo[p])'
      BY <2>1, <3>2 DEF Got, st1
    <3> QED BY <3>1, <3>3
  <2>11. InOrder'
    <3>1. ASSUME NEW r \in Subscribers, r # s
          PROVE  /\ \A i, j \in DOMAIN Stream(r)' :
                      j < i /\ Stream(r)'[j][1] = Stream(r)'[i][1]
                        => Stream(r)'[j][2] < Stream(r)'[i][2]
                 /\ \A i \in DOMAIN Stream(r)' :
                      Stream(r)'[i][2] <= sequenceNo'[Stream(r)'[i][1]]
                 /\ \A q \in Publishers : r \in targets'[q] =>
                      \A i \in DOMAIN Stream(r)' : Stream(r)'[i][1] = q =>
                        Stream(r)'[i][2] < sequenceNo'[q]
      BY <1>a, <2>1, <2>3, <2>6, <3>1 DEF InOrder
    <3>2. \A i \in 1 .. N : /\ st[i][1] \in Publishers /\ st[i][2] \in Nat
                            /\ st[i][1] = p => st[i][2] < sequenceNo[p]
                            /\ st[i][2] <= sequenceNo[st[i][1]]
                            /\ \A q \in Publishers : s \in targets[q] /\ st[i][1] = q =>
                                 st[i][2] < sequenceNo[q]
      BY <1>a, <1>t, <2>1, <2>8 DEF InOrder, st
    <3>3. \A i, j \in 1 .. N : j < i /\ st[j][1] = st[i][1] => st[j][2] < st[i][2]
      BY <1>a, <2>8 DEF InOrder, st
    <3>4. \A i \in 1 .. N + 1 : i \in 1 .. N \/ i = N + 1
      BY <2>8
    <3>5. \A i, j \in DOMAIN st1 : j < i /\ st1[j][1] = st1[i][1] => st1[j][2] < st1[i][2]
      <4> SUFFICES ASSUME NEW i \in 1 .. N + 1, NEW j \in 1 .. N + 1, j < i,
                          st1[j][1] = st1[i][1]
                   PROVE  st1[j][2] < st1[i][2]
        BY <2>8
      <4>1. j \in 1 .. N
        BY <2>8
      <4>2. CASE i \in 1 .. N
        BY <2>8, <3>3, <4>1, <4>2
      <4>3. CASE i = N + 1
        BY <2>2, <2>8, <3>2, <4>1, <4>3
      <4> QED BY <3>4, <4>2, <4>3
    <3>6. \A i \in DOMAIN st1 : st1[i][2] <= sequenceNo'[st1[i][1]]
      <4> SUFFICES ASSUME NEW i \in 1 .. N + 1 PROVE st1[i][2] <= sequenceNo[st1[i][1]]
        BY <2>1, <2>8
      <4>1. CASE i \in 1 .. N
        BY <2>8, <3>2, <4>1
      <4>2. CASE i = N + 1
        BY <2>2, <2>8, <4>2
      <4> QED BY <3>4, <4>1, <4>2
    <3>7. ASSUME NEW q \in Publishers, s \in targets'[q], NEW i \in DOMAIN st1, st1[i][1] = q
          PROVE  st1[i][2] < sequenceNo'[q]
      <4>1. q # p /\ s \in targets[q]
        BY <2>3, <3>7
      <4>2. i \in 1 .. N
        BY <2>2, <2>8, <3>4, <3>7, <4>1
      <4> QED BY <2>1, <2>8, <3>2, <3>7, <4>1, <4>2
    <3> QED BY <3>1, <3>5, <3>6, <3>7 DEF InOrder, st1
  <2>12. SentToTheOthers'
    <3> SUFFICES ASSUME NEW q \in Publishers, publisher[q] = "sends", NEW r \in Members
                 PROVE  r \in targets'[q] \/ Got(r, q, sequenceNo[q])'
      BY <2>1, <2>3 DEF SentToTheOthers
    <3>1. r \in targets[q] \/ Got(r, q, sequenceNo[q])
      BY <1>a DEF SentToTheOthers
    <3>2. UNCHANGED sequenceNo
      BY <2>1
    <3>3. CASE Got(r, q, sequenceNo[q])
      <4>1. \E i \in DOMAIN Stream(r)' : Stream(r)'[i] = <<q, sequenceNo[q]>>
        BY <1>m, <2>6, <2>8, <3>3 DEF Got, st, st1
      <4> QED BY <3>2, <4>1 DEF Got
    <3>4. CASE r \in targets[q] /\ ~(q = p /\ r = s)
      BY <2>3, <3>4
    <3>5. CASE q = p /\ r = s
      BY <2>10, <3>5
    <3> QED BY <3>1, <3>3, <3>4, <3>5
  <2>13. \A q \in Publishers : Completed(q)' = Completed(q) /\ Completed(q) \in Int
    BY <1>a, <2>1 DEF Completed, BusTypeOK
  <2>14. ASSUME NEW r \in Members, NEW i \in DOMAIN Stream(r),
                NEW n \in Stream(r)[i][2] .. Completed(Stream(r)[i][1])
         PROVE  (\E k \in DOMAIN Stream(r)' : Stream(r)'[k] = <<Stream(r)[i][1], n>>)
                \/ <<Stream(r)[i][1], n>> \in failed'
    <3>1. Got(r, Stream(r)[i][1], n) \/ <<Stream(r)[i][1], n>> \in failed
      BY <1>a DEF Complete
    <3>2. CASE Got(r, Stream(r)[i][1], n)
      BY <1>m, <2>6, <2>8, <3>2 DEF Got, st, st1
    <3> QED BY <2>1, <3>1, <3>2
  <2>15. Complete'
    <3> SUFFICES ASSUME NEW r \in Members, NEW i \in DOMAIN Stream(r)',
                        NEW n \in Stream(r)'[i][2] .. Completed(Stream(r)[i][1])'
                 PROVE  (\E k \in DOMAIN Stream(r)' : Stream(r)'[k] = <<Stream(r)'[i][1], n>>)
                        \/ <<Stream(r)'[i][1], n>> \in failed'
      BY <2>3 DEF Complete, Got
    <3>a. \A q \in Publishers : q = Stream(r)'[i][1] => Completed(Stream(r)[i][1])' = Completed(q)
      BY <2>13 DEF Completed
    <3>1. CASE i \in DOMAIN Stream(r)
      <4>1. Stream(r)'[i] = Stream(r)[i] /\ Stream(r)[i][1] \in Publishers
        BY <1>m, <1>t, <2>6, <2>8, <3>1 DEF st, st1
      <4>2. n \in Stream(r)[i][2] .. Completed(Stream(r)[i][1])
        BY <3>a, <4>1
      <4> QED BY <2>14, <3>1, <4>1, <4>2
    <3>2. CASE i \notin DOMAIN Stream(r)
      <4>1. r = s /\ i = N + 1 /\ Stream(r)'[i] = m
        BY <1>m, <2>6, <2>8, <3>2 DEF st, st1
      <4>2. n \in sequenceNo[p] .. Completed(p)
        BY <2>2, <3>a, <4>1
      <4>3. Completed(p) = sequenceNo[p] - 1
        BY <2>3 DEF Completed
      <4> QED BY <2>2, <4>2, <4>3
    <3> QED BY <3>1, <3>2
  <2> QED BY <2>4, <2>9, <2>11, <2>12, <2>15 DEF BusInv
<1>4. ASSUME NEW s \in Subscribers, Lock(s) PROVE BusInv'
  <2>1. /\ subscriber' = [subscriber EXCEPT ![s] = IF @ = "out" THEN "joins" ELSE "leaves"]
        /\ subscriber[s] \in {"out", "in"}
        /\ UNCHANGED <<channel, received, publisher, targets, sequenceNo, failed>>
    BY <1>4 DEF Lock
  <2>2. Members' = Members /\ \A r \in Subscribers : Stream(r)' = Stream(r)
    BY <1>a, <1>b, <2>1 DEF Members, BusTypeOK
  <2>3. BusTypeOK' /\ LockHeld'
    BY <1>a, <2>1, <2>2 DEF BusTypeOK, LockHeld, NoSendOnClosed
  <2>4. InOrder' /\ SentToTheOthers'
    BY <1>a, <1>b, <1>m, <2>1, <2>2 DEF InOrder, SentToTheOthers
  <2>5. Complete'
    BY <1>a, <1>b, <1>m, <2>1, <2>2 DEF Complete, Completed
  <2> QED BY <2>3, <2>4, <2>5 DEF BusInv
<1>5. ASSUME NEW s \in Subscribers, Locked(s) PROVE BusInv'
  <2>1. /\ subscriber' = [subscriber EXCEPT ![s] = IF @ = "joins" THEN "in" ELSE "gone"]
        /\ subscriber[s] \in {"joins", "leaves"}
        /\ UNCHANGED <<channel, received, publisher, targets, sequenceNo, failed>>
    BY <1>5 DEF Locked
  <2>2. \A p \in Publishers : publisher[p] = "idle" /\ targets[p] = {}
    BY <1>a, <1>5 DEF Locked, NoReaders, Readers, BusTypeOK, LockHeld
  <2>3. \A r \in Subscribers : Stream(r)' = Stream(r)
    BY <1>b, <2>1
  <2>4. BusTypeOK' /\ LockHeld' /\ SentToTheOthers'
    BY <1>a, <2>1, <2>2 DEF BusTypeOK, LockHeld, NoSendOnClosed, SentToTheOthers
  <2>5. InOrder'
    BY <1>a, <2>1, <2>3 DEF InOrder
  <2>6. \A r \in Members' : r \in Members \/ DOMAIN Stream(r) = {}
    <3>1. ASSUME subscriber[s] = "joins" PROVE DOMAIN Stream(s) = {}
      <4>1. channel[s] = <<>> /\ received[s] = <<>>
        BY <1>a, <3>1 DEF LockHeld
      <4>2. <<>> \o <<>> = <<>>
        BY EmptySeq, ConcatEmptySeq
      <4> QED BY <4>1, <4>2 DEF Stream
    <3> QED BY <1>a, <2>1, <3>1 DEF Members, BusTypeOK
  <2>7. Complete'
    <3>1. Members' \subseteq Subscribers
      BY DEF Members
    <3> QED BY <1>a, <1>b, <2>1, <2>3, <2>6, <3>1 DEF Complete, Completed
  <2> QED BY <2>4, <2>5, <2>7 DEF BusInv
<1>6. ASSUME NEW s \in Subscribers, Receive(s) PROVE BusInv'
  <2>1. /\ subscriber[s] \in {"in", "gone"} /\ channel[s] # <<>>
        /\ received' = [received EXCEPT ![s] = Append(@, Head(channel[s]))]
        /\ channel' = [channel EXCEPT ![s] = Tail(@)]
        /\ UNCHANGED <<subscriber, publisher, targets, sequenceNo, failed>>
    BY <1>6 DEF Receive
  <2>2. channel[s] \in Seq(Message) /\ received[s] \in Seq(Message)
    BY <1>a DEF BusTypeOK
  <2>3. /\ Head(channel[s]) \in Message /\ Tail(channel[s]) \in Seq(Message)
        /\ Append(received[s], Head(channel[s])) \in Seq(Message)
    BY <2>1, <2>2, HeadTailProperties, AppendProperties
  <2>4. /\ received'[s] = Append(received[s], Head(channel[s])) /\ channel'[s] = Tail(channel[s])
        /\ \A r \in Subscribers : r # s => received'[r] = received[r] /\ channel'[r] = channel[r]
    BY <1>a, <2>1 DEF BusTypeOK
  <2>5. \A r \in Subscribers : Stream(r)' = Stream(r)
    <3>1. Append(received[s], Head(channel[s])) \o Tail(channel[s]) = received[s] \o channel[s]
      BY <2>1, <2>2, HeadMoves
    <3>2. \A r \in Subscribers : Stream(r)' = received'[r] \o channel'[r]
      BY DEF Stream
    <3> QED BY <2>4, <3>1, <3>2 DEF Stream
  <2>6. \A r \in Subscribers : \A p, n : Got(r, p, n)' <=> Got(r, p, n)
    BY <2>5, SameStreams
  <2>7. Members' = Members
    BY <2>1 DEF Members
  <2>8. BusTypeOK'
    BY <1>a, <2>1, <2>3 DEF BusTypeOK
  <2>9. LockHeld'
    BY <1>a, <2>1, <2>4, <2>7 DEF LockHeld, NoSendOnClosed
  <2>10. InOrder' /\ SentToTheOthers'
    BY <1>a, <1>m, <2>1, <2>5, <2>6, <2>7 DEF InOrder, SentToTheOthers
  <2>11. Complete'
    BY <1>a, <1>m, <2>1, <2>5, <2>6, <2>7 DEF Complete, Completed
  <2> QED BY <2>8, <2>9, <2>10, <2>11 DEF BusInv
<1> QED BY <1>0, <1>1, <1>2, <1>3, <1>4, <1>5, <1>6 DEF BusNext

(* Publish never sends on a closed channel; the messages of a publisher    *)
(* reach a subscriber in order, without a repetition, and without a gap    *)
(* that Publish reported no error for.                                     *)
THEOREM BusIsSound == BusSpec => []BusSound
<1>1. BusInv => NoGaps
  <2> SUFFICES ASSUME BusInv, NEW s \in Subscribers, NEW i \in DOMAIN Stream(s)
               PROVE  /\ \A j \in 1 .. i - 1 : Stream(s)[j][1] = Stream(s)[i][1]
                           => Stream(s)[j][2] < Stream(s)[i][2]
                      /\ s \in Members =>
                           \A n \in Stream(s)[i][2] .. Completed(Stream(s)[i][1]) :
                             Got(s, Stream(s)[i][1], n) \/ <<Stream(s)[i][1], n>> \in failed
    BY DEF NoGaps
  <2>1. Len(Stream(s)) \in Nat /\ DOMAIN Stream(s) = 1 .. Len(Stream(s))
    BY StreamType DEF BusInv
  <2>2. \A j \in 1 .. i - 1 : j \in DOMAIN Stream(s) /\ j < i
    BY <2>1
  <2> QED BY <2>2 DEF BusInv, InOrder, Complete
<1>2. BusInv => NoSendOnClosed
  BY DEF BusInv, LockHeld
<1> QED BY <1>1, <1>2, InitBus, BusStep, PTL DEF BusSpec, BusSound

-----------------------------------------------------------------------------
(* The keyed lock.                                                         *)

(* The elements of a queue, and that it has none of them twice.            *)
Elements(q) == {q[i] : i \in DOMAIN q}
NoRepeat(q) == \A i, j \in DOMAIN q : q[i] = q[j] => i = j

(* What the operations on a queue do to its elements.                      *)
LEMMA AppendElements ==
  ASSUME NEW S, NEW q \in Seq(S), NEW g \in S, NoRepeat(q), g \notin Elements(q)
  PROVE  /\ Append(q, g) \in Seq(S)
         /\ NoRepeat(Append(q, g))
         /\ Elements(Append(q, g)) = Elements(q) \cup {g}
<1> DEFINE r == Append(q, g)
<1>1. /\ r \in Seq(S) /\ Len(r) = Len(q) + 1 /\ Len(q) \in Nat
      /\ \A k \in 1 .. Len(q) : r[k] = q[k]
      /\ r[Len(q) + 1] = g
  BY AppendProperties, LenProperties
<1>2. DOMAIN r = 1 .. Len(q) + 1 /\ DOMAIN q = 1 .. Len(q)
  BY <1>1, LenProperties
<1> HIDE DEF r
<1>3. \A k \in 1 .. Len(q) : r[k] # g
  BY <1>1, <1>2 DEF Elements
<1>4. NoRepeat(r)
  BY <1>1, <1>2, <1>3 DEF NoRepeat
<1>5. Elements(r) = Elements(q) \cup {g}
  BY <1>1, <1>2 DEF Elements
<1> QED BY <1>1, <1>4, <1>5 DEF r

LEMMA TailElements ==
  ASSUME NEW S, NEW q \in Seq(S), q # <<>>, NoRepeat(q)
  PROVE  /\ Head(q) \in Elements(q) /\ Tail(q) \in Seq(S)
         /\ NoRepeat(Tail(q))
         /\ Elements(Tail(q)) = Elements(q) \ {Head(q)}
<1> DEFINE r == Tail(q)
<1>1. /\ r \in Seq(S) /\ Len(r) = Len(q) - 1 /\ Len(q) \in Nat \ {0}
      /\ \A k \in 1 .. Len(r) : r[k] = q[k + 1]
      /\ Head(q) = q[1]
  BY HeadTailProperties, EmptySeq
<1>2. DOMAIN r = 1 .. Len(q) - 1 /\ DOMAIN q = 1 .. Len(q)
  BY <1>1, LenProperties
<1> HIDE DEF r
<1>3. NoRepeat(r)
  <2> SUFFICES ASSUME NEW i \in 1 .. Len(q) - 1, NEW j \in 1 .. Len(q) - 1, r[i] = r[j]
               PROVE  i = j
    BY <1>2 DEF NoRepeat
  <2>1. /\ i \in Int /\ j \in Int /\ i + 1 \in 1 .. Len(q) /\ j + 1 \in 1 .. Len(q)
        /\ r[i] = q[i + 1] /\ r[j] = q[j + 1]
    BY <1>1
  <2>2. i + 1 = j + 1
    BY <1>2, <2>1 DEF NoRepeat
  <2> QED BY <2>1, <2>2
<1>4. Elements(r) \subseteq Elements(q) \ {q[1]}
  BY <1>1, <1>2 DEF Elements, NoRepeat
<1>5. ASSUME NEW k \in 1 .. Len(q), k # 1 PROVE q[k] \in Elements(r)
  <2>1. k - 1 \in 1 .. Len(q) - 1 /\ r[k - 1] = q[k]
    BY <1>1, <1>5
  <2> QED BY <2>1, <1>2 DEF Elements
<1>6. Elements(q) \ {q[1]} \subseteq Elements(r)
  BY <1>2, <1>5 DEF Elements
<1>7. Head(q) \in Elements(q)
  BY <1>1, <1>2 DEF Elements
<1> QED BY <1>1, <1>3, <1>4, <1>6, <1>7 DEF r

LEMMA RemoveAtElements ==
  ASSUME NEW S, NEW q \in Seq(S), NEW i \in 1 .. Len(q), NoRepeat(q)
  PROVE  /\ RemoveAt(q, i) \in Seq(S)
         /\ NoRepeat(RemoveAt(q, i))
         /\ Elements(RemoveAt(q, i)) = Elements(q) \ {q[i]}
<1> DEFINE r == RemoveAt(q, i)
<1>0. Len(q) \in Nat /\ DOMAIN q = 1 .. Len(q) /\ \A k \in 1 .. Len(q) : q[k] \in S
  BY LenProperties, ElementOfSeq
<1>1. /\ SubSeq(q, 1, i - 1) \in Seq(S) /\ Len(SubSeq(q, 1, i - 1)) = i - 1
      /\ \A k \in 1 .. i - 1 : SubSeq(q, 1, i - 1)[k] = q[k]
  BY <1>0, SubSeqProperties
<1>2. /\ SubSeq(q, i + 1, Len(q)) \in Seq(S) /\ Len(SubSeq(q, i + 1, Len(q))) = Len(q) - i
      /\ \A k \in 1 .. Len(q) - i : SubSeq(q, i + 1, Len(q))[k] = q[i + k]
  <2>1. i + 1 \in Int /\ Len(q) \in Int /\ \A k \in i + 1 .. Len(q) : q[k] \in S
    BY <1>0
  <2>2. /\ SubSeq(q, i + 1, Len(q)) \in Seq(S)
        /\ Len(SubSeq(q, i + 1, Len(q))) = IF i + 1 <= Len(q) THEN Len(q) - (i + 1) + 1 ELSE 0
        /\ \A k \in 1 .. Len(q) - (i + 1) + 1 :
             SubSeq(q, i + 1, Len(q))[k] = q[(i + 1) + k - 1]
    BY <2>1, SubSeqProperties
  <2>3. (IF i + 1 <= Len(q) THEN Len(q) - (i + 1) + 1 ELSE 0) = Len(q) - i
    <3>1. ASSUME NEW n \in Nat, NEW k \in 1 .. n
          PROVE  (IF k + 1 <= n THEN n - (k + 1) + 1 ELSE 0) = n - k
      BY <3>1
    <3> QED BY <1>0, <3>1
  <2>4. \A k \in 1 .. Len(q) - i : k \in 1 .. Len(q) - (i + 1) + 1 /\ (i + 1) + k - 1 = i + k
    BY <1>0
  <2> QED BY <2>2, <2>3, <2>4
<1>3. /\ r \in Seq(S) /\ Len(r) = Len(q) - 1 /\ DOMAIN r = 1 .. Len(q) - 1
      /\ \A k \in 1 .. Len(q) - 1 : r[k] = IF k < i THEN q[k] ELSE q[k + 1]
  <2> DEFINE a == SubSeq(q, 1, i - 1)
             b == SubSeq(q, i + 1, Len(q))
  <2>1. r = a \o b
    BY DEF RemoveAt
  <2> HIDE DEF r
  <2>2. /\ a \o b \in Seq(S) /\ Len(a \o b) = Len(a) + Len(b)
        /\ \A k \in 1 .. Len(a) + Len(b) :
             (a \o b)[k] = IF k <= Len(a) THEN a[k] ELSE b[k - Len(a)]
    BY <1>1, <1>2, ConcatProperties
  <2> HIDE DEF a, b
  <2>3. Len(a) = i - 1 /\ Len(b) = Len(q) - i
    BY <1>1, <1>2 DEF a, b
  <2>4. \A k \in 1 .. Len(q) - 1 : r[k] = IF k < i THEN a[k] ELSE b[k - (i - 1)]
    BY <1>0, <2>1, <2>2, <2>3
  <2>5. \A k \in 1 .. Len(q) - 1 : k < i => r[k] = q[k]
    BY <1>0, <1>1, <2>4 DEF a
  <2>6. ASSUME NEW k \in 1 .. Len(q) - 1, ~(k < i) PROVE r[k] = q[k + 1]
    <3>1. k - (i - 1) \in 1 .. Len(q) - i /\ i + (k - (i - 1)) = k + 1
      BY <1>0, <2>6
    <3> QED BY <1>2, <2>4, <2>6, <3>1 DEF b
  <2>7. r \in Seq(S) /\ Len(r) = Len(q) - 1
    BY <1>0, <2>1, <2>2, <2>3
  <2> QED BY <2>5, <2>6, <2>7, LenProperties
<1> HIDE DEF r
<1>4. NoRepeat(r)
  BY <1>0, <1>3 DEF NoRepeat
<1>5. Elements(r) \subseteq Elements(q) \ {q[i]}
  BY <1>0, <1>3 DEF Elements, NoRepeat
<1>6. ASSUME NEW k \in 1 .. Len(q), k # i PROVE q[k] \in Elements(r)
  <2>1. CASE k < i
    BY <1>0, <1>3, <2>1 DEF Elements
  <2>2. CASE k > i
    <3>1. k - 1 \in 1 .. Len(q) - 1 /\ r[k - 1] = q[k]
      BY <1>0, <1>3, <2>2
    <3> QED BY <3>1, <1>3 DEF Elements
  <2> QED BY <1>6, <2>1, <2>2, <1>0
<1>7. Elements(q) \ {q[i]} \subseteq Elements(r)
  BY <1>0, <1>6 DEF Elements
<1> QED BY <1>3, <1>4, <1>5, <1>7 DEF r

LEMMA RemoveFirstElements ==
  ASSUME NEW S, NEW q \in Seq(S), NEW g, NoRepeat(q)
  PROVE  /\ RemoveFirst(q, g) \in Seq(S)
         /\ NoRepeat(RemoveFirst(q, g))
         /\ Elements(RemoveFirst(q, g)) = Elements(q) \ {g}
<1>1. CASE \E i \in 1 .. Len(q) : q[i] = g
  <2>1. PICK i \in 1 .. Len(q) : q[i] = g
    BY <1>1
  <2>2. {j \in 1 .. Len(q) : q[j] = g} = {i}
    BY <2>1, LenProperties DEF NoRepeat
  <2>3. Min({i}) = i
    BY DEF Min
  <2>4. SelectInSeq(q, LAMBDA v : v = g) = i
    BY <2>2, <2>3 DEF SelectInSeq
  <2>5. RemoveFirst(q, g) = RemoveAt(q, i)
    BY <1>1, <2>4 DEF RemoveFirst
  <2> QED BY <2>1, <2>5, RemoveAtElements
<1>2. CASE ~ \E i \in 1 .. Len(q) : q[i] = g
  BY <1>2, LenProperties DEF RemoveFirst, Elements
<1> QED BY <1>1, <1>2
-----------------------------------------------------------------------------
LockTypeOK ==
  /\ held \in [LockKeys -> 0 .. acquires] /\ full \subseteq Channels
  /\ senders \in [Channels -> Seq(Callers)]
  /\ caller \in [Callers -> {"idle", "found", "blocked", "holds"}]
  /\ chan \in [Callers -> 0 .. Rounds] /\ DOMAIN wants = Callers
  /\ acquires \in 0 .. Rounds

(* A channel belongs to one key for good, so that what a caller found      *)
(* under the mutex is still the channel of its key when it sends.          *)
ChannelOfKey ==
  /\ \A g \in Callers : caller[g] # "idle" =>
       wants[g] \in LockKeys /\ chan[g] = held[wants[g]] /\ chan[g] \in 1 .. acquires
  /\ \A k, l \in LockKeys : held[k] = held[l] /\ held[k] # 0 => k = l

OneHolder ==
  \A g, h \in Callers : caller[g] = "holds" /\ caller[h] = "holds" /\ chan[g] = chan[h]
                          => g = h

(* A caller is queued once.                                                *)
QueuedOnce == \A c \in Channels : NoRepeat(senders[c])

(* The inductive invariant.  NoLostLock is split in its two halves.        *)
FullIsHeld == \A c \in Channels :
  c \in full <=> \E g \in Callers : caller[g] = "holds" /\ chan[g] = c
QueueIsBlocked == \A c \in Channels :
  Elements(senders[c]) = {g \in Callers : caller[g] = "blocked" /\ chan[g] = c}

LockInv ==
  LockTypeOK /\ ChannelOfKey /\ OneHolder /\ QueuedOnce /\ FullIsHeld /\ QueueIsBlocked

LEMMA InitLock == LockInit => LockInv
<1> SUFFICES ASSUME LockInit PROVE LockInv
  OBVIOUS
<1>1. \A c \in Channels : senders[c] = <<>>
  BY DEF LockInit
<1>2. Elements(<<>>) = {} /\ NoRepeat(<<>>)
  BY DEF Elements, NoRepeat
<1>3. LockTypeOK
  BY KeyedLockAssumption DEF LockInit, LockTypeOK
<1>4. ChannelOfKey /\ OneHolder /\ FullIsHeld
  BY DEF LockInit, ChannelOfKey, OneHolder, FullIsHeld
<1>5. QueuedOnce
  BY <1>1, <1>2, Zenon DEF QueuedOnce
<1>6. \A g \in Callers : caller[g] # "blocked"
  BY DEF LockInit
<1>7. QueueIsBlocked
  BY <1>1, <1>2, <1>6 DEF QueueIsBlocked
<1> QED BY <1>3, <1>4, <1>5, <1>7 DEF LockInv

LEMMA LockStep == LockInv /\ [LockNext]_lockVars => LockInv'
<1> SUFFICES ASSUME LockInv, [LockNext]_lockVars PROVE LockInv'
  OBVIOUS
<1> USE KeyedLockAssumption
<1>a. /\ LockTypeOK /\ ChannelOfKey /\ OneHolder /\ QueuedOnce
      /\ FullIsHeld /\ QueueIsBlocked
  BY DEF LockInv
<1>0. CASE UNCHANGED lockVars
  BY <1>0, <1>a DEF lockVars, LockInv, LockTypeOK, ChannelOfKey, OneHolder, QueuedOnce,
                    FullIsHeld, QueueIsBlocked
(* A caller in a call works on a channel.                                  *)
<1>b. \A g \in Callers : caller[g] # "idle" => chan[g] \in Channels
  BY <1>a DEF ChannelOfKey, LockTypeOK, Channels
<1>1. ASSUME NEW g \in Callers, NEW k \in LockKeys, Acquire(g, k) PROVE LockInv'
  <2> DEFINE c == LookUp(g, k)
  <2>1. /\ caller[g] = "idle" /\ acquires < Rounds /\ acquires' = acquires + 1
        /\ held' = [held EXCEPT ![k] = c] /\ chan' = [chan EXCEPT ![g] = c]
        /\ caller' = [caller EXCEPT ![g] = "found"] /\ wants' = [wants EXCEPT ![g] = k]
        /\ UNCHANGED <<full, senders>>
    BY <1>1 DEF Acquire
  <2>2. /\ c \in 1 .. acquires'
        /\ held[k] # 0 => c = held[k]
        /\ held[k] = 0 => \A l \in LockKeys : held[l] # c
    BY <1>a, <2>1 DEF LookUp, LockTypeOK
  <2> HIDE DEF c
  <2>3. LockTypeOK'
    <3>1. acquires' \in 0 .. Rounds /\ c \in 0 .. acquires' /\ c \in 0 .. Rounds
      BY <1>a, <2>1, <2>2 DEF LockTypeOK
    <3>2. held' \in [LockKeys -> 0 .. acquires']
      BY <1>a, <2>1, <3>1 DEF LockTypeOK
    <3> QED BY <1>a, <2>1, <3>1, <3>2 DEF LockTypeOK
  <2>4. /\ caller'[g] = "found" /\ wants'[g] = k /\ chan'[g] = c
        /\ \A h \in Callers : h # g => /\ caller'[h] = caller[h]
                                       /\ wants'[h] = wants[h] /\ chan'[h] = chan[h]
        /\ held'[k] = c /\ \A l \in LockKeys : l # k => held'[l] = held[l]
    BY <1>a, <2>1 DEF LockTypeOK
  <2>5. ChannelOfKey'
    <3>1. ASSUME NEW h \in Callers, caller'[h] # "idle"
          PROVE  wants'[h] \in LockKeys /\ chan'[h] = held'[wants'[h]]
                 /\ chan'[h] \in 1 .. acquires'
      <4>1. CASE h = g
        BY <2>2, <2>4, <4>1
      <4>2. CASE h # g
        <5>1. /\ caller[h] # "idle" /\ wants'[h] = wants[h] /\ chan'[h] = chan[h]
              /\ wants[h] \in LockKeys /\ chan[h] = held[wants[h]]
              /\ chan[h] \in 1 .. acquires
          BY <1>a, <2>4, <3>1, <4>2 DEF ChannelOfKey
        <5>2. chan[h] # 0 /\ chan[h] \in 1 .. acquires'
          BY <1>a, <2>1, <5>1 DEF LockTypeOK
        <5> QED BY <2>2, <2>4, <5>1, <5>2
      <4> QED BY <4>1, <4>2
    <3>2. ASSUME NEW l \in LockKeys, NEW m \in LockKeys, held'[l] = held'[m], held'[l] # 0
          PROVE  l = m
      BY <1>a, <2>2, <2>4, <3>2 DEF ChannelOfKey
    <3> QED BY <3>1, <3>2 DEF ChannelOfKey
  <2>6. OneHolder' /\ FullIsHeld'
    BY <1>a, <2>1, <2>4 DEF OneHolder, FullIsHeld
  <2>7. QueuedOnce' /\ QueueIsBlocked'
    BY <1>a, <2>1, <2>4 DEF QueuedOnce, QueueIsBlocked
  <2> QED BY <2>3, <2>5, <2>6, <2>7 DEF LockInv
(* The other steps move callers, not keys or channels.                     *)
<1>c. ASSUME UNCHANGED <<held, chan, wants, acquires>>,
             \A g \in Callers : caller'[g] # "idle" => caller[g] # "idle"
      PROVE  ChannelOfKey'
  BY <1>a, <1>c DEF ChannelOfKey
<1>2. ASSUME NEW g \in Callers, Send(g), chan[g] \in full PROVE LockInv'
  <2> DEFINE c == chan[g]
  <2>1. /\ caller[g] = "found" /\ caller' = [caller EXCEPT ![g] = "blocked"]
        /\ senders' = [senders EXCEPT ![c] = Append(@, g)]
        /\ UNCHANGED <<full, held, chan, wants, expired, acquires>>
    BY <1>2 DEF Send
  <2>2. c \in Channels /\ senders[c] \in Seq(Callers)
    BY <1>a, <1>b, <2>1 DEF LockTypeOK
  <2>3. g \notin Elements(senders[c])
    BY <1>a, <2>1, <2>2 DEF QueueIsBlocked
  <2>4. /\ Append(senders[c], g) \in Seq(Callers)
        /\ NoRepeat(Append(senders[c], g))
        /\ Elements(Append(senders[c], g)) = Elements(senders[c]) \cup {g}
    BY <1>a, <2>2, <2>3, AppendElements DEF QueuedOnce
  <2>5. /\ caller'[g] = "blocked" /\ \A h \in Callers : h # g => caller'[h] = caller[h]
        /\ senders'[c] = Append(senders[c], g)
        /\ \A d \in Channels : d # c => senders'[d] = senders[d]
    BY <1>a, <2>1, <2>2 DEF LockTypeOK
  <2>6. LockTypeOK'
    BY <1>a, <2>1, <2>2, <2>4 DEF LockTypeOK
  <2>7. ChannelOfKey'
    BY <1>c, <2>1, <2>5
  <2>8. OneHolder' /\ FullIsHeld'
    BY <1>a, <2>1, <2>5 DEF OneHolder, FullIsHeld
  <2> HIDE DEF c
  <2>9. QueuedOnce'
    BY <1>a, <2>4, <2>5 DEF QueuedOnce
  <2>10. QueueIsBlocked'
    <3>1. ASSUME NEW d \in Channels, d # c
          PROVE  Elements(senders'[d]) = {h \in Callers : caller'[h] = "blocked" /\ chan'[h] = d}
      BY <1>a, <2>1, <2>5, <3>1 DEF QueueIsBlocked, c
    <3>2. Elements(senders'[c]) = {h \in Callers : caller'[h] = "blocked" /\ chan'[h] = c}
      BY <1>a, <2>1, <2>2, <2>4, <2>5 DEF QueueIsBlocked, c
    <3> QED BY <3>1, <3>2 DEF QueueIsBlocked
  <2> QED BY <2>6, <2>7, <2>8, <2>9, <2>10 DEF LockInv
<1>3. ASSUME NEW g \in Callers, Send(g), chan[g] \notin full PROVE LockInv'
  <2>1. /\ caller[g] = "found" /\ caller' = [caller EXCEPT ![g] = "holds"]
        /\ full' = full \cup {chan[g]}
        /\ UNCHANGED <<senders, held, chan, wants, expired, acquires>>
    BY <1>3 DEF Send
  <2>2. chan[g] \in Channels
    BY <1>b, <2>1
  <2>3. caller'[g] = "holds" /\ \A h \in Callers : h # g => caller'[h] = caller[h]
    BY <1>a, <2>1 DEF LockTypeOK
  <2>4. LockTypeOK'
    BY <1>a, <2>1, <2>2 DEF LockTypeOK
  <2>5. ChannelOfKey'
    BY <1>c, <2>1, <2>3
  <2>6. \A h \in Callers : ~(caller[h] = "holds" /\ chan[h] = chan[g])
    BY <1>a, <1>3, <2>2 DEF FullIsHeld
  <2>7. OneHolder' /\ FullIsHeld'
    BY <1>a, <2>1, <2>3, <2>6 DEF OneHolder, FullIsHeld
  <2>8. QueuedOnce' /\ QueueIsBlocked'
    BY <1>a, <2>1, <2>3 DEF QueuedOnce, QueueIsBlocked
  <2> QED BY <2>4, <2>5, <2>7, <2>8 DEF LockInv
<1>4. ASSUME NEW g \in Callers, TimeOut(g) PROVE LockInv'
  <2> DEFINE c == chan[g]
  <2>1. /\ caller[g] \in {"found", "blocked"} /\ caller' = [caller EXCEPT ![g] = "idle"]
        /\ senders' = [senders EXCEPT ![c] = RemoveFirst(@, g)]
        /\ UNCHANGED <<held, full, chan, wants, expired, acquires>>
    BY <1>4 DEF TimeOut, GiveUp
  <2>2. c \in Channels /\ senders[c] \in Seq(Callers)
    BY <1>a, <1>b, <2>1 DEF LockTypeOK
  <2>3. /\ RemoveFirst(senders[c], g) \in Seq(Callers)
        /\ NoRepeat(RemoveFirst(senders[c], g))
        /\ Elements(RemoveFirst(senders[c], g)) = Elements(senders[c]) \ {g}
    BY <1>a, <2>2, RemoveFirstElements DEF QueuedOnce
  <2>4. /\ caller'[g] = "idle" /\ \A h \in Callers : h # g => caller'[h] = caller[h]
        /\ senders'[c] = RemoveFirst(senders[c], g)
        /\ \A d \in Channels : d # c => senders'[d] = senders[d]
    BY <1>a, <2>1, <2>2 DEF LockTypeOK
  <2>5. LockTypeOK'
    BY <1>a, <2>1, <2>2, <2>3 DEF LockTypeOK
  <2>6. ChannelOfKey'
    BY <1>c, <2>1, <2>4
  <2>7. OneHolder' /\ FullIsHeld'
    BY <1>a, <2>1, <2>4 DEF OneHolder, FullIsHeld
  <2> HIDE DEF c
  <2>8. QueuedOnce'
    BY <1>a, <2>3, <2>4 DEF QueuedOnce
  <2>9. QueueIsBlocked'
    <3>1. ASSUME NEW d \in Channels, d # c
          PROVE  Elements(senders'[d]) = {h \in Callers : caller'[h] = "blocked" /\ chan'[h] = d}
      BY <1>a, <2>1, <2>4, <3>1 DEF QueueIsBlocked, c
    <3>2. Elements(senders'[c]) = {h \in Callers : caller'[h] = "blocked" /\ chan'[h] = c}
      BY <1>a, <2>1, <2>2, <2>3, <2>4 DEF QueueIsBlocked, c
    <3> QED BY <3>1, <3>2 DEF QueueIsBlocked
  <2> QED BY <2>5, <2>6, <2>7, <2>8, <2>9 DEF LockInv
<1>5. ASSUME NEW g \in Callers, Release(g), senders[chan[g]] = <<>> PROVE LockInv'
  <2>1. /\ caller[g] = "holds" /\ caller' = [caller EXCEPT ![g] = "idle"]
        /\ full' = full \ {chan[g]}
        /\ UNCHANGED <<senders, held, chan, wants, expired, acquires>>
    BY <1>5 DEF Release
  <2>2. caller'[g] = "idle" /\ \A h \in Callers : h # g => caller'[h] = caller[h]
    BY <1>a, <2>1 DEF LockTypeOK
  <2>3. LockTypeOK'
    BY <1>a, <2>1 DEF LockTypeOK
  <2>4. ChannelOfKey'
    BY <1>c, <2>1, <2>2
  <2>5. \A h \in Callers : h # g /\ caller[h] = "holds" => chan[h] # chan[g]
    BY <1>a, <2>1 DEF OneHolder
  <2>6. OneHolder' /\ FullIsHeld'
    BY <1>a, <2>1, <2>2, <2>5 DEF OneHolder, FullIsHeld
  <2>7. QueuedOnce' /\ QueueIsBlocked'
    BY <1>a, <2>1, <2>2 DEF QueuedOnce, QueueIsBlocked
  <2> QED BY <2>3, <2>4, <2>6, <2>7 DEF LockInv
<1>6. ASSUME NEW g \in Callers, Release(g), senders[chan[g]] # <<>> PROVE LockInv'
  <2> DEFINE c == chan[g]
             h == Head(senders[c])
  <2>1. /\ caller[g] = "holds"
        /\ caller' = [[caller EXCEPT ![g] = "idle"] EXCEPT ![h] = "holds"]
        /\ senders' = [senders EXCEPT ![c] = Tail(senders[c])]
        /\ UNCHANGED <<full, held, chan, wants, expired, acquires>>
    BY <1>6 DEF Release
  <2>2. c \in Channels /\ senders[c] \in Seq(Callers)
    BY <1>a, <1>b, <2>1 DEF LockTypeOK
  <2>3. /\ h \in Elements(senders[c]) /\ Tail(senders[c]) \in Seq(Callers)
        /\ NoRepeat(Tail(senders[c]))
        /\ Elements(Tail(senders[c])) = Elements(senders[c]) \ {h}
    BY <1>a, <1>6, <2>2, TailElements DEF QueuedOnce
  <2>4. h \in Callers /\ caller[h] = "blocked" /\ chan[h] = c /\ h # g
    BY <1>a, <2>1, <2>2, <2>3 DEF QueueIsBlocked
  <2> HIDE DEF c, h
  <2>5. /\ caller'[g] = "idle" /\ caller'[h] = "holds"
        /\ \A x \in Callers : x # g /\ x # h => caller'[x] = caller[x]
        /\ senders'[c] = Tail(senders[c])
        /\ \A d \in Channels : d # c => senders'[d] = senders[d]
    BY <1>a, <2>1, <2>2, <2>4 DEF LockTypeOK
  <2>6. LockTypeOK'
    BY <1>a, <2>1, <2>2, <2>3, <2>4 DEF LockTypeOK
  <2>7. ChannelOfKey'
    <3>1. \A x \in Callers : caller'[x] # "idle" => caller[x] # "idle"
      BY <2>4, <2>5
    <3> QED BY <1>c, <2>1, <3>1
  <2>8. \A x \in Callers : x # g /\ caller[x] = "holds" => chan[x] # c
    BY <1>a, <2>1 DEF OneHolder, c
  <2>9. OneHolder'
    BY <1>a, <2>1, <2>4, <2>5, <2>8 DEF OneHolder
  <2>10. FullIsHeld'
    <3>1. ASSUME NEW d \in Channels, d # c
          PROVE  d \in full' <=> \E x \in Callers : caller'[x] = "holds" /\ chan'[x] = d
      <4>1. \A x \in Callers : chan[x] = d => caller'[x] = caller[x] /\ chan'[x] = d
        BY <2>1, <2>4, <2>5, <3>1 DEF c
      <4>2. \A x \in Callers : chan'[x] = chan[x]
        BY <2>1
      <4> QED BY <1>a, <2>1, <4>1, <4>2 DEF FullIsHeld
    <3>2. c \in full' /\ caller'[h] = "holds" /\ chan'[h] = c
      BY <1>a, <2>1, <2>2, <2>4, <2>5 DEF FullIsHeld, c
    <3> QED BY <2>4, <3>1, <3>2 DEF FullIsHeld
  <2>11. QueuedOnce'
    BY <1>a, <2>3, <2>5 DEF QueuedOnce
  <2>12. QueueIsBlocked'
    <3>1. ASSUME NEW d \in Channels, d # c
          PROVE  Elements(senders'[d]) = {x \in Callers : caller'[x] = "blocked" /\ chan'[x] = d}
      <4>1. \A x \in Callers : chan[x] = d => caller'[x] = caller[x]
        BY <2>1, <2>4, <2>5, <3>1 DEF c
      <4>2. UNCHANGED chan /\ senders'[d] = senders[d]
        BY <2>1, <2>5, <3>1
      <4> QED BY <1>a, <4>1, <4>2 DEF QueueIsBlocked
    <3>2. Elements(senders'[c]) = {x \in Callers : caller'[x] = "blocked" /\ chan'[x] = c}
      BY <1>a, <2>1, <2>2, <2>3, <2>4, <2>5 DEF QueueIsBlocked, c
    <3> QED BY <3>1, <3>2 DEF QueueIsBlocked
  <2> QED BY <2>6, <2>7, <2>9, <2>10, <2>11, <2>12 DEF LockInv
<1>7. ASSUME NEW g \in Callers, Expire(g) PROVE LockInv'
  BY <1>7, <1>a DEF Expire, LockInv, LockTypeOK, ChannelOfKey, OneHolder, QueuedOnce,
                    FullIsHeld, QueueIsBlocked
<1> QED BY <1>0, <1>1, <1>2, <1>3, <1>4, <1>5, <1>6, <1>7 DEF LockNext

LEMMA LockInvariance == LockSpec => []LockInv
BY InitLock, LockStep, PTL DEF LockSpec

(* Two callers never hold the same key; a channel is full exactly while it *)
(* has a holder, and its queue is the callers that still wait for it, so a *)
(* timeout that races with a release loses no token and leaves none.       *)
THEOREM LocksAreSound == LockSpec => []LockSound
<1>1. LockInv => MutualExclusion
  BY DEF LockInv, ChannelOfKey, OneHolder, MutualExclusion
<1>2. LockInv => NoLostLock
  <2> SUFFICES ASSUME LockInv PROVE NoLostLock
    OBVIOUS
  <2>1. \A g \in Callers : caller[g] = "holds" => chan[g] \in Channels
    BY KeyedLockAssumption DEF LockInv, ChannelOfKey, LockTypeOK, Channels
  <2>2. full = {chan[g] : g \in {x \in Callers : caller[x] = "holds"}}
    BY <2>1 DEF LockInv, LockTypeOK, FullIsHeld
  <2> QED BY <2>2 DEF LockInv, QueueIsBlocked, Elements, NoLostLock
<1> QED BY <1>1, <1>2, LockInvariance, PTL DEF LockSound
=============================================================================
