-------------------------------- MODULE Retry --------------------------------
(***************************************************************************)
(* retry.Policy and retry.Do: calls of a function with pauses that double  *)
(* in between.  Delay multiplies in float64 and converts to a Duration,    *)
(* an int64 of nanoseconds.  The way to float64 rounds what has more bits  *)
(* than a mantissa; on the way back, out of the range of int64, the result *)
(* is the smallest int64 on amd64 and the largest on arm64.                *)
(***************************************************************************)
EXTENDS Integers, Sequences

CONSTANTS MaxDuration,      \* the largest int64, 2^63 - 1
          Mantissa, Spare,  \* float64 has all integers up to Mantissa, 2^53; an int64
                            \*   has Spare, 10, more bits
          DefaultDelay, DefaultMaxDelay,
          Attempts, InitialDelays, MaxDelays   \* the fields of the policies

(* math.Pow(2, n), exact in float64.                                       *)
Power[n \in Nat] == IF n = 0 THEN 1 ELSE 2 * Power[n - 1]

Delays == 1 .. MaxDuration

ASSUME RetryAssumption ==
  /\ Mantissa \in Nat /\ Mantissa > 1 /\ Spare \in Nat
  /\ MaxDuration \in Nat /\ MaxDuration <= Mantissa * Power[Spare]
  /\ DefaultDelay \in Delays /\ DefaultMaxDelay \in Delays
  /\ Attempts \subseteq Int /\ MaxDelays \subseteq Int
  /\ InitialDelays \subseteq Int /\ \A d \in InitialDelays : d <= MaxDuration

VARIABLES
  policy,      \* [MaxAttempts, InitialDelay, MaxDelay]
  retry,       \* "idle", "check", "call", "pause", "nil", "failed" or "ctx"
  calls,       \* calls of the function so far
  outcome,     \* the result of the last call: "none", "ok", "error" or "ctx"
  retryDone,   \* the context is done
  slept        \* history: the pauses asked for

retryVars == <<policy, retry, calls, outcome, retryDone, slept>>

Normalize(p) ==
  [MaxAttempts  |-> IF p.MaxAttempts < 1 THEN 1 ELSE p.MaxAttempts,
   InitialDelay |-> IF p.InitialDelay <= 0 THEN DefaultDelay ELSE p.InitialDelay,
   MaxDelay     |-> IF p.MaxDelay <= 0 THEN DefaultMaxDelay ELSE p.MaxDelay]

(* float64(n): the nearest number with a mantissa's bits, of two equally   *)
(* near ones the even one.  A unit is what such numbers are apart.         *)
Unit(n) ==
  LET fits == {e \in 0 .. Spare : n <= Mantissa * Power[e]}
  IN  Power[CHOOSE e \in fits : \A d \in fits : e <= d]

Float(n) ==
  LET u    == Unit(n)
      down == u * (n \div u)
      up   == 2 * (n % u) > u \/ (2 * (n % u) = u /\ (n \div u) % 2 = 1)
  IN  IF up THEN down + u ELSE down

(* To double a float64 is exact; one so large that it becomes +Inf is out  *)
(* of range as well.                                                       *)
Product(p, attempt) == Float(p.InitialDelay) * Power[attempt - 1]

(* The conversion: any of the results the platforms give.                  *)
ToDuration(x) == IF x <= MaxDuration THEN {x} ELSE {MaxDuration, -(MaxDuration + 1)}

Delay_Uncapped(p, attempt) == ToDuration(Product(p, attempt))
Delay(p, attempt) ==
  {IF d > p.MaxDelay THEN p.MaxDelay ELSE d : d \in ToDuration(Product(p, attempt))}

RetryInit ==
  /\ policy = Normalize([MaxAttempts |-> 0, InitialDelay |-> 0, MaxDelay |-> 0])
  /\ retry = "idle" /\ calls = 0 /\ outcome = "none" /\ retryDone = FALSE /\ slept = <<>>

Do ==
  /\ retry = "idle" /\ retry' = "check"
  /\ \E p \in [MaxAttempts : Attempts, InitialDelay : InitialDelays, MaxDelay : MaxDelays] :
       policy' = Normalize(p)
  /\ UNCHANGED <<calls, outcome, retryDone, slept>>

(* The head of the loop.                                                   *)
CheckContext ==
  /\ retry = "check" /\ retry' = IF retryDone THEN "ctx" ELSE "call"
  /\ UNCHANGED <<policy, calls, outcome, retryDone, slept>>

(* The function returns nil, an error, or the error of a context, its own  *)
(* or that of Do.                                                          *)
AfterCall(result) ==
  CASE result = "ok"  -> "nil"
    [] result = "ctx" -> "ctx"
    [] OTHER          -> IF calls + 1 = policy.MaxAttempts THEN "failed" ELSE "pause"

CallFn ==
  /\ retry = "call" /\ calls' = calls + 1
  /\ \E result \in {"ok", "error", "ctx"} :
       outcome' = result /\ retry' = AfterCall(result)
  /\ slept' \in IF retry' = "pause" THEN {Append(slept, d) : d \in Delay(policy, calls')}
                ELSE {slept}
  /\ UNCHANGED <<policy, retryDone>>

Pause ==
  /\ retry = "pause"
  /\ \/ retry' = "check"                   \* the timer
     \/ retryDone /\ retry' = "ctx"
  /\ UNCHANGED <<policy, calls, outcome, retryDone, slept>>

RetryCancel ==
  /\ ~retryDone /\ retryDone' = TRUE
  /\ UNCHANGED <<policy, retry, calls, outcome, slept>>

RetryNext == Do \/ CheckContext \/ CallFn \/ Pause \/ RetryCancel

RetrySpec == RetryInit /\ [][RetryNext]_retryVars

(* The function returns and the timer fires.                               *)
RetryFairness == WF_retryVars(CheckContext \/ CallFn \/ Pause)

-----------------------------------------------------------------------------
(* Do calls the function at least once and at most MaxAttempts times       *)
(* unless the context ends it, returns nil exactly after a call that did,  *)
(* and gives up only after the last call failed.                           *)
RetryVerdict ==
  /\ calls <= policy.MaxAttempts
  /\ retry = "nil" <=> outcome = "ok"
  /\ retry = "failed" => outcome = "error" /\ calls = policy.MaxAttempts
  /\ retry = "ctx" => retryDone \/ outcome = "ctx"

(* No pause is longer than MaxDelay,                                       *)
NoLongPause == \A i \in DOMAIN slept : slept[i] <= policy.MaxDelay

(* none is shorter than the one before it as long as the product, rounded, *)
(* fits an int64 - a delay near the largest int64 may round up past it -,  *)
(* and past that a platform may not pause at all;                          *)
PausesGrow ==
  \A i \in DOMAIN slept :
    Product(policy, i) <= MaxDuration => /\ slept[i] > 0
                                         /\ i > 1 => slept[i - 1] <= slept[i]

(* and while nothing is rounded and the product fits, a pause is exactly   *)
(* the first delay doubled once per failed call, up to MaxDelay.           *)
PausesAreExact ==
  \A i \in DOMAIN slept :
    LET exact == policy.InitialDelay * Power[i - 1] IN
    policy.InitialDelay <= Mantissa /\ exact <= MaxDuration =>
      slept[i] = IF exact > policy.MaxDelay THEN policy.MaxDelay ELSE exact

(* Do returns, cancelled or not.                                           *)
RetryEnds == (retry = "check") ~> (retry \in {"nil", "failed", "ctx"})

(* What Do promises: as many calls as it should make, with pauses that grow *)
(* up to MaxDelay.                                                         *)
RetrySound == RetryVerdict /\ NoLongPause /\ PausesGrow /\ PausesAreExact
=============================================================================
