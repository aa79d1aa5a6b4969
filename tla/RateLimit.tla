------------------------------ MODULE RateLimit ------------------------------
(***************************************************************************)
(* ratelimit.Limiter, for one key: fixed windows.  A caller reads the      *)
(* clock before the mutex is taken, so the time it brings may be old, here *)
(* by at most Skew.                                                        *)
(***************************************************************************)
EXTENDS Integers, Sequences, FiniteSets

CONSTANTS RateCallers, RateLimits, Durations, DefaultDuration, Skew,
          LastRateTime, MaxAllowed,      \* bounds: the time, the calls allowed
          NoLimiter, NoWindow, NoTime

ASSUME RateAssumption ==
  /\ RateLimits \subseteq Int /\ Durations \subseteq Int
  /\ DefaultDuration \in Nat \ {0} /\ Skew \in Nat
  /\ NoLimiter \notin [limit : Int, duration : Int]
  /\ NoWindow \notin [started : Int, count : Int]
  /\ NoTime \notin Int

VARIABLES
  rateClock,
  limiter,    \* [limit, duration], fixed by New; NoLimiter before
  window,     \* [started, count] or NoWindow
  reading,    \* per caller: the time it brings, or NoTime
  allowed     \* history: the true times of the calls allowed since Reset

rateVars == <<rateClock, limiter, window, reading, allowed>>

RateInit ==
  /\ rateClock = 1 /\ limiter = NoLimiter /\ window = NoWindow /\ allowed = <<>>
  /\ reading = [c \in RateCallers |-> NoTime]

NewLimiter(limit, duration) ==
  /\ limiter = NoLimiter
  /\ limiter' = [limit    |-> IF limit < 1 THEN 1 ELSE limit,
                 duration |-> IF duration <= 0 THEN DefaultDuration ELSE duration]
  /\ UNCHANGED <<rateClock, window, reading, allowed>>

ReadRateClock(c) ==
  /\ limiter # NoLimiter
  /\ reading[c] = NoTime /\ reading' = [reading EXCEPT ![c] = rateClock]
  /\ UNCHANGED <<rateClock, limiter, window, allowed>>

Expired(now) == window = NoWindow \/ now >= window.started + limiter.duration

Full_OneMore(w) == w.count > limiter.limit
Full(w) == w.count >= limiter.limit

Allow(c) ==
  LET now == reading[c] IN
  /\ now # NoTime /\ Len(allowed) < MaxAllowed
  /\ IF Expired(now)
     THEN window' = [started |-> now, count |-> 1] /\ allowed' = Append(allowed, rateClock)
     ELSE IF Full(window) THEN UNCHANGED <<window, allowed>>
     ELSE window' = [window EXCEPT !.count = @ + 1] /\ allowed' = Append(allowed, rateClock)
  /\ reading' = [reading EXCEPT ![c] = NoTime]
  /\ UNCHANGED <<rateClock, limiter>>

Reset ==
  /\ window # NoWindow /\ window' = NoWindow /\ allowed' = <<>>
  /\ UNCHANGED <<rateClock, limiter, reading>>

Remaining(now) ==
  IF Expired(now) THEN limiter.limit
  ELSE IF Full(window) THEN 0 ELSE limiter.limit - window.count

RateTick ==
  /\ limiter # NoLimiter /\ rateClock < LastRateTime /\ rateClock' = rateClock + 1
  /\ \A c \in RateCallers : reading[c] # NoTime => rateClock - reading[c] < Skew
  /\ UNCHANGED <<limiter, window, reading, allowed>>

RateNext ==
  \/ \E limit \in RateLimits, d \in Durations : NewLimiter(limit, d)
  \/ \E c \in RateCallers : ReadRateClock(c) \/ Allow(c)
  \/ Reset \/ RateTick

RateSpec == RateInit /\ [][RateNext]_rateVars

-----------------------------------------------------------------------------
(* A window is replaced only by a call that read the clock a duration      *)
(* after the window started.  So, however old the readings are, in any     *)
(* stretch of time shorter than a duration less the skew at most two       *)
(* windows count, and at most twice the limit of calls is allowed.         *)
AtMostTwoWindows ==
  limiter # NoLimiter =>
  \A t \in 1 .. rateClock :
    Cardinality({i \in 1 .. Len(allowed) :
                   t <= allowed[i] /\ allowed[i] < t + limiter.duration - Skew})
      <= 2 * limiter.limit

(* Remaining promises what Allow keeps: after that many more calls at this *)
(* time the window is full, and not before.                                *)
RemainingIsKept ==
  limiter # NoLimiter =>
  LET AllowAt(w, now) ==      \* what a call makes of a window that is not full
        IF w = NoWindow \/ now >= w.started + limiter.duration THEN [started |-> now, count |-> 1]
        ELSE [w EXCEPT !.count = @ + 1]
      After[n \in 0 .. limiter.limit] == IF n = 0 THEN window ELSE AllowAt(After[n - 1], rateClock)
      n == Remaining(rateClock)
  IN  n \in 0 .. limiter.limit /\ After[n] # NoWindow /\ After[n].count = limiter.limit

(* What the limiter promises: no more than two windows of calls, and what  *)
(* Remaining says.                                                         *)
RateSound == AtMostTwoWindows /\ RemainingIsKept
=============================================================================
