------------------------------ MODULE Sequence ------------------------------
(***************************************************************************)
(* sequence.Generator: numbers that start again every day.  A caller reads *)
(* the clock before the mutex is taken, so after midnight a number may be  *)
(* drawn for the day that is over.                                         *)
(***************************************************************************)
EXTENDS Integers, Sequences, FiniteSets

CONSTANTS Drawers, LastDay, MaxDrawn     \* bounds: the days, the numbers drawn

VARIABLES
  today,
  genDay, genNext,   \* the day, 0 at first, and the last number of the Generator
  dayRead,           \* per caller: the day of the time it brings, or 0
  issued,            \* history: the identifiers <<day, number>>, in order
  wentBack           \* history: a number was drawn for a day before genDay

sequenceVars == <<today, genDay, genNext, dayRead, issued, wentBack>>

SequenceInit ==
  /\ today = 1 /\ genDay = 0 /\ genNext = 0 /\ issued = <<>> /\ wentBack = FALSE
  /\ dayRead = [c \in Drawers |-> 0]

ReadDay(c) ==
  /\ dayRead[c] = 0 /\ dayRead' = [dayRead EXCEPT ![c] = today]
  /\ UNCHANGED <<today, genDay, genNext, issued, wentBack>>

NewDay_Later(day) == day > genDay + 1
NewDay(day) == day # genDay

NextNumber(c) ==
  LET day    == dayRead[c]
      number == (IF NewDay(day) THEN 0 ELSE genNext) + 1
  IN
  /\ day # 0 /\ Len(issued) < MaxDrawn
  /\ genDay' = day /\ genNext' = number
  /\ issued' = Append(issued, <<day, number>>)
  /\ dayRead' = [dayRead EXCEPT ![c] = 0]
  /\ wentBack' = (wentBack \/ day < genDay)
  /\ UNCHANGED today

Midnight ==
  /\ today < LastDay /\ today' = today + 1
  /\ UNCHANGED <<genDay, genNext, dayRead, issued, wentBack>>

SequenceNext == (\E c \in Drawers : ReadDay(c) \/ NextNumber(c)) \/ Midnight

SequenceSpec == SequenceInit /\ [][SequenceNext]_sequenceVars

-----------------------------------------------------------------------------
(* The identifiers of a day are its numbers from 1 on, without gaps and    *)
(* none twice, unless a caller's time was overtaken by midnight and        *)
(* another caller's: that starts both days' numbers again.                 *)
NumbersOfADay ==
  wentBack \/ \A i \in 1 .. Len(issued) :
    issued[i][2] = Cardinality({j \in 1 .. i : issued[j][1] = issued[i][1]})
=============================================================================
