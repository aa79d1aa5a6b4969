------------------------------- MODULE Domain -------------------------------
(***************************************************************************)
(* The business rules of package domain: the status machines of shipments, *)
(* flight legs, customs cases and security checks, the validation rules,   *)
(* and the capacity rule in the int64 arithmetic the code computes in.     *)
(* A rule that returns a Go error is a Boolean here: TRUE is a nil error.  *)
(***************************************************************************)
EXTENDS Integers

CONSTANT MaxInt64      \* the largest int64; small in the TLC models

ASSUME MaxInt64Assumption == MaxInt64 \in Nat \ {0}

ShipmentStatus ==
  {"draft", "booked", "screening", "cleared", "loaded", "departed", "cancelled"}
LegStatus      == {"planned", "open", "boarding", "departed", "closed"}
CustomsStatus  == {"pending", "review", "released", "held"}
SecurityStatus == {"pending", "passed", "failed"}

Role == {"shipper", "coordinator", "ground_agent"}

-----------------------------------------------------------------------------
(* The CanTransition tables, as relations.                                 *)

ShipmentMoves ==
  {<<"draft", "booked">>,      <<"draft", "cancelled">>,
   <<"booked", "screening">>,  <<"booked", "cancelled">>,
   <<"screening", "cleared">>, <<"screening", "cancelled">>,
   <<"cleared", "loaded">>,    <<"cleared", "cancelled">>,
   <<"loaded", "departed">>}

CustomsMoves ==
  {<<"pending", "review">>,  <<"pending", "held">>,
   <<"review", "released">>, <<"review", "held">>,
   <<"held", "review">>}

LegMoves ==
  {<<"planned", "open">>,      <<"open", "boarding">>,   <<"open", "closed">>,
   <<"boarding", "departed">>, <<"boarding", "closed">>, <<"departed", "closed">>}

LegCanTransition(from, to)      == <<from, to>> \in LegMoves
ShipmentCanTransition(from, to) == <<from, to>> \in ShipmentMoves
CustomsCanTransition(from, to)  == <<from, to>> \in CustomsMoves

-----------------------------------------------------------------------------
(* int64 addition and multiplication: the result wraps around.             *)
AddInt64(a, b) ==
  LET sum == a + b IN
  IF sum > MaxInt64 THEN sum - 2 * (MaxInt64 + 1)
  ELSE IF sum < -(MaxInt64 + 1) THEN sum + 2 * (MaxInt64 + 1)
  ELSE sum

MulInt64(a, b) ==
  LET modulus == 2 * (MaxInt64 + 1) IN ((a * b + MaxInt64 + 1) % modulus) - (MaxInt64 + 1)

(* A route is a pair <<origin, destination>>.                              *)
ValidateShipment(route, weight) == weight > 0 /\ route[1] # route[2]

ValidateLeg(capacity) == capacity > 0

ValidateCapacity_Unchecked(leg, weight) == weight > 0 /\ leg.reserved >= 0
ValidateCapacity(leg, weight) ==
  /\ weight > 0
  /\ leg.reserved >= 0
  /\ AddInt64(leg.reserved, weight) <= leg.capacity

CustomsAllowsLoading(status)  == status = "released"
SecurityAllowsLoading(status) == status = "passed"
=============================================================================
