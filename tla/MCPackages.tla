----------------------------- MODULE MCPackages -----------------------------
(***************************************************************************)
(* The packages without goroutines, one instance of each for TLC: the      *)
(* books, which keep a state under one mutex, and the algorithms over all  *)
(* inputs of a small size.  They share nothing, so a behaviour is one of   *)
(* one of them: the others do not move.                                    *)
(***************************************************************************)
EXTENDS CapacityBook, BookingLedger, Warehouse, Transport, Clearance, Idempotency,
        RateLimit, Sequence, FinanceLedger, ShipmentAggregate,
        RoutePlanner, Reconciliation, PriorityQueue, Pricing, Timeline

VARIABLE subject     \* the package that runs

vars == <<bookVars, ledgerVars, calendarVars, plannerVars, clearanceVars,
          idemVars, rateVars, sequenceVars, financeVars, aggregateVars,
          routeVars, compareVars, queueVars, pricingVars, timelineVars,
          subject>>

(* Flights of one unit of time at 1, 2 or 5, small ones at 2, and one of   *)
(* two: just enough time for handling between them, and just too little.   *)
MCSegments ==
  {s \in [from : HubCodes, to : HubCodes, depart : {1, 2, 5}, arrive : 2 .. 6, kg : {1, 2}] :
     /\ s.from # s.to /\ (s.kg = 1 => s.depart = 2)
     /\ s.arrive = s.depart + 1 \/ (s.depart = 1 /\ s.arrive = 3)}

HubSymmetry == Permutations(HubCodes)

(* Two ranges of weights, two of time, and a fuel charge or a rebate.      *)
MCRates ==
  {r \in [min : {1}, max : {2, 3}, cents : {2, 5}, fuel : {-1, 4}, from : 1 .. 2, to : 2 .. 3] :
     r.to > r.from}

Init ==
  /\ BookInit /\ LedgerInit /\ CalendarInit /\ PlannerInit
  /\ ClearanceInit /\ IdemInit /\ RateInit /\ SequenceInit
  /\ FinanceInit /\ AggregateInit /\ RouteInit /\ CompareInit
  /\ QueueInit /\ PricingInit /\ TimelineInit
  /\ subject \in {"book", "ledger", "calendar", "planner", "clearance",
                  "idempotency", "rate", "sequence", "finance",
                  "aggregate", "route", "compare", "queue", "pricing",
                  "timeline"}

Still(s, v) == IF subject = s THEN TRUE ELSE UNCHANGED v

Next ==
  /\ \/ subject = "book" /\ BookNext
     \/ subject = "ledger" /\ LedgerNext
     \/ subject = "calendar" /\ CalendarNext
     \/ subject = "planner" /\ PlannerNext
     \/ subject = "clearance" /\ ClearanceNext
     \/ subject = "idempotency" /\ IdemNext
     \/ subject = "rate" /\ RateNext
     \/ subject = "sequence" /\ SequenceNext
     \/ subject = "finance" /\ FinanceNext
     \/ subject = "aggregate" /\ AggregateNext
     \/ subject = "route" /\ RouteNext
     \/ subject = "compare" /\ CompareNext
     \/ subject = "queue" /\ QueueNext
     \/ subject = "pricing" /\ PricingNext
     \/ subject = "timeline" /\ TimelineNext
  /\ Still("book", bookVars)
  /\ Still("ledger", ledgerVars)
  /\ Still("calendar", calendarVars)
  /\ Still("planner", plannerVars)
  /\ Still("clearance", clearanceVars)
  /\ Still("idempotency", idemVars)
  /\ Still("rate", rateVars)
  /\ Still("sequence", sequenceVars)
  /\ Still("finance", financeVars)
  /\ Still("aggregate", aggregateVars)
  /\ Still("route", routeVars)
  /\ Still("compare", compareVars)
  /\ Still("queue", queueVars)
  /\ Still("pricing", pricingVars)
  /\ Still("timeline", timelineVars)
  /\ UNCHANGED subject

Spec == Init /\ [][Next]_vars
=============================================================================
