------------------------------ MODULE Pricing ------------------------------
(***************************************************************************)
(* pricing.Table, for one route: rates with a range of weights and a time  *)
(* they are in force, and the quote of a weight at a time, in int64.       *)
(***************************************************************************)
EXTENDS Domain, Sorting

CONSTANTS Rates,        \* the rates offered to Add
          QuoteKg, QuoteTimes, MaxRates, NoQuote

RateFields ==
  [min : Int, max : Int, cents : Int, fuel : -(MaxInt64 + 1) .. MaxInt64, from : Int, to : Int]

ASSUME PricingAssumption ==
  /\ Rates \subseteq RateFields
  /\ QuoteKg \subseteq Int /\ QuoteTimes \subseteq Int
  /\ NoQuote \notin [total : 0 .. MaxInt64, rate : Rates]

VARIABLE rates          \* a sequence of [min, max, cents, fuel, from, to]

pricingVars == <<rates>>

PricingInit == rates = <<>>

AddRate(r) ==
  /\ Len(rates) < MaxRates
  /\ r.min > 0 /\ r.max >= r.min /\ r.cents >= 0 /\ r.to > r.from
  /\ rates' = Append(rates, r)

PricingNext == \E r \in Rates : AddRate(r)

PricingSpec == PricingInit /\ [][PricingNext]_pricingVars

-----------------------------------------------------------------------------
Applies(r, kg, at) == r.min <= kg /\ kg <= r.max /\ r.from <= at /\ at < r.to

Newer_Oldest(a, b) == a.from < b.from
Newer(a, b) == a.from > b.from

(* The second half of the code's test, total > math.MaxInt64, is never true. *)
QuoteOf(r, kg) ==
  LET total == AddInt64(MulInt64(r.cents, kg), r.fuel)
  IN  IF total < 0 THEN NoQuote ELSE [total |-> total, rate |-> r]

(* The outcomes of Quote: the newest rate first, equally new ones in any   *)
(* order.                                                                  *)
Quote(kg, at) ==
  LET candidates == {i \in DOMAIN rates : Applies(rates[i], kg, at)}
  IN  IF kg <= 0 \/ candidates = {} THEN {NoQuote}
      ELSE {QuoteOf(order[1], kg) : order \in SortSlice(rates, candidates, Newer)}

(* A rate quoted is in force and none in force for the weight is newer.    *)
(* Its total is exact if that fits an int64 - then the quote is never      *)
(* refused, also when the product alone does not fit.  If it does not fit, *)
(* only a wrap-around into the negative numbers is noticed: the total may  *)
(* be too small by a multiple of 2^64.                                     *)
QuoteIsExact ==
  \A kg \in QuoteKg, at \in QuoteTimes :
    LET inForce == {rates[i] : i \in {j \in DOMAIN rates : Applies(rates[j], kg, at)}}
        newest  == {r \in inForce : \A s \in inForce : s.from <= r.from}
        exact(r) == r.cents * kg + r.fuel
    IN  \A q \in Quote(kg, at) :
          IF q = NoQuote
          THEN newest = {} \/ kg <= 0 \/ \E r \in newest : exact(r) \notin 0 .. MaxInt64
          ELSE /\ q.rate \in newest
               /\ q.total \in 0 .. MaxInt64
               /\ (exact(q.rate) - q.total) % (2 * (MaxInt64 + 1)) = 0
=============================================================================
