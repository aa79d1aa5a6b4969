---------------------------- MODULE RoutePlanner ----------------------------
(***************************************************************************)
(* route.Planner: hubs, flight segments between them, and the search for a *)
(* direct flight or one connection.  Times are instants, and a Duration is *)
(* an int64: the handling time of a hub is its minutes times Minute.       *)
(***************************************************************************)
EXTENDS Domain, Sorting

CONSTANTS HubCodes, Handling, Segments,   \* the segments offered to AddSegment
          Minute,                         \* time.Minute
          Weights, MaxSegments,           \* bound: segments added
          NoHub, NoRoute, Cancelled, Invalid

ASSUME RouteAssumption ==
  /\ Segments \subseteq [from : HubCodes, to : HubCodes, depart : Int, arrive : Int, kg : Int]
  /\ Handling \subseteq Int /\ Weights \subseteq Int /\ Minute \in Nat
  /\ NoRoute \notin {<<s>> : s \in Segments} \cup (Segments \X Segments)

VARIABLES hubs,        \* code -> handling minutes, or NoHub
          segments     \* a sequence of [from, to, depart, arrive, kg]

routeVars == <<hubs, segments>>

RouteInit == hubs = [h \in HubCodes |-> NoHub] /\ segments = <<>>

AddHub(code, minutes) ==
  /\ minutes >= 0 /\ hubs[code] = NoHub
  /\ hubs' = [hubs EXCEPT ![code] = minutes]
  /\ UNCHANGED segments

AddSegment(s) ==
  /\ Len(segments) < MaxSegments
  /\ s.from # s.to /\ s.arrive > s.depart /\ s.kg >= 0
  /\ hubs[s.from] # NoHub /\ hubs[s.to] # NoHub
  /\ segments' = Append(segments, s)
  /\ UNCHANGED hubs

RouteNext ==
  \/ \E code \in HubCodes, minutes \in Handling : AddHub(code, minutes)
  \/ \E s \in Segments : AddSegment(s)

RouteSpec == RouteInit /\ [][RouteNext]_routeVars

-----------------------------------------------------------------------------
Starts(s, from, weight, earliest) == s.from = from /\ s.kg >= weight /\ s.depart >= earliest

Connects_AnyTime(first, second, to, weight) ==
  second.from = first.to /\ second.to = to /\ second.kg >= weight
Connects(first, second, to, weight) ==
  /\ second.from = first.to /\ second.to = to /\ second.kg >= weight
  /\ second.depart > first.arrive + MulInt64(hubs[first.to], Minute)

(* The loops over one order of the queue: the first segment in it that is  *)
(* direct or has a connection, and the first connection it has.            *)
Search(queue, to, weight) ==
  LET Onward(first) == SelectInSeq(segments, LAMBDA s : Connects(first, s, to, weight))
      i == SelectInSeq(queue, LAMBDA s : s.to = to \/ Onward(s) # 0)
  IN  IF i = 0 THEN NoRoute
      ELSE IF queue[i].to = to THEN <<queue[i]>>
      ELSE <<queue[i], segments[Onward(queue[i])]>>

(* The outcomes of Plan.  The queue is sorted by arrival; the context is   *)
(* looked at only once a segment of it was not direct.                     *)
Plan(from, to, weight, earliest) ==
  LET queue  == {i \in DOMAIN segments : Starts(segments[i], from, weight, earliest)}
      orders == SortSlice(segments, queue, LAMBDA a, b : a.arrive < b.arrive)
  IN  IF weight <= 0 THEN {Invalid}
      ELSE IF queue = {} THEN {NoRoute}
      ELSE {Search(q, to, weight) : q \in orders}
           \cup {Cancelled : q \in {o \in orders : o[1].to # to}}

(* Plan refuses a weight that is not positive.  It fails only if no direct *)
(* flight and no connection that leaves the time for handling exists, and  *)
(* the route it returns is one of these, with a first segment that arrives *)
(* no later than that of any other: not the one that ends earliest, and    *)
(* not a direct one before a connection.  Where the handling time of a hub *)
(* is too long for a Duration it wraps, and the connection there may leave *)
(* less time.                                                              *)
PlanIsGreedy ==
  \A from, to \in HubCodes, weight \in Weights, earliest \in {s.depart : s \in Segments} :
    LET legs     == {segments[i] : i \in DOMAIN segments}
        firsts   == {s \in legs : s.from = from /\ s.kg >= weight /\ s.depart >= earliest}
        onward   == {s \in legs : s.to = to /\ s.kg >= weight}
        direct   == {<<s>> : s \in firsts \cap onward}
        via      == {r \in firsts \X onward : r[1].to = r[2].from}
        feasible == direct \cup {r \in via : r[2].depart - r[1].arrive > hubs[r[1].to] * Minute}
        wrapping == {r \in via : hubs[r[1].to] * Minute > MaxInt64}
    IN  IF weight <= 0 THEN Plan(from, to, weight, earliest) = {Invalid}
        ELSE \A r \in Plan(from, to, weight, earliest) \ {Cancelled} :
               IF r = NoRoute THEN feasible = {}
               ELSE /\ r \in feasible \cup wrapping
                    /\ \A f \in feasible : r[1].arrive <= f[1].arrive
=============================================================================
