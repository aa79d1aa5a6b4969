-------------------------- MODULE ShipmentAggregate --------------------------
(***************************************************************************)
(* aggregate.Store, for one identifier: a shipment with a version and a    *)
(* log of its transitions.  Callers read it and then transition it with    *)
(* the version they saw.                                                   *)
(***************************************************************************)
EXTENDS Domain, Sequences

CONSTANTS Movers, FirstVersions, NoItem

(* Versions are int64, of which there are more than a shipment has moves.  *)
ASSUME ShipmentAggregateAssumption ==
  /\ MaxInt64 > 5 /\ FirstVersions \subseteq Int /\ \A v \in FirstVersions : v <= MaxInt64
  /\ NoItem \notin [status : ShipmentStatus, version : Int]
  /\ NoItem \notin [status : ShipmentStatus, version : Int, events : Seq(ShipmentStatus)]

VARIABLES
  item,     \* [status, version, events] or NoItem; events: the appended ones
  created,  \* history: [status, version] at Create
  view,     \* per caller: [status, version] of its last Get, or NoItem
  grounds   \* history: for each event the status its caller had seen

aggregateVars == <<item, created, view, grounds>>

AggregateInit ==
  item = NoItem /\ created = NoItem /\ view = [m \in Movers |-> NoItem] /\ grounds = <<>>

(* Status and version are the caller's: any status, a version from 1 on.   *)
CreateItem(status, version) ==
  /\ version >= 1 /\ item = NoItem
  /\ item' = [status |-> status, version |-> version, events |-> <<>>]
  /\ created' = [status |-> status, version |-> version]
  /\ UNCHANGED <<view, grounds>>

GetItem(m) ==
  /\ item # NoItem
  /\ view' = [view EXCEPT ![m] = [status |-> item.status, version |-> item.version]]
  /\ UNCHANGED <<item, created, grounds>>

SameVersion_Ignored(m) == TRUE
SameVersion(m) == item.version = view[m].version

Transition(m, next) ==
  /\ view[m] # NoItem /\ SameVersion(m)
  /\ ShipmentCanTransition(item.status, next)
  /\ item' = [status |-> next, version |-> AddInt64(item.version, 1),
              events |-> Append(item.events, next)]
  /\ grounds' = Append(grounds, view[m].status)
  /\ UNCHANGED <<created, view>>

AggregateNext ==
  \/ \E status \in ShipmentStatus, version \in FirstVersions : CreateItem(status, version)
  \/ \E m \in Movers : GetItem(m) \/ \E next \in ShipmentStatus : Transition(m, next)

AggregateSpec == AggregateInit /\ [][AggregateNext]_aggregateVars

-----------------------------------------------------------------------------
(* The log is a path of legal moves from the status the shipment was       *)
(* created with to the one it has, each made by a caller that had seen its *)
(* predecessor, and the version counts it - wrapping around if the caller  *)
(* of Create started it that high.                                         *)
LogIsPath ==
  item # NoItem =>
    LET path == <<created.status>> \o item.events IN
    /\ path[Len(path)] = item.status
    /\ item.version = AddInt64(created.version, Len(item.events))
    /\ \A i \in 1 .. Len(grounds) :
         grounds[i] = path[i] /\ <<path[i], path[i + 1]>> \in ShipmentMoves
=============================================================================
