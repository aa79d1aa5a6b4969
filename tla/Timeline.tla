------------------------------ MODULE Timeline ------------------------------
(***************************************************************************)
(* timeline.Timeline: events that are appended in any order of their times *)
(* and kept sorted, and the questions asked of them.                       *)
(***************************************************************************)
EXTENDS Sorting

CONSTANTS Kinds, EventTimes, NoEvent, NoDuration

Event == [kind : Kinds, at : EventTimes]

ASSUME TimelineAssumption ==
  EventTimes \subseteq Int /\ NoEvent \notin Event /\ NoDuration \notin Nat

VARIABLES events,      \* a sequence of [kind, at]
          happened     \* history: the events accepted

timelineVars == <<events, happened>>

TimelineInit == events = <<>> /\ happened = {}

Sorted_NotSorted(s) == s
Sorted(s) == SortSliceStable(s, LAMBDA a, b : a.at < b.at)

AppendEvent(e) ==
  /\ \A i \in DOMAIN events : events[i] # e
  /\ events' = Sorted(Append(events, e))
  /\ happened' = happened \cup {e}

TimelineNext == \E e \in Event : AppendEvent(e)

TimelineSpec == TimelineInit /\ [][TimelineNext]_timelineVars

-----------------------------------------------------------------------------
Latest(kind) ==
  LET i == SelectLastInSeq(events, LAMBDA e : e.kind = kind)
  IN  IF i = 0 THEN NoEvent ELSE events[i]

Duration(start, end) ==
  LET a == Latest(start)
      b == Latest(end)
  IN  IF a = NoEvent \/ b = NoEvent THEN NoDuration
      ELSE IF b.at < a.at THEN NoDuration ELSE b.at - a.at

Between(start, end) ==
  Permuted(events, Ascending({i \in DOMAIN events : start <= events[i].at /\ events[i].at < end}))

(* The answers do not depend on the order the events came in: Latest is    *)
(* the event of its kind with the greatest time, a duration is measured    *)
(* from the latest start (so that it is lost when a phase starts again),   *)
(* and Between returns the events of an interval in the order of time.     *)
OrderIndependent ==
  LET At(kind) == {e.at : e \in {x \in happened : x.kind = kind}}
      IsMax(t, T) == t \in T /\ \A u \in T : u <= t
  IN  /\ \A k \in Kinds : IF At(k) = {} THEN Latest(k) = NoEvent ELSE IsMax(Latest(k).at, At(k))
      /\ \A k, l \in Kinds :
           IF Duration(k, l) = NoDuration
           THEN At(k) = {} \/ At(l) = {} \/ \E t \in At(k) : \A u \in At(l) : u < t
           ELSE \E t \in At(k), u \in At(l) :
                  IsMax(t, At(k)) /\ IsMax(u, At(l)) /\ Duration(k, l) = u - t
      /\ \A s, t \in EventTimes :
           LET found == Between(s, t) IN
           /\ {found[i] : i \in DOMAIN found} = {e \in happened : s <= e.at /\ e.at < t}
           /\ \A i, j \in DOMAIN found : i < j => found[i].at <= found[j].at
=============================================================================
