---------------------------- MODULE PriorityQueue ----------------------------
(***************************************************************************)
(* priority.Queue on container/heap: the highest priority first, among     *)
(* equals the smallest identifier.                                         *)
(***************************************************************************)
EXTENDS Integers, Sequences, FiniteSets

CONSTANTS Priorities, ItemIds, MaxItems      \* bound: items in the queue

ASSUME QueueAssumption == Priorities \subseteq Int /\ ItemIds \subseteq Int

VARIABLES heap,       \* a sequence of [priority, id]
          waiting     \* history: how often each item was added and not taken

queueVars == <<heap, waiting>>

Items == [priority : Priorities, id : ItemIds]

QueueInit == heap = <<>> /\ waiting = [x \in Items |-> 0]

Less(a, b) == IF a.priority = b.priority THEN a.id < b.id ELSE a.priority > b.priority

(* container/heap, up: the last item is swapped with its parents as long   *)
(* as it is less.  The swaps amount to this: with the item about to stand  *)
(* at k, the parent it passes moves down to k.                             *)
Up(h) ==
  LET up[k \in 1 .. Len(h)] ==
        IF k > 1 /\ Less(h[Len(h)], h[k \div 2]) THEN [up[k \div 2] EXCEPT ![k] = h[k \div 2]]
        ELSE [h EXCEPT ![k] = h[Len(h)]]
  IN  up[Len(h)]

(* The lesser of the children that the item at k has in h, if it has one.  *)
Child(h, k) == IF 2 * k + 1 <= Len(h) /\ Less(h[2 * k + 1], h[2 * k]) THEN 2 * k + 1 ELSE 2 * k

(* container/heap, down: x, put in the place of the first item, is swapped *)
(* with the lesser child as long as that is less than x.                   *)
Down(h, x) ==
  LET down[k \in 1 .. Len(h)] ==
        IF 2 * k <= Len(h) /\ Less(h[Child(h, k)], x)
        THEN [down[Child(h, k)] EXCEPT ![k] = h[Child(h, k)]]
        ELSE [h EXCEPT ![k] = x]
  IN  IF h = <<>> THEN h ELSE down[1]

Add(x) ==
  /\ Len(heap) < MaxItems
  /\ heap' = Up(Append(heap, x))
  /\ waiting' = [waiting EXCEPT ![x] = @ + 1]

(* What Take leaves of the heap: the last item changes places with the     *)
(* first, which is cut off, and goes down.                                 *)
Pop_NotSifted == SubSeq([heap EXCEPT ![1] = heap[Len(heap)]], 1, Len(heap) - 1)
Pop == Down(SubSeq(heap, 1, Len(heap) - 1), heap[Len(heap)])

Take ==
  /\ heap # <<>>
  /\ heap' = Pop
  /\ waiting' = [waiting EXCEPT ![heap[1]] = @ - 1]

QueueNext == Take \/ \E x \in Items : Add(x)

QueueSpec == QueueInit /\ [][QueueNext]_queueVars

-----------------------------------------------------------------------------
(* Through every sequence of Add and Take, the queue holds exactly what    *)
(* was added and not taken, and the next item Take returns is the best of  *)
(* it: the highest priority, and of that the smallest identifier.          *)
NextIsBest ==
  /\ \A x \in Items : waiting[x] = Cardinality({i \in DOMAIN heap : heap[i] = x})
  /\ heap # <<>> =>
       \A x \in Items : waiting[x] > 0 =>
         \/ x.priority < heap[1].priority
         \/ x.priority = heap[1].priority /\ heap[1].id <= x.id
=============================================================================
