------------------------------ MODULE Warehouse ------------------------------
(***************************************************************************)
(* warehouse.Calendar: bookings of time in slots.  The slot and its used   *)
(* weight, and the identifier of a booking, come from the caller; a        *)
(* booking with a used identifier overwrites the old one.                  *)
(***************************************************************************)
EXTENDS Domain, FiniteSetsExt

CONSTANTS Slots, BookingIds, SlotMax, SlotUsed, BookingKg, Hours,
          NoSlot

ASSUME WarehouseAssumption ==
  /\ SlotMax \subseteq Int /\ BookingKg \subseteq Int
  /\ SlotUsed \subseteq -(MaxInt64 + 1) .. MaxInt64
  /\ Hours \subseteq Int
  /\ NoSlot \notin [max : Int, used : Int, initial : Int, open : Int, close : Int]

VARIABLES
  slots,      \* id -> [max, used, initial, open, close] or NoSlot
  bookings,   \* a set of [id, slot, weight, start, end], one for each id
  reused,     \* history: a booking was overwritten
  overflowed  \* history: a sum of weights went past the largest int64

calendarVars == <<slots, bookings, reused, overflowed>>

CalendarInit ==
  slots = [s \in Slots |-> NoSlot] /\ bookings = {} /\ reused = FALSE /\ overflowed = FALSE

(* The weight used at first is the caller's; initial keeps it.             *)
AddSlot(id, max, used, open, close) ==
  /\ max > 0 /\ close > open /\ slots[id] = NoSlot
  /\ slots' = [slots EXCEPT ![id] = [max |-> max, used |-> used, initial |-> used,
                                     open |-> open, close |-> close]]
  /\ UNCHANGED <<bookings, reused, overflowed>>

Overlaps(b, old) == old.slot = b.slot /\ b.start < old.end /\ old.start < b.end

Book(b) ==
  LET s == slots[b.slot] IN
  /\ b.weight > 0 /\ b.end > b.start /\ s # NoSlot
  /\ b.start >= s.open /\ b.end <= s.close /\ AddInt64(s.used, b.weight) <= s.max
  /\ \A old \in bookings : ~Overlaps(b, old)
  /\ bookings' = {old \in bookings : old.id # b.id} \cup {b}
  /\ slots' = [slots EXCEPT ![b.slot].used = AddInt64(@, b.weight)]
  /\ reused' = (reused \/ \E old \in bookings : old.id = b.id)
  /\ overflowed' = (overflowed \/ s.used + b.weight > MaxInt64)

CancelBooking_KeepsWeight(b) ==
  /\ bookings' = bookings \ {b}
  /\ UNCHANGED <<slots, reused, overflowed>>
CancelBooking(b) ==
  /\ bookings' = bookings \ {b}
  /\ slots' = [slots EXCEPT ![b.slot].used = AddInt64(@, -b.weight)]
  /\ UNCHANGED <<reused, overflowed>>

CalendarNext ==
  \/ \E id \in Slots, max \in SlotMax, used \in SlotUsed, open, close \in Hours :
       AddSlot(id, max, used, open, close)
  \/ \E b \in [id : BookingIds, slot : Slots, weight : BookingKg, start : Hours, end : Hours] : Book(b)
  \/ \E b \in bookings : CancelBooking(b)

CalendarSpec == CalendarInit /\ [][CalendarNext]_calendarVars

-----------------------------------------------------------------------------
(* No two bookings of a slot overlap, and each lies in its opening hours,  *)
(* through whatever sequence of bookings, overwritings and cancellations.  *)
NoDoubleBooking ==
  \A b \in bookings :
    /\ \A c \in bookings : b # c => ~(b.slot = c.slot /\ b.start < c.end /\ c.start < b.end)
    /\ slots[b.slot].open <= b.start /\ b.end <= slots[b.slot].close

InSlot(id) == {b \in bookings : b.slot = id}
Kg(parts) == MapThenSumSet(LAMBDA p : p.weight, parts)

(* The used weight of a slot is that of its bookings and what it was added *)
(* with, unless a booking was overwritten: its weight stays for ever (or a *)
(* sum went past the largest int64).                                       *)
SlotWeight ==
  \A id \in Slots :
    slots[id] # NoSlot /\ ~overflowed =>
      LET kg == Kg(InSlot(id)) IN
      IF reused THEN slots[id].used >= slots[id].initial + kg
      ELSE slots[id].used = slots[id].initial + kg

(* What the calendar promises: no slot booked twice at a time, and its     *)
(* weight accounted for.                                                   *)
CalendarSound == NoDoubleBooking /\ SlotWeight
=============================================================================
