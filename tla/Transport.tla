------------------------------ MODULE Transport ------------------------------
(***************************************************************************)
(* transport.Planner: vehicles with a maximal weight and a time of         *)
(* availability, and assignments to them.  No method sets the status       *)
(* "cancelled" that would free a vehicle; an assignment with a used        *)
(* identifier overwrites the old one, whatever its status.                 *)
(***************************************************************************)
EXTENDS Integers

CONSTANTS Vehicles, AssignmentIds, VehicleKg, Days, NoVehicle

VARIABLES
  vehicles,      \* id -> [max, from, to] or NoVehicle
  assignments,   \* a set of [id, vehicle, weight, status], one for each id
  assignedAt     \* history: id -> the time of its assignment

plannerVars == <<vehicles, assignments, assignedAt>>

PlannerInit ==
  /\ vehicles = [v \in Vehicles |-> NoVehicle] /\ assignments = {}
  /\ assignedAt = [id \in AssignmentIds |-> 0]

AddVehicle(id, max, from, to) ==
  /\ max > 0 /\ to > from /\ vehicles[id] = NoVehicle
  /\ vehicles' = [vehicles EXCEPT ![id] = [max |-> max, from |-> from, to |-> to]]
  /\ UNCHANGED <<assignments, assignedAt>>

Taken_OnlyAssigned(vehicle) ==
  \E old \in assignments : old.vehicle = vehicle /\ old.status = "assigned"
Taken(vehicle) == \E old \in assignments : old.vehicle = vehicle /\ old.status # "cancelled"

Assign(id, vehicle, weight, at) ==
  LET v == vehicles[vehicle] IN
  /\ weight > 0 /\ v # NoVehicle
  /\ weight <= v.max /\ v.from <= at /\ at < v.to
  /\ ~Taken(vehicle)
  /\ assignments' = {a \in assignments : a.id # id}
       \cup {[id |-> id, vehicle |-> vehicle, weight |-> weight, status |-> "assigned"]}
  /\ assignedAt' = [assignedAt EXCEPT ![id] = at]
  /\ UNCHANGED vehicles

CompleteAssignment(a) ==
  /\ a.status = "assigned"
  /\ assignments' = (assignments \ {a}) \cup {[a EXCEPT !.status = "completed"]}
  /\ UNCHANGED <<vehicles, assignedAt>>

PlannerNext ==
  \/ \E id \in Vehicles, max \in VehicleKg, from, to \in Days : AddVehicle(id, max, from, to)
  \/ \E id \in AssignmentIds, v \in Vehicles, kg \in VehicleKg, at \in Days : Assign(id, v, kg, at)
  \/ \E a \in assignments : CompleteAssignment(a)

PlannerSpec == PlannerInit /\ [][PlannerNext]_plannerVars

-----------------------------------------------------------------------------
(* A vehicle has one assignment at most, completed ones included, and      *)
(* every assignment, also one that took over an identifier, fits its       *)
(* vehicle and its time.                                                   *)
OneLoadPerVehicle ==
  \A a \in assignments :
    /\ \A b \in assignments : a # b => a.vehicle # b.vehicle
    /\ LET v == vehicles[a.vehicle] IN
       a.weight <= v.max /\ v.from <= assignedAt[a.id] /\ assignedAt[a.id] < v.to
=============================================================================
