SPECIFICATION Spec

CONSTANTS
  t1 = t1
  t2 = t2
  r1 = r1
  r2 = r2
  s1 = s1
  s2 = s2
  NoRow = NoRow
  NoLeg = NoLeg
  NoKey = NoKey
  MaxInt64 = 3
  Tenants = {t1}
  ShipmentIds = {s1, s2}
  LegIds = {l1}
  Routes <- OneRoute
  Flights = {f1}
  Keys = {k1}
  CustomsInputs = {}
  SecurityInputs = {}
  Requests = {r1, r2}
  Users <- OneCoordinator
  Weights = {1, 2}
  Capacities = {2}
  Reserves = {0, 3}
  MoveTargets = {"booked", "cancelled"}
  ReadsMayFail = FALSE
  MaxLegVersion = 2

SYMMETRY Symmetry

INVARIANTS
  TypeOK
  VersionIdentifiesRow
  BookingSticks
  NoOverbooking
  ReservationAccounting

PROPERTIES
  ImplementsAtomic
