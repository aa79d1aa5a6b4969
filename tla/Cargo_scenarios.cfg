SPECIFICATION Spec

CONSTANTS
  t1 = t1
  t2 = t2
  r1 = r1
  r2 = r2
  s1 = s1
  s2 = s2
  NoRow = NoRow
  NoLeg = NoLeg
  NoKey = NoKey
  MaxInt64 = 3
  Tenants = {t1, t2}
  ShipmentIds = {s1, s2}
  LegIds = {l1}
  Routes <- OneRoute
  Flights = {f1}
  Keys = {k1}
  CustomsInputs = {"review", "released", "held"}
  SecurityInputs = {"passed", "failed"}
  Requests = {r1, r2}
  Users <- TwoCoordinators
  Weights = {1}
  Capacities = {2}
  Reserves = {0}
  MoveTargets = {"booked", "screening", "cleared", "loaded", "departed", "cancelled"}
  ReadsMayFail = TRUE
  MaxLegVersion = 2

CONSTRAINT OneUse

SYMMETRY TenantSymmetry

INVARIANTS
  LoadedNeedsClearance
  IdempotentCreate

PROPERTIES
  TenantIsolation
