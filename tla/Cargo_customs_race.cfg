SPECIFICATION Spec

CONSTANTS
  t1 = t1
  t2 = t2
  r1 = r1
  r2 = r2
  s1 = s1
  s2 = s2
  NoRow = NoRow
  NoLeg = NoLeg
  NoKey = NoKey
  MaxInt64 = 3
  Tenants = {t1}
  ShipmentIds = {s1}
  LegIds = {l1}
  Routes <- OneRoute
  Flights = {f1}
  Keys = {}
  CustomsInputs = {"review", "released", "held"}
  SecurityInputs = {"passed", "failed"}
  Requests = {r1, r2}
  Users <- OneOfEachRole
  Weights = {1}
  Capacities = {1}
  Reserves = {0}
  MoveTargets = {"booked", "screening", "cleared", "loaded", "departed", "cancelled"}
  ReadsMayFail = FALSE
  MaxLegVersion = 2

PROPERTY CustomsReleasedFinal
