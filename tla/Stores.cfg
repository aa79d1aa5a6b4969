SPECIFICATION Spec

CONSTANTS
  MaxInt64 = 3
  Tenants = {t1, t2}
  ShipmentIds = {s1, s2}
  LegIds = {l1, l2}
  Routes = {r1}
  Flights = {f1, f2}
  Keys = {k1}
  CustomsInputs = {"review", "released"}
  SecurityInputs = {"passed"}
  NoRow = NoRow
  NoLeg = NoLeg
  NoKey = NoKey
  UserIds = {u1, u2}
  Emails = {e1, e2}
  Tokens = {tok1, tok2}
  SessionIds = {i1, i2}
  NoAccount = NoAccount
  Weights = {2}
  Capacities = {0, 2}
  OtherCaseIds = {c1}
  Subjects <- CheckedSubjects
  MaxVersion = 2

INVARIANTS
  StoresAgree
SYMMETRY Symmetry
