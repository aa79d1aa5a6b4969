SPECIFICATION Spec

CONSTANTS
  Users = {coordinator, shipper}
  Coordinators = {coordinator}
  Tokens = {k1, k2}
  Requests = {r1, r2, r3}
  TTL = 1
  MaxTime = 2
  NoSession = NoSession

SYMMETRY Symmetry

INVARIANTS
  NoAccessAfterEnd

PROPERTIES
  EndIsFinal
