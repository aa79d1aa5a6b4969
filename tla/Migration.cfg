SPECIFICATION FairSpec

CONSTANTS
  Procs = {p1, p2, p3}
  N = 2
  MaxFaults = 2

INVARIANTS
  AppliedOnce
  AppliedInOrder
  ServesOnFullSchema

PROPERTIES
  StartupsConclude

CHECK_DEADLOCK FALSE
