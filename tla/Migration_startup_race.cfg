SPECIFICATION FairSpec

CONSTANTS
  Procs = {p1, p2}
  N = 2
  MaxFaults = 0

PROPERTIES
  StartupsSucceed

CHECK_DEADLOCK FALSE
