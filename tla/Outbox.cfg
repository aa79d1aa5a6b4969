SPECIFICATION FairSpec

CONSTANTS
  Events = {e1, e2, e3}
  Runners = {p1, p2}
  Backends = {"postgres", "memory"}
  Batch = 2
  MaxDelay = 1
  MaxAttempts = 2
  MaxShutdowns = 2
  MaxFaults = 2

INVARIANTS
  ExclusiveClaim
  AtMostOncePublish

PROPERTIES
  EventuallyPublished

CHECK_DEADLOCK FALSE
