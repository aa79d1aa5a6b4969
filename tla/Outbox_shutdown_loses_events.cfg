SPECIFICATION FairSpec

CONSTANTS
  Events = {e1}
  Runners = {p1}
  Backends = {"postgres"}
  Batch = 1
  MaxDelay = 0
  MaxAttempts = 2
  MaxShutdowns = 1
  MaxFaults = 0

PROPERTIES
  DurableDelivery

CHECK_DEADLOCK FALSE
