SPECIFICATION Spec

CONSTANTS
  PoolWorkers = {w1, w2}
  Jobs = {j1, j2}
  Stoppers = {a1, a2}
  PoolSize = 1
  Queue = 1
  Callers = {g1, g2, g3}
  LockKeys = {k1, k2}
  Rounds = 4
  BulkWorkers = {v1, v2}
  Values = 3
  StopOnError = TRUE
  Publishers = {p1, p2}
  Subscribers = {s1, s2}
  Buffer = 1
  Background = {p1}
  Messages = 3
  MaxDuration = 15
  Mantissa = 8
  Spare = 1
  DefaultDelay = 2
  DefaultMaxDelay = 8
  Attempts = {0, 1, 4}
  InitialDelays = {0, 3, 9, 15}
  MaxDelays = {0, 7}

INVARIANTS
  PoolSound
  LockSound
  BulkSound
  BusSound
  RetrySound

PROPERTIES
  CallsReturn

CHECK_DEADLOCK FALSE
