SPECIFICATION Spec

CONSTANTS
  MaxInt64 = 7
  Buckets = {k1}
  Limits = {4, 7}
  Amounts = {2, 3}
  Holders = {h1, h2}
  NoBucket = NoBucket
  MaxBookVersion = 5
  LedgerLegs = {l1, l2}
  LedgerShipments = {s1}
  LedgerCapacities = {5, 7}
  LedgerWeights = {2, 3}
  MaxNano = 1
  Slots = {z1, z2}
  BookingIds = {b1, b2, b3}
  SlotMax = {6}
  SlotUsed = {0, 3}
  BookingKg = {3}
  Hours = {1, 2, 3}
  NoSlot = NoSlot
  Vehicles = {v1, v2}
  AssignmentIds = {a1, a2}
  VehicleKg = {1, 2}
  Days = {1, 2, 3}
  NoVehicle = NoVehicle
  DocNumbers = {d1, d2}
  Times = {1, 2, 3}
  Signals = {x1, x2}
  IdemRequests = {r1, r2, r3}
  Fingerprints = {f1, f2}
  Lifetime = 2
  IdemSkew = 1
  LastTime = 5
  RateCallers = {c1, c2}
  RateLimits = {0, 2}
  Durations = {0, 4}
  DefaultDuration = 3
  Skew = 1
  LastRateTime = 8
  MaxAllowed = 7
  NoLimiter = NoLimiter
  NoWindow = NoWindow
  NoTime = NoTime
  Drawers = {g1, g2}
  LastDay = 3
  MaxDrawn = 6
  EntryIds = {e1, e2, e3}
  LedgerTenants = {t1, t2}
  Cents = {0, 3, 5}
  Movers = {m1, m2}
  FirstVersions = {1, 6}
  NoItem = NoItem
  HubCodes = {A, B, C}
  Handling = {1, 5}
  Minute = 2
  Segments <- MCSegments
  Weights = {0, 1, 2}
  MaxSegments = 3
  NoHub = NoHub
  NoRoute = NoRoute
  Cancelled = Cancelled
  Invalid = Invalid
  ExternalIds = {1, 2}
  EntryValues = {v1, v2}
  MaxEntries = 3
  NoEntry = NoEntry
  Priorities = {1, 2}
  ItemIds = {1, 2, 3}
  MaxItems = 6
  Rates <- MCRates
  QuoteKg = {0, 1, 2, 3, 4}
  QuoteTimes = {1, 2, 3}
  MaxRates = 2
  NoQuote = NoQuote
  Kinds = {k1, k2}
  EventTimes = {1, 2, 3}
  NoEvent = NoEvent
  NoDuration = NoDuration

SYMMETRY HubSymmetry

INVARIANTS
  BookSound
  CalendarSound
  ClearanceSound
  IdempotencySound
  RateSound
  ReservedCovers
  OneLoadPerVehicle
  NumbersOfADay
  Reconciles
  LogIsPath
  PlanIsGreedy
  CompareIsComplete
  NextIsBest
  QuoteIsExact
  OrderIndependent

CHECK_DEADLOCK FALSE
