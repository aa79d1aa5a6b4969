# AirBridge in TLA+

TLA+ models of AirBridge, the cargo service in `src/`, checked with TLC on small
instances, with proofs of its safety properties checked by TLAPS for instances
of every size.

## The system

`cmd/server/main.go` opens a Postgres database, migrates it, and starts an HTTP
server and an outbox runner. Several such processes may share a database.
Everything durable is in Postgres; the processes keep no state between requests.

| part | state | operations | what is hard |
|---|---|---|---|
| domain rules (`domain/`) | none | status machines, validation, capacity rule | int64 sums that wrap around |
| cargo handlers (`service/application.go`) | locals of a handler between two store calls | create, book, move a shipment; create, open a leg; customs; security | handlers hold no lock between calls, so every read may be stale at the write |
| Postgres store (`repository/postgres/`) | tables of shipments, legs, cases, checks | one statement or one transaction each | versions, UNIQUE constraints, row locks |
| sessions (`service`, `postgres/store.go`) | users, sessions, the clock | login, authenticate, logout, deactivate | three reads per request, a login racing a deactivation |
| outbox (`worker/outbox.go`, `postgres/outbox.go`) | event rows; batch in hand of a runner | enqueue, claim, publish, mark | crash or shutdown between claim, publish and mark; several runners |
| migrations (`postgres/migration.go`) | version table, schema | check, execute, record, commit | several processes starting at once; failure half way |
| HTTP API (`httpapi/`) | none | authenticates, decodes, calls a handler | none of its own |
| memory store (`repository/memory/`) | maps under one mutex | the store's operations, for tests | must behave like Postgres for the tests to mean anything |
| goroutine packages (`workerpool`, `locks`, `bulk`, `stream`, `retry`) | channels, flags, a read-write lock, timers | submit, stop; acquire, release; run; publish, subscribe; retry | every choice of a `select`, a timeout racing a hand-over, blocking under a lock, stopping |
| books (`capacity`, `booking`, `warehouse`, `transport`, `customs`, `scan`, `idempotency`, `ratelimit`, `sequence`, `finance`, `aggregate`) | a map or a counter under one mutex | see the modules | identifiers used twice, versions and clocks read before the mutex is taken, int64 sums, expiry |
| algorithms (`route`, `reconciliation`, `priority`, `pricing`, `timeline`) | their lists | search, compare, add and take, quote, append | ties under an unstable sort, duplicates, overflow, events out of order |

The handlers, the runner and the startups interact only through the database:
the shipment, leg, customs and security tables for the handlers, the users and
sessions tables for the authentication in front of them, the outbox table for
the runners, the version table for the startups. The three groups of tables are
disjoint as far as these operations go, which is why each group has a model of
its own. The packages of the last three lines are libraries: nothing in
`cmd/server` uses them yet, they share no state, and each has a model of its
own. No handler calls `Enqueue` or `AppendAudit` at this commit, so
the outbox model enqueues events on its own account.

What makes each part correct:

* cargo: no leg is overbooked, every booked kilogram is reserved exactly once,
  no stale copy overwrites a newer row, a booking is never undone by accident,
  loading needs clearance, a retried create makes one shipment, tenants are
  apart;
* sessions: nobody gets in after the session has ended, and an end is final;
* outbox: one runner per event, no event published twice, every event
  published;
* migrations: applied once, in order, before serving, and every startup comes
  to an end, not all of them with an error;
* memory store: the answers and rows of Postgres, or a known difference;
* goroutine packages: exclusion, order, nothing lost, nothing left of what was
  stopped, and every call returns, but for the cases that can be named;
* books: what is counted is what is recorded, limits hold, and where they do
  not, under exactly which circumstances;
* algorithms: the answer a definition over sets gives.

The hazards behind these, each at its line, are listed in `PROJECT.json`.

## Modules

| module | models | state | actions |
|---|---|---|---|
| `Domain` | `domain/rules.go`, `types.go` | none | `CanTransition` tables as relations, `Validate*`, int64 addition with its wrap-around |
| `PostgresStore` | `postgres/shipment.go`, `booking.go`, `compliance.go`, the constraints of `001_core.sql` | `shipments`, `legs`, `customs`, `security`: functions from identifiers to rows or `NoRow` | per operation an `...Err` operator (the error returned) and an effect enabled when that is `"nil"` |
| `Cargo` | the cargo handlers of `service/application.go` | `call[r]`: where the handler of request `r` is and its locals; histories `acks`, `bookedOn`, `checks` | one per store call of a handler; `Abort` ends a handler anywhere |
| `AtomicCargo` | what the handlers promise, not any code | `parcels`, `flights`: rows without keys and versions | create, book, move, create a leg, open it, each at once |
| `CargoRefinement` | | | `Cargo` implements `AtomicCargo`: the refinement mapping |
| `MCCargo` | | | instances of `Cargo`, documented behaviour the code does not have |
| `CargoProofs` | | | theorems about `Cargo`: types, versions, bookings, capacity, clearance, keys, tenants, the refinement of `AtomicCargo`, the reservation accounting |
| `SessionsProofs`, `OutboxProofs`, `MigrationProofs` | | | theorems about the module each is named for |
| `GoroutineProofs` | | | theorems about `WorkerPool`, `KeyedLock`, `Bulk`, `StreamBus`, `Retry` |
| `PackageProofs` | | | theorems about the books and the algorithms |
| `StoresProofs` | | | the theorem about `MCStores` |
| `SetLemmas` | | | lemmas about sums over finite sets and about their elements in an order |
| `Sessions`, `MCSessions` | `Login`, `Authenticate`, `Logout`, `DeactivateUser` and their tables | `now`, `active`, `sessions`, `call` | one per read, clock reading or write; the deactivation's transaction in two steps |
| `Outbox` | `worker/outbox.go`, both stores' outbox operations, shutdown in `main.go` | the rows as sets, per runner `pc`, `todo`, `current`, `cancelled`; history `sent` | claim, publish, mark, stop; shutdown, crash, start, time |
| `Migration` | `postgres/migration.go`, startup in `main.go` | version table, history, `effects`, per process `pc`, `item` | one per statement; fault, lost commit, restart |
| `MemoryStore`, `Accounts` | `memory/store.go`; users and sessions of both stores as tables | the maps of the memory store beside the tables of Postgres | per operation an `...Err` operator and an effect, as in `PostgresStore` |
| `MCStores` | | the last answers of both stores, the identifiers of the cases | every call made on both |
| `WorkerPool` | `workerpool/pool.go` | the queue, workers, submitters, stoppers, done, context | start a worker, at any time; submit, take, return, exit; stop: close, wait, wake |
| `KeyedLock` | `locks/lock.go` | the map, the channels with their queues of blocked senders | look up, send or block, time out, release |
| `Bulk` | `bulk/bulk.go` | the loop's index, the flag, workers, results | dispatch or drop an index, read the flag, handle, send, set the flag, return |
| `StreamBus` | `stream/stream.go` | channels, publishers under way and those whose context never ends, the writers that wait | publish, send, expire; lock, join or leave; receive |
| `Retry` | `retry/policy.go` | the loop of `Do`, the pauses made | check, call, pause, cancel |
| `CapacityBook`, `BookingLedger`, `Warehouse`, `Transport`, `Clearance` (`customs`, `scan`), `Idempotency`, `RateLimit`, `Sequence`, `FinanceLedger`, `ShipmentAggregate` | the package each is named for | its maps; what a caller read before the mutex; histories | one per method that changes something, and the clock where it matters |
| `RoutePlanner`, `Reconciliation`, `PriorityQueue`, `Pricing`, `Timeline` | the package each is named for | the lists the methods build | the building; the algorithm is an operator over it |
| `Sorting` | package `sort`, external | none | the set of outcomes of `sort.Slice`, the outcome of `sort.SliceStable`, the indices a loop picks |
| `MCGoroutines`, `MCPackages` | | `subject`: which package moves | one instance of each package |

`Cargo` extends `PostgresStore`, which extends `Domain`: a handler's step is a
store operation applied to its locals. A handler that returns before it changed
anything is a disabled action at its first call and a return to idle at a later
one. Columns no rule reads (references, pieces, arrival times, notes) are left
out, a route is a pair of airports, a `flight` is the flight number with the
departure, of which a tenant has one leg, and a client may give any
identifier, leg and reserved weight, because the request body is decoded into
the domain structs. The identifiers and reviewers of cases and checks matter to
the constraints only: in `Cargo` a put that they refuse is an `Abort`, in
`MCStores` they are there. A status of a customs case or of a security check is any
text of `CustomsInputs` or `SecurityInputs`: the column has no `CHECK`.

In the books a call that is refused and changes nothing is a disabled action. A
method that takes a time from its caller (`Review`, `Allow`, `Next`, `Begin`,
`Cleanup`) gets any time the caller may have read before the mutex was free. Where a sum may wrap
around, or an identifier be used twice, a history variable records that it
happened, and the property says what still holds then.

What a package promises is one invariant, `...Sound` where it has several parts;
the parts are named and explained in its module. The liveness properties of the
goroutine packages are the parts of `CallsReturn`. The `TypeOK` of `Sessions`,
`Outbox` and `Migration` documents their variables and is a part of the
inductive invariants of their proofs.

A row in a table is changed by an operator on rows (`ReservedLeg`,
`BookedShipment`, `Held`, `Released`, ...) and one `EXCEPT` on the table. An
`EXCEPT` with several updates through the same index, as in
`[legs EXCEPT ![l].reserved = a, ![l].version = b]`, is avoided on purpose:
the translation of tlapm 1.4.5 to SMT keeps only one of the updates, and proofs
about such a formula would be about something else.

`MCGoroutines` and `MCPackages` put independent packages in one run: the first
state chooses one, and the others stand still, so that the states add up and do
not multiply. `MCStores` does the same with four sets of calls. For
`Cargo` the constraint `OneUse` of `MCCargo` keeps three uses of the handlers
apart: one shipment with everything that can happen to it, several tenants with
idempotency keys, several tenants with customs cases.

Definitions named `X_Something` next to a definition `X` are what `X` would be
with a plausible bug; no specification uses them. Each property was seen to fail
when one of them takes the place of `X` (the list is under `mutants` in
`PROJECT.json`).

External behaviour, modelled as the code uses it: Postgres executes a statement
or a transaction that locks its rows atomically, refuses a call whose context is
done, may commit and lose the answer, and raises an error when a bigint
overflows; requests are cancelled and processes die between any two steps.

## Runs

Runs that must pass:

| run | shows |
|---|---|
| `booking` | Two handlers, two shipments of 1 or 2 kg, one leg of 2 kg that may be created with 3 kg reserved, `MaxInt64 = 3`. So both shipments fit, one fits or none, and the sum 3 + 1 wraps around and passes Go's capacity check. Versions identify rows, bookings stick, no overbooking, every kilogram accounted for; and `ImplementsAtomic`: every write is an operation of `AtomicCargo` at the moment it is made. |
| `clearance_and_tenants` | Three uses of the handlers (`OneUse`). One shipment from draft to departed, customs and security rewritten meanwhile, reads that fail: loading on a leg follows a release and a pass. It does not follow that they still stand: the clearance is read before the write, and the property is worded accordingly. And two coordinators of two tenants with the same identifiers and leg, who use the same key or release cases: a key acknowledged names one shipment of the tenant and keeps naming it; no handler writes a row of the other tenant. The users are coordinators, who may do what any role may; the proofs have all roles. |
| `sessions` | Three concurrent requests, two users, two tokens, a session of one tick on a clock of two, so that sessions expire between any two reads. |
| `outbox` | Either store, three events, batches of two, two runners, two shutdowns, two faults: a backlog larger than a batch, a crash of each runner, a lost claim and a lost mark. On Postgres an event may be stranded by a shutdown or a fault, on the memory store, which ignores the context, by a fault only. |
| `migration` | Three processes, two migrations, two faults, on an empty, a partly and a fully migrated database. A startup may lose a race for a migration and fail; not all can, and one that finds the schema complete does not. |
| `stores_agree` | Every sequence of calls on both stores, two tenants, two shipments, two legs, two flights, two users and two sessions. The list of differences is in `MCStores`, at the calls: among others a second create without a key, a create repeated with its key, a row or a leg that does not exist (on a create or an update), a second leg of a flight, a leg whose capacity is not positive, a status move of a leg that `CanTransition` refuses, a customs case under an identifier other than its shipment's or in use, one with a reviewer who is no user, a session that a constraint refuses. |
| `goroutines` | Two workers started at any time, two jobs and two callers of `Stop`; three callers of the lock on two keys; two bulk workers on three values; two publishers, with contexts that end or never do, and two subscribers with one place in their channels; policies whose delays start, grow, are rounded and overflow. |
| `packages` | Each book through sequences of calls long enough to fill it, empty it and use an identifier again, `MaxInt64 = 7` so that sums wrap; each algorithm on all inputs of two or three elements and six queued items. |

Runs that must find a violation: what a document or a test says and the code
does not do. Details and quotations are under `findings`.

| run | violated | how |
|---|---|---|
| `departed_without_flight` | `DepartedHasFlight` | legal transitions alone take a draft to departed, with no leg, booking or clearance |
| `customs_race` | `CustomsReleasedFinal` | two customs updates find no case, the later one overwrites the release |
| `shutdown_loses_events` | `DurableDelivery` | the mark of a failed publish is sent with the cancelled context; the claim is never given back |
| `startup_race` | `StartupsSucceed` | two startups both find a migration missing and execute its body; the second INSERT of its version fails, and with it the startup |

Another race is part of the models and visible in their behaviours: a login
that read an active user inserts its session after the deactivation has chosen
the sessions to revoke. It stays unrevoked and is of no use, because
`Authenticate` reads the user again (`NoAccessAfterEnd`).

What the runs show of the libraries and a caller may not expect: `Submit` can
accept a job after `Stop`, which runs only if the pool is started again; a
`Start` during a `Stop` may leave workers behind that `Stop` did not wait for,
or make it panic; a bulk `Run` with a done context drops values without a
result; a subscriber that does not read blocks every writer until the contexts
of the publishers end, and for ever if one of them has a context that never
ends, as the callers in `stream_test.go` do; a retry delay out of range may be
negative, that is, no pause, and a first delay near the largest int64 is
rounded out of range; a booking that wraps around passes the capacity check of
`capacity`, `booking` and `warehouse`; an allocation identifier made twice in a
nanosecond loses weight for ever; a vehicle is never free again after its
assignment is completed, only after its identifier is used for another vehicle;
a `Complete` after the end of its record answers in the record of the next
request; at midnight sequence numbers may be issued twice; the route planner
returns the route whose first flight lands first, not the earliest arrival, and
a handling time too long for a `Duration` wraps around, so that a connection may
leave too little time.

The deadlock check is on for `Cargo`, `Sessions` and `MCStores`, where some call can
always be made. A library comes to rest when its calls have returned or its
bounds are reached, so it is off there. The outbox and the migrations come to rest when all is
published, and every startup has ended, so it is off there and liveness takes its place.

**Bounds.** `MaxLegVersion` stops re-opening a leg, `MaxTime` the clock,
`MaxVersion` the versions of rows and `MaxBookVersion` those of a bucket,
`MaxFaults` and `MaxShutdowns` the disturbances, `MaxAttempts` the claims a
cancelled runner of the memory store may still make, `MaxDelay` how far ahead
events are scheduled. `Rounds` and `Messages` count calls of `Acquire` and
`Publish`, `MaxNano`, `LastTime`, `LastRateTime` and `LastDay` end clocks,
`MaxAllowed` and `MaxDrawn` count calls, `Skew` and `IdemSkew` are how old a
reading of the clock may be, `PoolWorkers` are the workers that all calls of
`Start` launch, `OtherCaseIds` and `Flights` the identifiers and flights that
clients give, `MaxSegments`, `MaxEntries`, `MaxItems` and `MaxRates` are
the sizes of inputs. Three lock callers are the
least with a queue of two behind a holder; three results over two workers make
one worker work after another's failure; with `PoolSize = 1` two workers are two
calls of `Start`, one of which comes before, during or after a `Stop`;
`Mantissa = 8` with one spare bit makes 9 round to 8 and the largest int64, 15,
round up out of range, as 2^63 - 1 does; `Minute = 2` and five minutes of
handling wrap with `MaxInt64 = 7`; a clock up to 5 with a lifetime of 2 fits two
records and a request that outlives one; two windows and a bit of the rate
limiter fit its clock; three segments are the least with two competing
connections; six items give the heap three levels. Two handlers suffice for the cargo hazards because each
is a race of one writer with one stale reader; what does not depend on the
bounds is proved. Symmetry of requests, shipments, tokens and, where the users
are symmetric, tenants is used in runs without liveness properties.

**Fairness.** `Outbox`: a runner that can work does (the ticker keeps firing and
the goroutine is scheduled), time passes, a stopped process is started again,
and a runner whose context is done leaves its loop sooner or later (strong
fairness: the `select` chooses at random between the tick and the end).
Nothing forces events, faults or shutdowns. `Migration`: a process that can take a
step does; nothing starts one again that exited, since `main.go` only exits.
`WorkerPool`: workers run and
jobs return, and a worker that could leave its `select` again and again does so
(strong fairness, the choice is random); a panic ends the process and with it
all promises of progress. `KeyedLock`: callers run and holders
release; no context is assumed to expire. `Bulk`: goroutines run and `Handle`
returns. `StreamBus`: goroutines run, and a context that ends does so; one that
never ends (`context.Background`) may be given to a `Publish` of the publishers
in `Background`, any set of them in the proofs and one of two in the run, and no
subscriber is assumed to read, so `WritersProceed` makes the exception of a
`Publish` that is stuck for ever. `Retry`: the function returns and the timer
fires. Nothing makes a caller call.

## Proofs

Every theorem holds for any number of requests, users, shipments, legs, tenants,
processes, goroutines and so on, and for any bounds, under the named
assumptions of the modules. Each states a property that a run checks on a small
instance, and no proof of one goes through when a definition is replaced by the
mutant listed for the property. Every invariant and action property of the
passing runs has its theorem.

| module | theorem | states |
|---|---|---|
| `CargoProofs` | `TypeCorrect` | `TypeOK`: reserved weights stay naturals although the sum in Go may wrap around, since the database refuses the overflow |
| | `VersionsSound` | `VersionIdentifiesRow`: a handler's copy with the version of the row is the row |
| | `BookingsStick`, `NeverOverbooked` | `BookingSticks`, `NoOverbooking` |
| | `ClearanceComesFirst` | `LoadedNeedsClearance` |
| | `CreatesAreIdempotent` | `IdempotentCreate` |
| | `TenantsAreIsolated` | `TenantIsolation`, an action property |
| | `HandlersAreAtomic` | `ImplementsAtomic`: `Cargo` implements `AtomicCargo` |
| | `EveryKilogramReservedOnce` | `ReservationAccounting`, a sum over the shipments of a leg |
| `SessionsProofs` | `AccessEndsWithSession`, `SessionsEndForGood` | `NoAccessAfterEnd`; `EndIsFinal`, an action property |
| `OutboxProofs` | `ClaimsAreExclusive`, `PublishesAtMostOnce` | `ExclusiveClaim`, `AtMostOncePublish` |
| `MigrationProofs` | `MigrationsApplyOnce`, `MigrationsApplyInOrder`, `ServersSeeFullSchema` | `AppliedOnce`, `AppliedInOrder`, `ServesOnFullSchema` |
| `GoroutineProofs` | `PoolIsSound`, `BulkIsSound`, `BusIsSound`, `LocksAreSound` | `PoolSound`, `BulkSound`, `BusSound`, `LockSound` |
| | `RetryIsSound` | `RetrySound` |
| `PackageProofs` | `BookIsSound`, `LedgerCoversAllocations`, `CalendarIsSound`, `BooksReconcile`, `LimiterIsSound` | `BookSound`, `ReservedCovers`, `CalendarSound`, `Reconciles`, `RateSound` |
| | `VehiclesAreNotShared`, `ClearanceIsSound`, `IdempotencyIsSound`, `NumbersAreUnique`, `LogsArePaths` | `OneLoadPerVehicle`, `ClearanceSound`, `IdempotencySound`, `NumbersOfADay`, `LogIsPath` |
| | `PlansAreGreedy`, `QuotesAreExact`, `AnswersAreOrderIndependent`, `ComparesAreComplete`, `QueueIsByPriority` | `PlanIsGreedy`, `QuoteIsExact`, `OrderIndependent`, `CompareIsComplete`, `NextIsBest`: the algorithm against a definition over sets |
| `StoresProofs` | `MemoryTellsPostgres` | `StoresAgree` |

**Assumptions.** `MaxInt64 > 0`; a value that stands for "none" (`NoRow`,
`NoLeg`, `NoSession`, `NoWindow`, ...) is not one of the values it is told apart
from; sets of inputs consist of numbers where the code has numbers, and of
int64 values where a sum starts from them (`LedgerAssumption`,
`WarehouseAssumption`, `FinanceAssumption`, `StoresAssumption`, `RouteAssumption`,
`PricingAssumption`, `TimelineAssumption`, `CompareAssumption`,
`QueueAssumption`); an int64 has finitely many more bits than a mantissa
(`RetryAssumption`); no fingerprint is the value for none
(`IdempotencyAssumption`); the stores get positive weights, which the
application has validated, and the other identifiers of cases are no
shipments'; bounds are naturals, a batch and a
default duration are positive, and `BulkWorkers` is finite and not empty
(`Run` starts at least one). Nothing is assumed of the sizes of the other
sets: that a leg has finitely many shipments is a part of `AccountInv`, and
likewise for the entries, bookings and allocations of the books.

**The cargo handlers.** `VersionIdentifiesRow` is inductive together with
`TypeOK`: `RowsGrowStep` shows that a step leaves a row alone, creates it, or
raises its version, and `SnapshotsStep` that a step leaves a handler's copy
alone or reads it afresh. `BookingSticks` and `NoOverbooking` are not inductive.
`EffectsStep` boils a step down to its effects on the rows: a shipment stays
as it is, is created, is moved with its leg kept, or is booked; that a move
keeps the leg is where `VersionIdentifiesRow` is used (the row written back is
the current one), and that it never goes to draft needs `MovesLegal`, that a
handler about to write has checked its transition. `BookingInv` is the
conjunction of the five.

`CargoInv` adds what the other properties need: `CallsJustified`, that a
handler holds a row of its user's tenant, and has been through both checks when
it is about to load; `ClearanceRecorded`, that a released case and a passed
check are in the history `checks`; `KeysUnique`, the UNIQUE constraint kept by
every write; and `AcksNameRows`, that what was acknowledged exists. The refinement
follows from it step by step: a step that writes is the operation of `AtomicCargo` on
the mapped rows, whose guards are those that the handler checked on its copy
and the version carries over to the row; every other step leaves the mapped
rows alone.

`EveryKilogramReservedOnce` needs sums over sets of any finite size.
Induction theorems that take a predicate cannot be used with these provers, so
`SetLemmas` argues by the smallest counterexample: the set of sizes at which a claim
fails has a least element, `Smallest`, and the claim at one size less gives it
there. That yields that the sum exists (`SumExists`: the
recursive definition inside the community module's `MapThenSumSet` has a
function that meets it), does not depend on the order of the elements (`SumSplit`: any
element may be taken out first), depends on the elements' weights only
(`SumAgree`), and grows with the set (`SumMonotone`). With that a booking adds the weight of
one shipment to the sum and to the leg, and every other step leaves both alone.

**Sessions, outbox, migrations.** A request is marked `dead` if its session had
ended when it came in; `DeadIsSeen` says, after each of the three reads of
`Authenticate`, that what was read or is still to be read shows it, which
stays true because an end is for good (`RowsEndForGood`). For the outbox `InHand` says
what a runner has in hand and `SentByPosition` what it has sent of it, by where
it is. For the migrations `HistoryInOrder` and
`OneInserter` (one process at most has a version's row inserted and uncommitted)
make `AppliedOnce` inductive, and `Progress` says
that everything before the migration a process is at is recorded.

**Goroutine packages.** `StopIsFinal`: a `Stop` that began has closed `done`, and
a worker that was started before that is counted by the WaitGroup until it
exits, so that a `Wait` that finds the counter at zero, at once or when it was
woken, leaves only later workers behind. `LockInv`: a caller's channel is the one of its
key, a full channel has one holder, and a queue has no caller twice and only
blocked ones. `BulkInv`: an index handed out is in one hand or has one result or,
if the context is done, was dropped. `BusInv`: only a publisher under way, with
the read lock, has subscribers to send to, and a subscriber it is done with has
its message or an error was reported. `RetryInv`: the number of calls by where the loop is (`RetryProgress`), and
each pause made is one that `Delay` may return (`PausesAreDelays`). That the
pauses grow, and are exact, is then about `Delay` alone: the power of two in it
is the recursive function `Power`, which `PowerUpTo` and `PowerUnique` show to
exist, `PowerDoubles` gives the step from one pause to the next, and that
`Float` is positive, and the identity up to the mantissa, the rest.

**Books.** `CalendarWeightInv` and `LedgerInv` carry the sums of `SetLemmas` and the
exceptions recorded in the histories (wrap-around, identifiers used twice).
`Reconciles` adds in int64: `Wrap` maps an integer to the int64 it wraps around
to, `WrapAdd` says that wrapping may be left to the end, and `AddedIsWrap`
makes of the wrapping sum an exact one, so that the order of the entries does
not matter. `AtMostTwoWindows` is not inductive: `RateInv`
has `WindowsApart`, that a call comes a duration less the skew after the call
two limits before it, and `WindowCounts`, that the calls before the current
window came before it started, and those a limit before them a duration earlier,
both but for the skew. `SeenIsOlder` does for buckets what
`VersionIdentifiesRow` does for rows, `CountsItsDay` says the generator's
counter is the number of identifiers of its day, and `AggregateInv` extends
`LogIsPath` to what every caller has seen. `OwnRecord` says that a request at
work still has its record until the end it was given: a reading is never later
than the clock, so neither `Begin` nor `Cleanup` takes it for over too early.

**Algorithms.** The state of each is little more than typed lists; the work is in the
operators. `LeastKey` and `SortedExists` (a finite set can be put in the order
of an integer key) show that the outcomes of the sorts in `Sorting` exist, so that
no theorem is about a `CHOOSE` with nothing to choose from. For the route
planner `SearchTakesFirst` says that the nested scan stops at the first pair
of its order, and the invariant that a listed segment ends at a hub makes the
handling time a number. For the quotes, `TotalIsWrap` turns the int64
computation into an exact one and `FirstIsNewest` the sorted list into a
maximum; the same wrapping shows that a handling time is never longer than the
exact one, and the exact one if that fits an int64 (`HandlingWraps`). An event appended to a timeline in order is sorted stably: by the key
`2 * i` for the events there and `2 * k + 1` for the new one, whose
order `StableOrderExists` shows to be the stable one. `ByKeyIsLast` says that the map a
comparison builds has the last entry of a key, and `DifferencesOf` what the sorted
keys then give.

The heap is the hardest of these. `Up` and `Down` move a hole: an item is held out,
others move into the hole until the held one fits. They are recursive functions of the
position of the hole, shown to exist by the smallest counterexample (`UpExists`,
`DownExists`). `UpDone` and `DownDone` say of every position what is true of
the array when the hole is filled from there: what has not moved,
that the order holds everywhere but at the hole, and `Count`, how often each item is
in the array. `IsHeap` puts the least item first (`FirstIsLeast`), and `QueueInv`
has the heap order and that the items waiting are counted by the array.

**Stores.** `StoresInv`: until a call of the list, both stores hold the same rows, and
the memory store's two indexes (`IdemIsIndex`, `ByEmailIsIndex`) give what a
search of the rows gives; after one, answers or reads differ, so that
the list has no entry too many either. The theorem is about any `Subjects`, so
also about the set of all calls, which TLC has to split in four. Each call is a lemma: the two
errors are the same and the rows written are the same, unless the call's condition
holds.

**Only model-checked.** The liveness properties `EventuallyPublished`,
`StartupsConclude` and `CallsReturn`: fairness and `ENABLED` are beyond the prover.

## Not modelled

Reads that change nothing (`ListShipments`, `Summary`, `Available`, `List`,
`Utilization`, `Entries`, `Peek`, ...), password hashing, JSON and HTTP status
codes, and the audit log (nothing appends to it). Of the packages:

* approvals, alerts, claims: every method is one lookup and one guarded change
  of a status, and a property would restate the guard;
* notification router, event: one lookup and one `Send`; a record;
* manifest, snapshot: hashes over JSON, of which equality is left;
* eta: one pass over the stops of a request and an addition;
* retention, expiry, search, filter, pagination, report, tenant, permissions,
  rules, health, metrics, and the helpers for text, codes and collections:
  stateless.

`PROJECT.json` lists every package.

## State of the work

All the parts chosen for modelling are modelled, and every invariant and action
property of the passing runs is proved. Liveness stays with TLC, and the parts
listed above stay without a model.
