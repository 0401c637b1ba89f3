# HotROD in TLA+

HotROD is a ride-hailing demonstration: a browser asks a frontend for a ride, the
frontend looks the two locations up and publishes a dispatch message on Kafka, the
driver service consumes it, finds its drivers, asks the route service for the way
of each and picks the one that arrives first. Every service reports its step as a
notification in Redis, and the browser polls for them. Sandboxes may fork the driver;
a routing key in the request selects which of them works on a message.

This directory holds TLA+ modules for the parts of that system with state and
concurrency, the TLC configurations that check them on small instances, and proofs
that the TLA+ proof system checks for every instance. `PROJECT.json` maps every
definition to the lines it models and lists the runs, the hazards, the findings and
the theorems. Paths below are relative to the repository.

Contents: [1 the system](#1-the-system) · [2 modules](#2-modules) ·
[3 runs](#3-runs) · [4 fairness](#4-fairness) · [5 proofs](#5-proofs) ·
[6 findings](#6-where-the-code-and-its-words-differ) ·
[7 not modelled](#7-what-is-not-modelled) · [8 plan](#8-plan) ·
[9 running it](#9-running-it)

## 1. The system

### Inventory

| Component | Source | State | Operations |
|---|---|---|---|
| Notification store | `pkg/notifications` | one JSON list per session in Redis, expiring 30 s after its last write | `Store` (read-modify-write), `List` |
| Frontend | `services/frontend` | none (a Kafka producer) | `/splash`, `/dispatch`, `/notifications` |
| Browser page: polls | `react_app/src/pages/home.tsx` | cursor, answers under way | poll timer, `List` |
| Browser page: rides | `react_app/src` | locations, selection, logs per ride, driver, route on the map | load the locations, choose, request a ride, file the entries, draw |
| Location service | `services/location` | a MySQL table, made and seeded on the first error 1146, in an emptyDir | list, get, create, update, delete |
| Driver: processor | `services/driver/processor.go` | consumer group, `ready` channel, health endpoint | start, rebalance, shut down |
| Driver: consumer | `services/driver/consumer.go` | offsets of its claims, its copy of the routes | `Setup`, `ConsumeClaim`, `shouldProcess`, `processDispatchRequest` |
| Driver: store | `services/driver/driverstore.go` | a counter of simulated timeouts, shared by all claims | `FindDriverIDs`, `GetDriversLocation` |
| Driver: best ETA, pool | `services/driver/best_eta.go`, `pkg/pool` | an unbuffered channel of jobs, the results of each dispatch | `Get`, `Execute`, `Stop` |
| Route service | `services/route` | none | `FindRoute` |
| Kafka | `pkg/kafka` (broker and client external) | the topic of dispatches, committed offsets | produce, consume |
| Endpoint metrics | `pkg/tracing/rpcmetrics` | bounded name cache, metrics per endpoint, per observer | `OnEnd` |
| Metric factories | `internal/metrics` | caches of collectors, shared by the observers of a process | get or create |
| Tracing mutex | `pkg/tracing/mutex.go` | holder, waiters | `Lock`, `Unlock` (all calls commented out) |
| Baggage and routes | `pkg/baggageutils`, `pkg/config/signadot.go` | a copy of the route server's rules | which sandbox a key selects |

### How the parts interact

```
 browser --POST /dispatch--> frontend --GET x2--> location --SQL--> MySQL
    |                           |
    |                           +--message--> Kafka --> driver, driver forks
    +--GET /notifications-->    |                            |
                frontend        |                            +--FindRoute x n--> route
                    |           |         |          |       |             |
                    +-- List -- Redis <-- Store of every service ----------+
```

- Calls are synchronous HTTP or gRPC, except the message. So the steps of one dispatch
  follow one another, and only its route calls overlap.
- Redis is shared by all services of a session, MySQL by all requests of the location
  service, the counter of the driver store and the pool by all claims of a driver, the
  metrics factory by all observers of a process.
- A rebalance, a resent message or a route that changes can give one request to two claims at
  once, and two rides of one page are dispatched at once: then their Stores overlap.
- A lost answer, a passed deadline or a crash leaves the callee working: the route
  service may store its notification for a caller that is gone.

### What is hard about it

| Where | Why | Properties |
|---|---|---|
| Store | GET and SETEX of overlapping callers interleave, SETEX replaces the whole list | `UniqueIDs`, `OwnSession`, `ImplementsLog`, `KeepsStored` |
| polling | polls overlap and are answered in any order, each with the cursor it read; the key expires | `NoGap`, `ExactlyOnce`, `NeverTwice`, `EventuallyShown`, `CursorReset` |
| rides on the page | answers, errors, entries and new rides come in any order; effects run after the page was drawn; messages are delivered again | `LogsComplete`, `FirstDriverShown`, `KnownLocations`, `RowsOnce`, `SixthRow`, `DriverArrives` |
| database | first requests set the table up at once, without a transaction; MySQL restarts empty | `AllSeeded`, `RetrySeeded`, `SeedSurvivesCreate` |
| driver store | claims share the counter that decides which attempt times out | `LookupSucceeds`, `EveryXCalls` |
| pool | dispatches share workers, results are appended in any order, routes fail | `ImplementsBest`, `DispatchReturns` |
| Kafka | marks before processing, crashes and commits that fail, redelivery, routes that change, forks that read everything | `OneGroup`, `ReadOnce`, `AllRead` |
| notifications of one request | two claims that process one message, and route calls that outlive their caller, replace each other's lists | `InOrder`, `StepsOnce` |
| Processor.Run | the channel that says "ready" is replaced while Run waits, signals at any time | `NeverClosedTwice`, `ServesAfterSetup`, `ClosesLast`, `ShutsDown`, `ServesUnlessFailed`, `AwaitsSetup` |
| metrics | sizes read under one lock and used under another, two observers on one registry | `Bounded`, `NoClash`, `OthersWhenFull`, `CountedOnce` |

`PROJECT.json` lists every hazard at its line, with the properties that would catch it.

## 2. Modules

| Module | Models | Composed with |
|---|---|---|
| `AppendLog` | abstract: a log per session that only grows, each step at most once | implemented by `NotificationStore` |
| `NotificationStore` | `Store` of `pkg/notifications/handler.go` | |
| `NotificationPolling` | `List`, the timer of `home.tsx`, the cursor | part of `RidePage` |
| `DriverArrival` | a driver's time, as Go writes it and the page reads it | part of `RidePage` |
| `Filters` | the `filter` of JavaScript's arrays | part of `RidePage` |
| `RidePage` | the page: form, rides, logs, driver, map; extends `NotificationPolling`, `DriverArrival` and `Filters` | |
| `LocationDatabase` | `database.go` and the routes of `server.go` | |
| `DispatchClaims` | constants of the driver's parts | |
| `DriverStore` | `driverstore.go` | part of `DriverDispatch` |
| `BestAnswer` | abstract: every route is asked for once, a fastest driver is chosen | implemented by `BestETA`, `DriverDispatch` |
| `BestETA` | `best_eta.go` on `pool.go` | part of `DriverDispatch` |
| `DriverDispatch` | `processDispatchRequest`: extends `DriverStore` and `BestETA` | |
| `DispatchFlow` | frontend dispatch, Kafka, the groups, the notifications of each stage | |
| `ConsumerLifecycle` | `Processor.Run`, its goroutine, `Setup` | |
| `RpcMetrics` | `rpcmetrics` on a factory of `internal/metrics` | |

`MC<Module>` instantiates a module for TLC, `<Module>Proofs` holds its theorems;
`DriverDispatchProofs` has those of `DriverStore` and `BestETA` too. Operators
under a comment that begins with "mutant" are variants of the definition below them, with
the slip the comment names; `PROJECT.json` pairs each with a property that it violates.
They are no part of any specification.

### NotificationStore

`list[k]` is what Redis has under key `k`; `call[c]` is where caller `c` is in `Store`.
`BeginStore` computes the key and WATCHes it, `ReadList` or `AlreadyStored` is the GET with
the search for the identifier, `WriteList` is the SETEX of *the list that was read*,
extended. The write goes through `tx.Pipeline`, which sends no MULTI/EXEC, so the WATCH
never makes it fail: `WriteList` has no guard on what the key holds by then. `FailStore`
is any Redis error (every caller drops it), `Expire` the TTL.

A session may be in `SerialSessions`: its user requests one ride at a time. The
callers of such a session overlap only on the same identifier, as the route calls of one
dispatch do (each has its own time, so its own body). For these sessions, and only these,
the code is an append-only log although each write replaces the list, and `AppendLog` says
so; the key of a serial session does not expire, since the steps of a dispatch are less
than 30 s apart. The other sessions may be written by anybody at any time, and still get
`UniqueIDs` and `OwnSession`.

### NotificationPolling

The k-th notification stored is the number `k`. `log` is the list under the key; `Read` is the
GET of a Store, which puts the list into `seen[w]`, `Write` its SETEX: the list that was read
and the next number, whatever is there by then, and `GiveUp` the end of a Store that writes
nothing. A writer may have several Stores under way (the route calls of one ride).
`overwritten` is a history variable: a Store replaced a list other than the one it had read.
Many properties are about a list that is *kept* (`Kept`): it has not expired and no Store has
overwritten another. `cursor` is `notificationCursorRef.current`, `shown` the entries the page has added. `StartPoll` reads the
cursor and sends it, `Answer` is `List` on the list of that moment, `Show` takes the
answer's cursor over and adds its entries. `setInterval` with an async callback does not
wait, so there are several polls. `StartIndex` and `ListResponse` are `List` with its
0-based cursor, including the check `cursor > len`. `overlapped` is a history variable.
The specification is `PollSpec`; it is checked as a part of `RidePage`.

### DriverArrival, Filters, RidePage

`DriverArrival` has the text of a Go duration as a record: `Duration` is `Duration.String`,
`Seconds` the page's pattern, which knows minutes and seconds but no hours.

`RidePage` extends the polls with the rest of the page. `about[k]` is what the k-th
notification says: its ride, its step in the dispatch and the driver it names. `logs` are
the logs of `useLogs.tsx`, newest first. `RequestDrive` takes the number of the ride, adds
its log and resets the selection; `PostAnswered` and `PostFails` end its request, in any
order with what the dispatch stores. `flow[r]` is the next Store of the ride in `Order` (the location
service stores its one notification for the pickup and again for the dropoff, and each route call stores
one). `Reads` is its GET, `StoresNothing` the end of one that finds the notification,
`Stores` the SETEX, `StoresSame` the SETEX of what a faster route call has set already, and
`StoreFails` an error, which the code ignores. Rides are the writers of `NotificationPolling`,
so two of them may replace each other's notifications. `DeliveredAgain` starts the driver's
part over, as a redelivered message does. `Shows` extends `Show` with
`AddEntries`: what an answer brings is filed under its ride. The functional updates of
React's state are atomic, so each handler is one step; the effects are not: `stale`
says that the page was drawn and its effects (`useGetRequestArrival.tsx`, `map.tsx`) are still to
run, and `Effects` runs them. A page that cannot draw (`PageWith`) is taken away.

Here a ride has one delivery of its message at a time, and its route calls end with its route stage. Two
deliveries at once, and calls that outlive their caller, are in `DispatchFlow`.

### LocationDatabase

One SQL statement is one step. `Query` is the first attempt of a request; error 1146 leads
to `CreateTable`, `SeedRow` for each row in order, and `Retry` (a delete is not retried).
`SeedPanics` is the panic at a duplicate, which net/http recovers. `Fail` is any other
error or a crash of the service. `Restart` is MySQL's pod starting on an empty volume.
AUTO_INCREMENT is modelled, explicit identifiers move it. `disturbed` is a history of what
happened since the table was lost; it is what the preconditions of the properties refer to.
Requests are processed once each; their kind is chosen when they begin.

### DriverStore, BestETA, DriverDispatch

`DriverStore` has the counter of the error simulator and, per claim, the driver and attempt it is at.
`checkError` is under a lock, so a call is one step, `GetDriver` or `Timeout`. `since` is a
history variable: the calls that succeeded since the last timeout. `crowded` is another: the
claims whose lookup, under way or failed, another one overlapped.

`BestETA` has, per claim, the stage of `Get`, the slice of results and the WaitGroup (as
the set of drivers it counts), and per worker its job. `Submit` is the hand-over of a job
on the unbuffered channel, so it needs an idle worker; `FindRoute`, `AppendResult` and
`JobDone` are the job; `Choose` is the end of `Get`: the first result of the least ETA, as
its loop keeps the earlier of two equal ones.

`DriverDispatch` composes them by extending both: `part[c]` says which of them goroutine `c`
is in. `FindDrivers` begins a lookup when the previous message is over, `FindBest` calls
`Get` when all drivers are located. It adds no state to either component and every step
is a step of one of them, which is a theorem (section 5), so what is proved of the parts
holds of the composition.

### DispatchFlow

`req` is the frontend's handler, `topic` the messages, `session`, `position`, `marked`,
`committed` the consumer group (external, as sarama is used here), `work` the goroutine
of each claim, `list` the notifications of each request, `view` each group's copy
of the routes. `Take` marks the message before `Decide` (`shouldProcess`) looks at it, as
`ConsumeClaim` does. `Join` starts at the committed offset or, without one, behind the last
message (`Offsets.Initial` keeps its default). `AutoCommit` is the one-second commit,
`Leave` the last commit at the end of a session, which may fail (the session may have ended because
the broker is out of reach), and `Crash` loses the marks since the last commit; `interrupted` counts how often
a group has lost its marks. `Publish` may put a message in the topic twice: the acknowledgement was
lost and the producer repeats. `late` are requests with route calls whose caller has given up or
died; `RouteLate` is what these calls store.

Up to the message nobody else stores for a request, so a Store is one step (`Store`). From then
on GET and SETEX are two: `Reads` and `RouteReads` put the list into `seen`, and `Set` replaces
whatever is there by the list that was read and one entry more. `contended` holds the requests for which
that was another list. Several route calls of one dispatch may have read different lists, so `seen[c]` is
a set, and `RouteStores` is the end of one of them. `InOrder` is precise about what overlapping claims can
do to each other: the first three notifications stay, since whoever stores a later one has read
them; behind them a step may be lost. `StepsOnce` holds whatever overlaps.

`DispatchFlow` and `DriverDispatch` show the same goroutines on two levels: what happens to
messages and notifications, with the outcome of the work left to chance; and the work. The
fairness that the first assumes of `Process` is what `DispatchReturns` shows in the second.

### ConsumerLifecycle

`main` is `Processor.Run`, `loop` the goroutine that calls `Consume` again and again,
`ready` the channel in `consumer.ready` (as the number of its `make`), `awaited` the one
that Run found there. `Setup` closes `ready`; `Again` replaces it after each Consume.
`ReadReady` and `Await` are two steps because `<-consumer.ready` reads the field once, and
then waits on that channel. A signal before `signal.Notify` kills the process.

### RpcMetrics

`names` and `metrics` are the two maps of each observer, `cache`, `registered` and `clashed` the
factory and the registry behind it, `span` where the `OnEnd` of a span is, `count` the
series. Each critical section is one step, except `metrics.Init`, which holds the
observer's lock and makes the eight fields one by one (`Make`), so that two observers
interleave in the factory they share. A name is a sequence of bytes because two names may
normalize to one endpoint.

## 3. Runs

| Run (`MC…`) | Instance | Distinct states | Shows |
|---|---|---|---|
| `NotificationStore_calls` | 2 sessions (one serial), 2 identifiers, 2 bodies, 2 callers | 65,000 | no identifier twice, nothing in another session's list, a serial session is an append-only log |
| `NotificationStore_lost` | 1 session, 2 identifiers, 2 callers | – | violation of `KeepsStored`: a lost update |
| `NotificationPolling_reset` | 1 poll, 2 notifications | – | violation of `CursorReset` |
| `RidePage_rides` | 2 rides, 3 locations of which 2 are on the map, 2 drivers, 2 polls, 5 notifications, 2 disturbances | 389,000 | entries are filed completely and under their ride, also while two rides replace each other's notifications; the driver shown; the rows drawn |
| `RidePage_live` | 1 ride, 2 polls, 3 notifications, 1 disturbance | 19,700 | `NoGap` and `EventuallyShown` with overlap, `ExactlyOnce` and `NeverTwice` without, across an expiry; the driver arrives |
| `LocationDatabase_setups` | 3 requests, a seed of 5 rows, 6 names | 378,000 | overlapping setups lose nothing; a retry finds the whole seed |
| `LocationDatabase_partial` | 2 requests | – | violation of `SeedSurvivesCreate` |
| `DriverDispatch_claims` | 2 claims, 2 drivers, 2 workers, 2 ETAs, frequencies -1, 0, 1, 2 | 351,000 | lookups, timeouts, the choice, and that each dispatch returns |
| `DispatchFlow_flow` | 1 request sent up to twice, the driver and a fork, 1 crash or failed last commit, routes that change | 145,000 | order of the notifications and no step twice with Stores that overlap, one group answers, nothing read twice, nothing passed over |
| `ConsumerLifecycle_sessions` | 5 calls of Consume | 2,100 | channels, readiness, shutdown |
| `ConsumerLifecycle_await` | 2 calls of Consume | – | violation of `AwaitsSetup` |
| `RpcMetrics_spans` | 3 spans, 2 observers, 3 names, room for 2, both backends | 209,000 | bounds, no second registration, counting |

Why the bounds are enough to show the cases:

- *Store*: two callers make every interleaving of two read-modify-writes, and a third
  value of anything adds nothing the properties tell apart. Two sessions are needed for
  `OwnSession` and for serial beside racing. No bound on time: a list has at most one entry
  per identifier.
- *Polling*: two polls suffice for an overlap, and an answer that comes late then is older
  than one shown before. Three notifications are one more than a cursor of 1 that is reset
  and passed.
- *Page, safety*: `RidesBound` is a union of five bounds, each wide in one direction, because their
  product is out of reach. `Form`: any selection of three locations or the placeholder, with up to two
  rides and failing requests, before anything is stored. `TwoRides`: two rides at once that store, fail and replace each other's notifications, until the fifth one,
  which is a notification that was replaced and is stored again; polls, failures and effects in any order. `Overlaps`: overlapping
  polls that bring entries twice. `Again`: a repeated delivery before and after an
  expiry, which dispatches another driver. `Complete`: all five notifications, with a repetition or an expiry,
  so that a panel has six rows. One location, 42, has no coordinates. `disturbed` counts expiries
  and repetitions: with two of them a ride is dispatched to a second driver.
- *Page, liveness*: `LiveBound` is a union as well: polls that overlap while all
  notifications are stored, or single polls with lost notifications, an expiry or a
  repeated delivery. What a bound cuts off are steps that no fairness demands, that is a
  second poll, another Store, another disturbance, a lost notification; the fair steps of the page, to ask,
  to be answered, to show and to run the effects, stay inside. So a behaviour that stops at
  the bound has not been excused from them.
- *Database*: the seed keeps what matters of the real one, the order of its identifiers
  (1, 123, 567, 392, 731: the fourth is less than the third) with gaps that the creations of
  a run cannot close. Three requests: two setups and a third request that creates or
  deletes in between. Requests are symmetric.
- *Driver dispatch*: two workers for two claims of two drivers, so jobs wait for workers and
  dispatches for one another; frequency -1 and 1 (every call), 0 (off) and 2 (the least that
  can succeed). The theorems cover the default 5.
- *Flow*: `DriverAloneOrWithForks` is a union of two bounds: the driver alone, with a message that is
  there twice, sessions that end and a crash or a last commit that fails; and the driver and a fork with one message,
  while routes change at any time and no Store fails. `OneListRead`: route calls of one dispatch that are under way at the same time
  have read the same list. Two messages on one partition are processed one after the other, so Stores of two claims
  overlap between the driver and the fork, and with late route calls. Forks share neither offsets nor sessions with the driver, so
  that what its crash does to its messages is the same beside them. The driver's fair
  steps stay inside: a fork may be taken down at any time.
  `MaxMessages` and `MaxInterrupts` bound the only counters.
- *Lifecycle*: five channels allow two failing calls before the first session and
  rebalances after it; `MaxChannels` stops only `ConsumeFails` and `Rebalance`, not the shutdown.
- *Metrics*: three names of which two normalize to the same endpoint, a cache for two, so that
  the last place is contended; status 299 and 300 meet at a boundary of classes.

Runs check deadlock, except where the modelled system stops: each request or span is handled
once (database, metrics), requests are over (flow), the process ends (lifecycle), the page
is taken away or the bound is reached (page).

A run that expects a violation checks one property and is explained in section 6.

## 4. Fairness

| Specification | Assumed | Justified by |
|---|---|---|
| `RidePage!FairSpec` | WF `Effects`; WF of asking, SF of being answered, SF of showing, by some poll | React runs the effects of what it has drawn; `setInterval` goes on firing; requests may fail again and again, but not all of them for ever |
| `DriverDispatch!FairSpec` | WF `Work`, WF `Choose`, SF `Submit`, WF `Locate`, WF `FindBest` | a route call has a deadline of one second (`services/route/client.go`), a lookup sleeps a bounded time, the scheduler runs what can run; senders waiting on a Go channel are served first come first served, so one that competes for workers gets one |
| `DispatchFlow!FairSpec` | for the driver's own group only, as forks are taken down: WF `Join`, WF `Leave`, WF `Process`, WF of the end of the route calls (`RoutesAnswered` or `RouteFails`), SF `Take` | Run's loop consumes again; all that a dispatch waits for has a deadline, the route calls above all, so `Process` does not go on with them for ever (`DispatchReturns`); sessions may end at any time, but some last until the next message is read |
| `ConsumerLifecycle!FairSpec` | WF `MainStep`, WF `Consume`, WF `LoopStep` | the scheduler; a Consume ends or sets up; sarama ends a call whose context is cancelled |

Nothing is assumed of failures, expiry, restarts, crashes, rebalances, signals, repeated
deliveries and route changes, nor of new dispatches, nor of what the user does.

## 5. Proofs

All theorems are for arbitrary values of the constants under the named assumptions of the
modules (`SessionsAssumption`, `MaxStoredAssumption`, `SeedAssumption`,
`DriversAssumption`, `StoreAssumption`, `PoolAssumption`, `FlowAssumption`, `ChannelsAssumption`,
`LocationsAssumption`, `MaxRidesAssumption`, `MaxDisturbedAssumption`, `ETAAssumption`, `UndefinedAssumption`,
`MetricsAssumption`), which TLC evaluates in the runs.

| Module | Theorems | Argument |
|---|---|---|
| `NotificationStoreProofs` | `TypeCorrect`, `IdentifiersStayUnique`, `SessionsStayApart`, `SerialImplementsLog` | `StoreInv`: what a caller remembers between GET and SETEX is also free of duplicates, belongs to the key, and lacks the identifier it will append; so the write is right although the key may hold something else by then. For serial sessions `SerialInv` adds `SeenCurrent`: the list remembered is the current one, or the current one has the identifier already, appended to the list remembered by an overlapping caller of the same step; so a write appends or replaces an entry by one with the same identifier, and the refinement steps or stutters |
| `NotificationPollingProofs` | `PollingTypeCorrect`, `PollingLeavesNoGap`, `SinglePollExactlyOnce`, `SinglePollNeverTwice` | `GapInv`: the cursor of every question under way is covered by what is shown, and every answer under way continues a covered prefix, as long as the list is kept (`KeptBefore`: an expiry or an overwriting is never undone; while it is kept a Store appends, `KeptNext`). `Solo`: without overlap at most one poll is under way. `OrderInv`: what an answer brings is later than all that is shown, across expiry, as long as no Store overwrote another: a list that was reset to is one the page has not read. `OnceInv`: the page is the prefix up to the cursor |
| `RidePageProofs` | `PageTypeCorrect`, `PagePolls`, `RidesReceiveOnce`, `RidesKnowLocations`, `OneLogPerRide`, `NothingMisfiled`, `FirstDriverStays`, `NoRowTwice`, `SixthRowNames`, `CountdownAppears`, `TimesReadBack` | every step of the page is a step or a stutter of its polls, so it implements `PollSpec`. The invariants build on each other; see below |
| `LocationDatabaseProofs` | `LocationTypeCorrect`, `ConcurrentSetupsSeedAll`, `RetriesFindTheSeed`, `SetupNeverResumed` | `SetupInv` with `EveryGapCovered`: a row of the seed that is missing behind one that is there has a request that will still insert it. A panic is harmless since the row it stumbled over was inserted by somebody further on. `UpInv`: without a restart, the rows before a request's place in the seed are its own. Only a missing table leads to the setup, so one that is over stays over (`SeedSettled`) |
| `DriverDispatchProofs`, the store | `DriverStoreTypeCorrect`, `TimeoutsAtEqualDistances`, `ThreeAttemptsSuffice` | `CountInv` ties the counter to the calls since the last timeout; `AttemptInv`: a lookup that no other one overlaps (`crowded`) is in its first attempt for a driver, or in the second right after a timeout, when the counter has just been set again |
| `DriverDispatchProofs`, the pool | `PoolTypeCorrect`, `PoolImplementsBestAnswer`, `NobodyWaitsInVain` | `PoolInv`: each driver of a dispatch is not handed out yet, with exactly one worker, or in the results once (`WorkersAccounted`, `OneWorkerEach`, `DriversAccounted`, `ResultsDistinct`); so an empty WaitGroup means that all results are there. `OpenInv`: what a WaitGroup counts is with a worker. Among results without an error there is a best one (`LeastNumber`) |
| `DriverDispatchProofs`, both | `DispatchTypeCorrect`, `DispatchUsesStore`, `DispatchUsesPool`, `DispatchLookupSucceeds`, `DispatchAnswersBest`, `DispatchNeverInVain` | every step of the composition is a step or a stutter of each part, so it implements `StoreSpec` and `PoolSpec`, and the theorems about the parts carry over by one line each |
| `DispatchFlowProofs` | `FlowTypeCorrect`, `MessagesReadOnce`, `NothingPassedOver`, `OneGroupAnswers`, `NotificationsInOrder`, `NoStepTwice` | `SeenInv`: what a claim has read whose group never lost its marks is up to the last mark or commit. `ReadInv`: what is between the committed offset and the position of a session has been read, and the mark is the position. `StageInv`: only a claim at the stage of a Store has read a list. `StepsInv`: every list that a Store has read is free of repetitions and lacks the step that it will add, so setting it, over whatever is there, repeats nothing. `RouteInv`: while a request's route is the same in all groups, only the selected one is past `shouldProcess`, and no list, read or stored, has a driver's step of another. `OrderInv`: whoever is at a stage of the flow has the notifications of the stages before it already in the list, in the handler, in the topic, in every goroutine and in late route calls alike; every list that a Store has read has at least the first steps that stay (`ReadsOK`), all of those before its own unless the request is contended |
| `ConsumerLifecycleProofs` | `LifecycleTypeCorrect`, `ReadyNeverClosedTwice`, `ReadyAfterSetup`, `GroupClosedLast`, `AwaitedIsClosed`, `NeverWoken` | `LifeInv`: channels beyond the current one are untouched, and the current one too until Setup. `WaitInv`: after Setup the current channel is closed, so what Run reads there is closed or about to be, unless a Consume failed. `Stuck` is stable: `ready` only grows, and Setup closes nothing else |
| `RpcMetricsProofs` | `MetricsTypeCorrect`, `NothingRegisteredTwice`, `CachesBounded`, `OthersFoundNoPlace`, `RequestsCountedOnce` | `FactoryInv`: what is registered is what is cached. `CacheInv`: the check under the lock bounds the names, the endpoints with metrics are those of cached names and the others, and a span with an endpoint has its name cached, or found the cache full, which it stays: without its name, unless it had gone for a place itself (`asked`). `CountInv`: the counts of an endpoint follow the set of its spans that are done, which is finite although the number of spans need not be |

`CommitsWhatWasRead` of `DispatchFlow` and the properties defined in the `Proofs` modules
(`NeverInVain`, `AwaitsAClosed`, `StaysStuck`, `SeedSettled`, `CountdownFollows`, `NumbersDiffer`,
`ReceivedOnce`), are theorems and in no run's list; they hold in the runs' instances too.

Hardly any property is inductive as it stands; the strengthenings above were model-checked
before they were proved. Each `…Init` lemma shows that the invariant holds at first, each
`…Step` lemma that a step keeps it, with a step of the proof per action, and each
`…Implies` lemma that it gives the property.

The page's invariants, in the order in which they build on each other:

1. `LogsInv`: rides are numbered from 1 without a gap, and what is selected is loaded or
   one of the two placeholders, which disable the button. It gives `KnownLocations` and `OneLogPerRide`.
2. `AboutInv`: the list, and every list that a Store has read, has each step of a ride at most once, and
   a Store under way has read a list without its own step (`SeenInv`). `RidesReceiveOnce` follows for a list that is kept with `ExactlyOnce` and `NoGap`, carried over from the polls.
3. `SourceInv`: what is listed, read by a Store, under way or shown has been stored. `TypedInv` is `TypeOK`
   with the three of them.
4. `CompleteInv` adds `PostInv` (a ride not requested yet has no request that could fail) and `LogsComplete`.
   A new log starts with its request and nothing else, since nothing was shown of a
   ride not requested yet; an answer appends to a log what it appends to `shown`, as far as it is of that
   ride (`FilterConcat`); a later `Stores` changes nothing of an entry made before
   (`ReceivedStays`).
5. `PlatesInv`: the plate is in the last step of a dispatch, and only there. `DriverInv`: once the effects have
   run, `driver` is what `RequestArrival` finds in the newest log. By `LogsComplete` that is found
   in the notifications shown (`FoundInDispatches`), and the first with a time is the first with a plate;
   `TimesReadBack` gives the time. So `FirstDriverShown`.
6. Two rows of a panel that are alike are notifications of the same step of a ride, which
   `RidesReceiveOnce` excludes. So `RowsOnce`.
7. `StepsInv`: while the list is kept and every notification was stored, the list has the steps of a ride
   from the first one on without a gap, in their order, up to the furthest one its dispatch reached. So the
   sixth row, behind the request, is the fifth step: `SixthRow`.

The lemmas they need are about `Filter`: of an appended and of a concatenated sequence, of a
filtered one (`FilterTwice`), of one mapped (`FilterMapped`), and where in the sequence
the kept elements come from (`FilterPlaces`). They hold for every sequence, so they need
induction. The theorems of the library for it take the predicate as an operator and cannot be applied here;
`NatInductionOnSets` and `SeqInductionOnSets` state induction for a *set* that holds
the first element and is closed under the next, and follow from the least element of a
well-founded order (`WFMin`). `Filter` is a recursive function that is equal to `SelectSeq`
with membership as its test; the provers have no definition of `SelectSeq` to expand.

Only model-checked:

- liveness (`EventuallyShown`, `DriverArrives`, `DispatchReturns`, `AllRead`, `ShutsDown`, `ServesUnlessFailed`):
  it rests on fairness, which this prover does not handle. What each needs besides fairness is
  proved where it can go wrong: `PollingLeavesNoGap` for `EventuallyShown`, `CountdownAppears` for
  `DriverArrives`, `DispatchNeverInVain` for `DispatchReturns` (nobody waits for a job that no
  worker has), `NothingPassedOver` for `AllRead`, `AwaitedIsClosed` for `ServesUnlessFailed`. `ShutsDown` has no
  such part: its order is `GroupClosedLast`;
- the four violations of section 6, each by the counterexample TLC prints.

## 6. Where the code and its words differ

1. **Lost notifications** (`NotificationStore_lost`, `KeepsStored`). `Store` says "apply the changes
   inside a transaction" (`pkg/notifications/handler.go:72`) and "run the transaction" (`:102`), but
   `tx.Pipeline` (`:104`) sends no MULTI/EXEC. Two services that store for one session at once,
   as two rides of one page do, lose one of the notifications. `RidePage` and `DispatchFlow` have the same
   behaviour, and their properties say what is still true then.
2. **Cursor reset** (`NotificationPolling_reset`, `CursorReset`). "check cursor" / "reset cursor"
   (`handler.go:142`, `:144`): the 0-based cursor is compared with `> len`, so a cursor equal to
   the length of a list that started over is kept, and the next entry is never sent.
3. **Partial seed** (`LocationDatabase_partial`, `SeedSurvivesCreate`). A location created between CREATE
   TABLE and the INSERTs takes an identifier of the seed; the setup panics
   (`services/location/database.go:289`), and since the table exists nobody inserts the rest (theorem `SetupNeverResumed`).
   `smart-tests/frontend/post-frontend-dispatch.star:10` counts on locations 1 and 731.
4. **Never ready** (`ConsumerLifecycle_await`, `AwaitsSetup`). "Await till the consumer has been set up"
   (`services/driver/processor.go:104`): when the first Consume fails before Setup, the loop
   replaces the channel (`:100`) and Run waits for ever on the old one. `/healthz` is never served, so
   the readiness probe of `k8s/base/driver.yaml` never succeeds while messages are consumed;
   there is no liveness probe that would restart the pod. `ServesUnlessFailed` shows that this
   is the only way, and the theorem `NeverWoken` that the wait does not end.

One more difference has no run of its own. `normalize` "returns "" for all other names beyond those
already cached" (`pkg/tracing/rpcmetrics/endpoints.go:36`), but a span that found room for its name, and
meanwhile another span with the same name took the last place, is answered "" although its name is cached (`:58`
looks at the size again, not at the names). `CacheName` has this, and `OthersWhenFull` leaves out exactly
the requests that went for a place themselves.

Behaviour that nothing in the repository contradicts, and that the models have: polls that overlap
bring entries twice, which the page adds twice (`RowsOnce` and `SixthRow` exclude it; the end-to-end
tests expect one row of the route service, `playwright-tests/basic.spec.ts:13`, and the driver
in the sixth row, `cypress/e2e/hotrod-demo.cy.js:8`); a
driver's time of an hour or more is read without its hours (no service answers one); a page whose first request fails never loads its locations; a delete that
had to set up the table reports success without deleting; a frequency of 1 or less (other than
0) makes every lookup fail; what is published before a group's first commit may never be read;
a crash behind a commit loses a dispatch; a session whose last commit fails processes its messages again; a
claim that is given three simulated timeouts of the shared counter drops its dispatch; errors of `Store` are ignored.

## 7. What is not modelled

- `Update` of the location database and `Client.Put`: no route of the server leads there.
- `Pool.Stop`: nothing calls it. A pool size of zero or less: excluded by `PoolAssumption`.
- Requests and messages that cannot be decoded: they change nothing.
- In `DispatchFlow`, expiry of the notifications, and two requests of one session: see `RidePage` and
  `NotificationStore`. In `RidePage`, two deliveries of one ride at once and late route calls: see `DispatchFlow`.
- The random ETA, delays, identifiers and coordinates of drivers: data no property is about.
- The tracing mutex: its calls in the services are commented out.
- `internal/metricstest`: used by tests only. Gauges, histograms, buckets and nested namespaces
  of the factories: nothing in the services uses them.
- Tracing set-up, HTTP wrappers, logging, parsing of the configuration, command line: no state of
  their own. Generated bundles and manifests, except what section 2 takes from them.
- Of the page: the driver's invented name and car, the ticking of the countdown (and that it starts
  over whenever the page is drawn), wording, layout and the map's tiles. Two pages that draw the
  same session number of 10001: nothing says that they do not, and they would show each
  other's entries.
- The bundle (`web_assets/assets/index-DOjS-RY3.js`): built from `react_app`, which is
  modelled instead.

sarama, Kafka, Redis, MySQL, the Go scheduler and the registries of Prometheus and expvar are
external: they are modelled by what the code relies on.

## 8. Plan

The order followed the weight of the behaviour: notifications first, since every service writes
them and the page shows nothing else, then the database all requests go through, the driver's
work, the flow of a dispatch through all services, the life of the driver process, the metrics,
and the page.

Abstract specifications: `AppendLog` for the store, `BestAnswer` for the choice of a driver.

| Step | Content | State |
|---|---|---|
| 1 | `NotificationStore`, `AppendLog`, proofs | done |
| 2 | `NotificationPolling`, proofs | done |
| 3 | `LocationDatabase`, proofs | done |
| 4 | `DriverStore`, `BestETA`, `BestAnswer`, proofs | done |
| 5 | `DriverDispatch` as their composition, proofs | done |
| 6 | `DispatchFlow`, proofs | done |
| 7 | `ConsumerLifecycle`, proofs | done |
| 8 | `RpcMetrics`, proofs | done |
| 9 | `DriverArrival`, `RidePage` on top of `NotificationPolling`, proofs | done |
| 10 | proofs of what the page files and draws (`LogsComplete`, `FirstDriverShown`, `RowsOnce`, `SixthRow`), by lemmas about `Filter` over appended sequences | done |
| 11 | Stores of one request that overlap in `DispatchFlow`, Stores of two rides in `RidePage`, last commits that fail | done |
| 12 | the parts of the liveness properties that do not need fairness, as theorems | done |
| 13 | expiry of the notifications in `DispatchFlow` | later |
| 14 | two deliveries of one ride at once in `RidePage`, beside `DispatchFlow` | later |

## 9. Running it

```
tlc -workers 2 -config MCNotificationStore_calls.cfg MCNotificationStore
tlapm NotificationStoreProofs.tla
```

With two workers `RidePage_rides`, `DriverDispatch_claims` and `DispatchFlow_flow` take one to three minutes each,
the other runs less than a minute; the proofs take
a few minutes together.
