# A TLA+ model of cf-app-sd-release

App service discovery for Cloud Foundry: apps are found by internal DNS names.
Route emitters on the cells publish `service-discovery.register` and
`service-discovery.unregister` messages on NATS; the
*service-discovery-controller* keeps a routing table from them; *bosh-dns* asks
the *bosh-dns-adapter* on its VM, which asks the controller over HTTPS. The
*route populator* publishes routes for performance tests.

This directory holds TLA+ modules for these parts, TLC configurations that check
them on small instances, and TLAPS proofs about the routing table, the subscriber,
the end-to-end behaviour in real time, the DNS path, the processes and the
populator. `PROJECT.json` lists components,
runs, mutants, the source lines behind every definition, findings, hazards and
theorems.

## Inventory

| part | state | operations | meets | what is hard |
|---|---|---|---|---|
| address table (`addresstable/address_table.go`) | `addresses` (hostname to list of ip and update time), `pausedPruning`, `lastResume`, `warm`, a ticker | `Add`, `Remove`, `Lookup`, `GetAllAddresses`, `SetWarm`, `IsWarm`, `PausePruning`, `ResumePruning`, `Shutdown`, a pruning goroutine | called by the subscriber's callbacks and handlers, the HTTP handlers and main | the goroutine takes the lock three times per tick and anything may happen in between; first-match removal; two spellings of a name; thresholds |
| subscriber (`mbus/subscriber.go`) | `natsClient`, `once`, the warm timer | `RunOnce`, `Run`, `Close`, three connection callbacks, three message handlers | the NATS client calls it on its own goroutines; it drives the table | callbacks that run before set-up is over, outages during set-up, a client that closes by itself, lost start messages, reordering between subjects |
| controller process (`main.go`) | the ifrit group, `signalChannel` | read the configuration, build and start the parts in order, stop on a signal | starts and stops every other part of the controller | a signal or a failing member at any point of the start or the stop; main and the group's monitor both get the signal |
| registration endpoint (`routes/server.go`) | none of its own, a serving goroutine | `Run`, `handleRegistrationRequest`, `handleRoutesRequest` | reads the table, twice per request; counts its answers | `IsWarm` and `Lookup` are two critical sections; `Run` is ready before the port is bound |
| adapter and its client (`bosh-dns-adapter`) | per request: attempt, last response; the process: listener, ifrit group | start and stop, the HTTP handler, `IPs` with retries, `shuffle` | controller over HTTPS | retries against a controller that is getting warm, failing exchanges, names that a URL turns into others |
| route populator (`route_populator`) | `stopped`, `quitChan`, `errsChan`, per goroutine a job | `Start`, `Wait`, `Stop`, `PartitionRange`, `Initialize`, `PublishRouteRegistrations` | publishes on NATS | an unsynchronised `Stop`, the division of the routes, two messages per route |
| metrics recorders (`mbus/metrics_recorder.go`, `routes/metrics_recorder.go`) | running maximum, request counter | record, read and reset | fed by handlers, read by the metrics emitter | read and reset must not lose a value; transit times below zero |
| configuration, local ip (`config`, `localip`) | none | read and validate, find the address | main | only their failures, in main |
| route emitter (another program) | the apps that run | repeats their routes, answers start messages, unregisters | publishes on NATS | its interval against staleness, resume delay and the notice of an outage |
| control scripts, example apps, test helpers | - | - | - | no concurrent state of their own |

What makes the parts correct:

* table: no route within the staleness threshold is ever pruned; a stale one
  goes eventually; an ip is listed once per name; either spelling finds it;
* subscriber: pruning is paused exactly while NATS is away; every connection is
  announced to the emitters; a failed set-up leaves nothing behind; set-up
  returns and the table becomes warm;
* end to end: once a controller process knows the route of a running app, it
  stays listed through all outages; a warm table, also after a restart, is
  complete; the route of a stopped app goes in bounded time, whatever order its
  messages are handled in;
* processes: any failure and any signal ends the process, with a status that
  tells which; the endpoint does not serve before the subscriptions are made, and
  when the process itself has closed them it does not serve for long; every answer
  is counted once. (It does serve on when the NATS client closes by itself: see
  *Observations*.)
* DNS path: an answer is what a warm table listed at one moment during the
  query; a warm controller never refuses; each query is answered;
* populator: every route is published by one goroutine, again and again; one
  failure ends everything with an error; `Stop` works.

## Modules

| module | models | composed of |
|---|---|---|
| `RouteRegistry` | abstract specification of the table: a set of routes with ages | |
| `AddressTable` | the table, its pruning goroutine, clock and ticker | refines `RouteRegistry` |
| `AddressTableProofs` | theorems about `AddressTable` | |
| `Subscriber` | `RunOnce`, callbacks, handlers, main's shutdown, the NATS client | extends `AddressTable`, and refines it |
| `SubscriberProofs` | theorems about `Subscriber` | `AddressTableProofs` |
| `RouteEmission` | apps and their route emitter, real time, crash and restart | extends `Subscriber` |
| `RouteEmissionProofs` | theorems about `RouteEmission` | `SubscriberProofs` |
| `DnsLookup` | adapter handler, client, registration endpoint | extends `AddressTable` |
| `DnsLookupProofs` | theorems about `DnsLookup` | `AddressTableProofs` |
| `OrderedGroup` | the ifrit group and its signal monitor (external) | |
| `MetricsRecorders` | the two recorders | |
| `Daemon` | both processes from start to exit, the members' `Run`, the metrics emitter | `OrderedGroup`, `MetricsRecorders` |
| `DaemonProofs` | theorems about `Daemon` | |
| `RoutePopulator` | runner, publisher, main of the populator | |
| `RoutePopulatorProofs` | theorems about `RoutePopulator` | |
| `MC...` | instances for TLC | |

`Subscriber` and `DnsLookup` extend the table, and `RouteEmission` the subscriber,
rather than instantiate it, because the prover can use the theorems of an extended
module only. The table's own specification is therefore `TableInit`, `TableNext`,
`TableSpec` over `tableVars`, and that of `RouteEmission` is `EmissionInit`,
`EmissionNext`, `EmissionSpec` over `emissionVars`.

### AddressTable

Each method holds `at.mutex` for its whole body and is one action. The pruning
goroutine is `PruneCheck` (receive a tick, read the pause state under a read
lock), `FindStale` (scan under a read lock) and `PruneStale` (prune under the
write lock), with `prunePc` and its local variable `staleAddresses` as state.

* Hostnames are records of a label and whether the trailing dot is there, so
  `fqdn` does what it does in the code. Both spellings of every label occur.
* A message's list of names is a set: `UniqueIPs` makes repeated names and their
  order indistinguishable (the second occurrence finds the first one's entry).
* Time: the code reads `updateTime` and `lastResume` only in `clock.Since(..)`
  compared with one configured duration. An entry therefore carries its age and
  the table the time since the resume, both saturated just past the duration; no
  bound on the clock is needed and the state space is finite.
* The ticker is a countdown with a channel of capacity one. `Shutdown` stops the
  countdown and leaves a delivered tick in the channel, as Go does.
* A hostname whose last entry is removed loses its key, one whose last entry is
  pruned keeps an empty list, as in the code.

### Subscriber

`runPc` walks through `RunOnce`: connect, assign `s.natsClient`, start message,
greet subscription, flush, the two address subscriptions, warm timer; every
failure goes to `CloseAfterError`. The NATS client is external and is modelled
from what the subscriber uses: a status and a socket (the socket can be dead
before the client notices), a queue of callbacks run one after the other on a
goroutine of the client, one message queue per subscription, and a buffer for
what is published while reconnecting. Closing drops queued messages except those
whose handler has been entered. `callbacks` holds the running callback first; a
reconnect callback is two steps, `ResumePruning` and the start message.
`panicked` stops everything: a nil client in the callback ends the process.
`UnexpectedClose` is the client that gives up by itself: its callbacks are those of
`Close`, the closed one only logs, and nothing connects again. The table then stays
paused, as in an outage that never ends, which is why `OutageFreezesTable` is about
both.

### RouteEmission

`Subscriber` and `AddressTable` let time pass at any moment, which is right for
what must hold whatever the scheduler does, but says nothing of what is in the
table after so many seconds. `RouteEmission` runs the same actions under a clock
that waits for what is due (`NothingDue`): goroutines, callbacks and handlers
take less than a clock step, a route is repeated within `EmitInterval`, and a
broken socket is noticed within `DetectionDelay`. The emitter is external: it
repeats a running app's route, loses what it sends over a broken socket or
without a subscription, and unregisters an app it sees stop; `AnswersStart` says
whether a start message makes it repeat all routes at once. `Restart` is a crash,
or the exit after an error, followed by a new process: every variable of the
controller starts again and the apps do not. `NatsCloses` is the client's own close:
from then on no message reaches this process, so that no app can be heard by it and
only a restart helps; its table is frozen, so what it knew stays.

`registered`, `steady`, `deadFor` and `calmFor` are history, read by no action:
the running apps this process has heard of, those that could be heard ever since
it subscribed, for how long each app has been gone, and for how long pruning has
been allowed.

`KeepsUp` is the condition under which the durations fit together:
`EmitInterval + DetectionDelay <= StalenessThreshold`, and when pruning resumes
after an outage the routes have been repeated. It is tight: TLC finds a
violation of `LiveRoutesStay` when the threshold is one less than the sum, and
when the detection delay equals the resume delay. Two observations follow from
the code's own use of the durations. main asks emitters for an interval equal to
the resume delay (`main.go:182`), so an emitter that does exactly that, and does
not answer start messages at once, cannot satisfy the second condition. And the
first start message is sent before the subscriptions exist
(`subscriber.go:187`), so an immediate answer to it may be lost: a warm table is
complete only if the warming takes longer than one emission.

### Daemon

`mainPc` walks through `mainWithError` of the controller or through `main` of the
adapter; each step passes or ends the process with the status the code gives it.
The ordered group is a library: `OrderedGroup` launches members in their order,
each when the one before is ready, and on a signal or the end of any member stops
them in reverse order. The goroutine that waits for the group (`WatchGroup`) and
the signal, which reaches main and the monitor, may come at any moment.

* `serve` is the goroutine with the HTTP server. The controller's is started by
  `Run`, which reports ready whether or not the port is bound by then
  (`StartRoutesServer`, `ServeHTTP`); a `Close` before the server is up does not
  keep it from coming up, and such a server goes on answering while the group takes
  the other members down, the subscriber among them (`ServerLeftBehind`).
  `ServesSubscribed` names this case instead of excluding it, and `UnfedServerEnds`
  says that it ends with the process. The adapter's listens before its group exists.
* The subscriber's start is one step that succeeds or fails; `Subscriber` has its
  parts. `natsClient` says what has become of the client: none yet, subscribed,
  closed by `Subscriber.Close` (main's, or `Run`'s on the group's signal), or lost,
  when it has closed by itself and the callback has only logged it
  (`ClosedHandler`). The metrics emitter and the log-level server are library code.
* A handler answers and then records, in two steps; the emitter reads and resets
  a count, sends it, and reads the maximum, in three. `answered`, `reported` and
  `since` are history.

### DnsLookup

A query is the adapter's side (`req`) and the endpoint's side of the current
attempt (`handler`). `CheckWarm` and `DoLookup` are the two critical sections of
the endpoint, and every action of the table may come between them. `window`,
`warmAtStart` and `disturbed` are history: what a warm table has listed for the
name during the query (and, once it is answered, whether the answer is among
that), whether it was warm when the query began, and whether an
HTTP exchange has failed. No action reads them. A query has a type and a name, and
both may be missing: `getQueryParam` gives the type its default, and the name is
refused when empty; a type other than A is answered empty without asking the
controller.

The client formats the name into the URL as it is (`service_discovery_client.go:78`)
and the server takes the last element of the decoded path (`server.go:164`).
`serviceKey` is the outcome of both: a plain name arrives as it is, an odd one (with
`/`, `?`, `#` or `%`) as the name `UrlKey` gives it, as a path that the registration
endpoint does not serve (`OtherPage`), or not at all. `AnswersAreSnapshots` and
`WarmNeverRefuses` are about the key that arrives.

### RoutePopulator

`numRoutes` and the number of CPUs are chosen in `Init`, so one run covers all
sizes up to the bounds. `SmallJob` stands for main's limit of 1000 below which
one goroutine is used. Above it nothing keeps the goroutines from being more than
the routes; the size of a range is then zero and the loop of `PartitionRange` never
ends (`Endless`): main stays in `partition`, where a signal is heard but ends
nothing, until the process runs out of memory (`OutOfMemory`). main first checks its flags, which may fail, and a signal
before `signal.Notify` kills it. `Stop` is two steps, reading the flag, and
setting it and closing the channel; both callers (workers, signal goroutine) take
them. A goroutine with an error waits while `errsChan` is full (`errsCapacity`).

## Runs

| run | instance | shows |
|---|---|---|
| `address_table_behaviour` | 1 label in both spellings, 3 ips | `TableTypeOK`, `UniqueIPs`, `SpellingsAgree`, `FreshRoutesSurvive`, `RefinesRegistry`, `StaleEventuallyPruned`, `PauseQuiesces` |
| `address_table_pause` | 1 label, 1 ip | violation: a pass past the check prunes while paused |
| `subscriber` | 1 name, 1 ip, all kinds of messages, well-formed or not, 2 callbacks queued | `TypeOK`, `PauseTracksConnection`, `AnnouncedWhenConnected`, `FailureLeavesNothing`, `LateReconnectsSend`, `RefinesTable`, `RunOnceReturns`, `EventuallyWarm`, `OutageFreezesTable`, `RecoveryResumesPruning` |
| `subscriber_nil_client` | as `subscriber`, 3 callbacks queued | violation: nil client in the reconnect callback |
| `route_emission` | 1 app; threshold 3, pruning 2, resume 2, warming 3, emission 2, detection 1 | `LiveRoutesStay`, `WarmTableComplete`, `GhostsLeave` |
| `route_emission_deployed` | the job's default durations in minutes, the NATS client's default pings | violation: an outage is noticed after the routes are pruned |
| `dns_lookup` | 1 query, 1 name in both spellings, 3 odd names, 2 ips | `TypeOK`, `AnswersAreSnapshots`, `WarmNeverRefuses`, `GivesUpLate`, `EveryQueryAnswered` |
| `daemon` | both programs, 1 request, transit times -1, 1 and 2 | `TypeOK`, `ServesSubscribed`, `ExitTellsWhy`, `AnswersCounted`, `LongestTransit`, `FailureEnds`, `SignalEnds`, `UnfedServerEnds` |
| `route_populator` | up to 7 routes, none included, up to 3 CPUs | `TypeOK`, `JobsPartition`, `ErrorsReported`, `ReportNeverBlocks`, `StopEnds`, `FailureEnds`, `HeartbeatsRepeat` |
| `route_populator_left_over` | 1000 routes, up to 36 CPUs | violation: 28 routes belong to nobody |
| `route_populator_stop` | 2 routes, 2 CPUs | violation: `quitChan` is closed twice |
| `route_populator_messages` | up to 2 routes, 2 CPUs | violation: a round has two messages per route |

Why the bounds are enough. Actions of the table treat hostnames alike and look at
one list at a time, and the theorems cover any number of them; three ips give
lists with a first, a middle and a last entry. A staleness threshold of
one has ages below, at and past it; a pruning interval of two lets an entry
become stale between two ticks; a resume delay of one has a moment before and
after it. In `Subscriber`, two waiting callbacks hold an outage and a recovery before
the first callback has run, and the client's close adds its own two past the bound;
`MaxQueue` of one still lets a register and an unregister wait side by side. Pruning
resumes and the table is warm without delay there, which `config.go` allows: what the
delays do is for the table and for `RouteEmission` to show. The safety properties are
proved for all bounds and delays. One query is enough for `DnsLookup` because queries
share only the table, which they read; its odd names are one of each kind: another
key of the table, another page, no URL. In `RoutePopulator`, seven routes and
three CPUs have divisions without remainder, with one smaller than a job (7 by 3)
and with one as large as a job (5 by 3), and more CPUs than routes (2 by 3). In `RouteEmission` routes do not meet,
so one app is enough for TLC, and the theorems hold for any number; its durations satisfy `KeepsUp` with no slack in the first
condition, and leave two clock steps between prunings and between emissions, so
that outages begin, are noticed and end between them. In `Daemon`, one request is enough to be lost
between the emitter's reading and its reset or to be counted twice, and one time
below zero and two above show the maximum, which of two competing times wins, its
reset and clocks out of step; the theorems hold for any number.

Deadlock is checked for the table, the DNS path and the route emission. The
subscriber's process ends in a panic, and the daemons and the populator end by
themselves, so those configurations do not check it.

### Fairness

* Table: `TableTick` (time passes) and the pruning goroutine (the Go scheduler).
* Subscriber: `RunOnce`, the warm timer, callbacks and the pruner as goroutines;
  `Flush` returns or times out after a minute; timers expire; a dead socket is noticed
  (TCP errors and the client's pings). Nothing is assumed of reconnects, publishers,
  message handlers or signals: the properties that need a connection say so in their
  premise.
* DNS path: a goroutine serves the request, and the client's time limits end an
  exchange that hangs.
* Daemons: main, the goroutine on the group, the group and the members' `Run` are
  scheduled; a subscriber's start returns, which is `RunOnceReturns`. All of these
  have finitely many steps to take, so one weak fairness condition is enough for
  them. Nothing is assumed of signals, requests, messages or failures: the log-level
  server may fail at any moment or never.
* Populator: goroutines run and heartbeats come. Strong fairness of the `quitChan`
  case: `select` chooses at random among the ready cases, so a closed channel is
  not passed by for ever.

## Findings

* A pass of the pruning goroutine that has read the pause flag goes on to prune
  after `PausePruning` has returned (`address_table.go:157`).
* A reconnect before `RunOnce` has stored the client panics (`subscriber.go:151`);
  no later one does (`LateReconnectsSend`).
* An outage that does not close the socket is noticed by the NATS client's pings
  only, after more than the default staleness threshold; live routes are pruned
  before pruning is paused (`subscriber.go:167`).
* When the remainder of routes by goroutines is as large as a job, the remaining
  routes are published by nobody (`runner.go:46`).
* Concurrent calls of `Runner.Stop` close `quitChan` twice (`runner.go:101`).
* `PublishRouteRegistrations` publishes two messages per route, one of them on
  `service-discovery.register` (`publisher.go:116`), where the populator's tests
  expect one, on `router.register` (`publisher_test.go:54-70`, `runner_test.go:53`
  and `72`). `HeartbeatsRepeat` is about what the code does.

### Observations

What the model shows and no document contradicts:

* When the NATS client closes by itself, the closed callback logs "unexpected
  close" and nothing else happens (`subscriber.go:161`): no member fails, no client
  is made again, and the controller answers from a table that is paused for good.
  Running apps' routes stay (`LiveRoutesStay`), those of stopped apps do too, and
  apps started since are not found until the process is started again.
  `ServesSubscribed` therefore allows for a lost client, and `UnfedServerEnds` is
  about clients that the process has closed itself.
* A server that comes to bind after its `Run` has closed it (`server.go:115`,
  `131`) answers while the group is taken down, also after the subscriber has
  gone.
* A queried name with `/`, `?`, `#` or `%` asks for another name, another page or
  nothing (`service_discovery_client.go:78`); an answer is then that of the other
  name.
* With 1000 routes or more and still more CPUs, `PartitionRange` does not end
  (`runner.go:120`). No goroutine runs and no signal ends the process.

## Proofs

`AddressTableProofs` proves, for every set of labels and ips and every duration
that `ConfigAssumption` admits (the `validate` tags of `config.go`):

* `TypeCorrect`: `TableSpec => []TableTypeOK`
* `NoDuplicates`: `TableSpec => []UniqueIPs`
* `LookupFindsAll`: `TableSpec => []SpellingsAgree`
* `FreshSurvive`: `TableSpec => FreshRoutesSurvive`
* `Refinement`: `TableSpec => RefinesRegistry`

The inductive invariant is `TableInv == GoodTable(addresses) /\ ControlOK`.
`TableTypeOK` is not inductive with the properties on its own: that `Lookup` finds
every key needs all keys to be qualified names (`Fqdns(Hostname)`), and that
`Remove` leaves no entry with the ip needs every list to be free of duplicates, so
both are in `GoodTable`; `ControlOK` types the goroutine and ties
`prunePc = "prune"` to having candidates.

The argument has three layers. First, what each list operation does, as a set of
entries: `TouchProperties`, `WithoutProperties`, `FreshProperties` and
`AgedProperties`. `Fresh` keeps some positions in their order, so
`OrderExists` shows by induction on cardinality (via a least counterexample,
`LeastNatural`, since the library's induction theorems cannot be instantiated)
that every finite set of naturals has an increasing enumeration. Second, what
each action does to the entries of each hostname (`AddChanges`, `RemoveChanges`,
`PruneChanges`, `TickChanges`), which also shows that the action keeps
`GoodTable`. Third, from these and nothing else about lists: `TableNextInv`,
`StepKeepsFresh`, and for the refinement `AddRegisters`, `RemoveUnregisters`,
`PruneExpires` and `TickPasses`, one per abstract action; all other steps leave
`Routes` alone.

`DaemonProofs` proves, for any number of requests and any set of transit times:

* `EveryAnswerCounted`: `Spec => []AnswersCounted`
* `LongestTransitHeld`: `Spec => []LongestTransit`
* `ExitExplained`: `Spec => []ExitTellsWhy`
* `EndpointIsFed`: `Spec => []ServesSubscribed`

The first two need only that the emitter holds nothing outside its sending, and
the types; `MetricsSteps` reduces them to the four actions that touch the
metrics. The other two rest on
`LifeInv == GroupInv /\ MainInv /\ ClientInv /\ ServerInv`. Neither property
is inductive. That the endpoint is fed needs the group's order (`GroupInv`), as the
chain *a server is up, so its member was launched, so the subscriber was ready, so
it is ready or stopped*. If it is ready, only main on a signal has closed its client
(`ClientInv`). If it is stopped, it was told; so the group is stopping and the
routes server's `Run` had returned; not with an error, since then no server is up
(`ServerInv`); so the server was left behind. That an error has a cause needs a
failed member to stay failed, and that main passes its `select`, or begins the
group, at one place only (`MainInv`). `GroupStepKeeps` and `RunKeeps` show what the
group and a member's `Run` keep, `MainKeeps` and `MembersKeep` the rest.

* `DaemonTypeCorrect`: `Spec => []TypeOK`, from all of these: the bounds on the
  counters follow from `AnswersCounted`, the type of the maximum from
  `LongestTransit`.

`SubscriberProofs` proves, for every set of hostnames, ips and messages, all
durations and all bounds on the queues:

* `SubscriberTypeCorrect`: `Spec => []TypeOK`
* `PauseFollowsConnection`: `Spec => []PauseTracksConnection`
* `EmittersAreAsked`: `Spec => []AnnouncedWhenConnected`
* `FailureIsClean`: `Spec => []FailureLeavesNothing`
* `LaterReconnectsSend`: `Spec => []LateReconnectsSend`
* `UsesTable`: `Spec => RefinesTable`
* `TableInController`: `Spec` implies the table's `UniqueIPs`, `SpellingsAgree`,
  `FreshRoutesSurvive` and `RefinesRegistry`

The inductive invariant is `SubInv`: the table's own `TableInv`, the types, and

* `RunFacts`, what each place of `RunOnce` says of the client, the subscriptions
  and the timer, which gives `FailureLeavesNothing` and, with it, `LateReconnectsSend`:
  a callback runs only when there is a connection, and the one place where a
  connection has no client is before its assignment;
* `PauseFollows`: `PauseTracksConnection` speaks of an empty callback queue only
  and says nothing while callbacks wait. What is inductive is that the last event
  still in the queue, or the pause flag if there is none, tells the state of the
  connection;
* `StartFollows`: a working connection that has not carried a start message has a
  reconnect, or the second half of one, waiting in its queue.

`UsesTable` needs the types only for the message that is handled: a register
message with an ip and names, or an unregister message whose missing host makes
`Remove` leave the table as it is (`RemoveNothing`), which in turn needs the
table's invariant that every entry has an ip. `TableInController` is then
propositional: a theorem about `TableSpec` is one about the controller.

`DnsLookupProofs` proves, for any number of concurrent queries:

* `LookupTypeCorrect`: `Spec => []TypeOK`
* `AnswersExact`: `Spec => []AnswersAreSnapshots`
* `WarmAnswers`: `Spec => []WarmNeverRefuses`
* `AllAttemptsMade`: `Spec => []GivesUpLate`

The inductive invariant is `TableInv /\ QueryTypes /\ \A r : QueryOK(r)`, where
`QueryOK` follows one query from its parameters to its answer: what the endpoint
holds after `Lookup` is in the query's window, and stays there because windows
only grow; a reply without an answer is a refusal by a table that was cold during
the query, or a failed exchange; the attempts are counted. It needs `TableInv`
because an answer has no repetitions only if the list has none.

`RoutePopulatorProofs` proves, for any number of routes, of CPUs and any `SmallJob`:

* `PopulatorTypeCorrect`: `Spec => []TypeOK`
* `JobsArePartition`: `Spec => []JobsPartition`
* `NoErrorLost`: `Spec => []ErrorsReported`
* `ErrorsHaveRoom`: `Spec => []ReportNeverBlocks`

`Ranges` says what `PartitionRange` returns: part k begins at k times the size of
a job and the last part ends with the routes, whichever of its three branches it
takes. `JobShape`, `JobsApart` and `JobsCover` draw the jobs from it by the
arithmetic of quotients. The inductive invariant `PopInv` adds that goroutines
are started in order, that none is started unless there is a route for each (with
fewer routes `Start` does not get that far), and that a goroutine which goes on to stop the others has its error in the channel, from
which main alone takes one and then exits with an error. `ErrorsHaveRoom` needs
more, that the channel has exactly one error of each goroutine past its report
(`RoomInv`, with the library's theorems on cardinality).

`RouteEmissionProofs` proves, for any number of apps and all durations, through
any number of crashes and restarts:

* `LiveRoutesKept`: `EmissionSpec => []LiveRoutesStay`
* `WarmIsComplete`: `EmissionSpec => []WarmTableComplete`
* `GhostsAreGone`: `EmissionSpec => []GhostsLeave`

`EmissionSteps` shows that every step is one of `Subscriber` or a restart, so
`SubInv`, and with it the table's invariant, holds throughout. None of the three
properties is inductive; each compares clocks that the state keeps apart, and the
inductive invariant `EmissionInv` says how far they can be from each other:

* `GhostsLeave`: an entry is at least as old as its app has been stopped
  (`AgeFacts`), which needs that a registration still on its way is of an app
  stopped for no time at all (`RegistersSent`). Once the entry is stale and
  pruning is allowed, the time both have lasted is at most the time since the
  pruner's last tick, unless a tick waits or a pass is under way that will take
  the entry away (`GhostFacts`).
* `LiveRoutesStay`: an entry is safe if it is no older than the threshold, or if
  the pruner is at rest and would not start (`Safe`). That only a clock step can
  disturb, and it finds no message and no callback waiting, so the pause agrees
  with the connection and the start message has been heard (`PauseFollows`,
  `StartFollows`). What it needs of the connection's past is `Covered`: over a
  working socket the entry is as old as the last emission at most, or that
  emission was before the last reconnect, and then pruning has been resumed for no
  longer than the emitter takes to repeat (`HeardRecently`); over a broken one,
  the same with the time since it broke added (`HeardBeforeBreak`). The two
  conditions of `KeepsUp` are used in `LiveClock`, each once, for these two cases.
* `WarmTableComplete`: an app that could be heard since the subscription is
  registered, or its registration is on its way, or the warming has not lasted
  longer than since its last emission (`SteadyFacts`); the rest is
  `LiveRoutesStay`.

The client's own close needs little: nobody can be heard after it
(`HearingFacts`), and its callbacks pause the pruner as those of an outage do.

`LiveRoutesStay` and `WarmTableComplete` have `KeepsUp` as their premise, the
emission interval being any positive number and the resume delay any number
(`EmissionAssumption`, `ConfigAssumption`); the
instance of `route_emission` satisfies it, and the finding of
`route_emission_deployed` is what happens without it.

### Model-checked only

* All liveness properties: fairness and `ENABLED` are out of the prover's reach.
  All safety invariants, action properties and refinements of the passing runs
  have proofs.

## Not modelled

* Control scripts: shell functions around pid files and signals, whose state is
  the operating system's; `Restart` is what they and monit do to the controller.
* Example apps and test helpers, suites and fakes: they are not part of the
  system.
* TLS handshakes, and what the library servers do inside: only whether a
  configuration or a start succeeds.
* The texts of messages, of DNS answers and of logs, `buildLogger`, and
  `NatsServers`, which formats URLs. Parsing is modelled by its outcomes.
* `Publisher.Finish` and `min` of the populator, which nothing calls.

## Plan

Done, in this order: the table and its abstract specification; its proofs; the
subscriber on the table; the DNS path on the table; the route populator; the
route emitter and the end-to-end properties; the recorders; both processes, and
proofs about them; `Subscriber` as a refinement of the table, by TLC; proofs about
the subscriber, the DNS path and the populator, and of that refinement;
`RouteEmission` on the subscriber by extension, and the proofs of its real-time
properties.

Next: what remains true beside each finding, as a property with a run and a proof:
a pruner that is at rest when `PausePruning` returns takes no route away
(`address_table.go:157`); the populator's channel is closed twice only by two
calls of `Stop` that overlap (`runner.go:101`).
