# Verification of the chainmetric IoT device

TLA+ models of the Go program that runs on a chainmetric sensor device, TLC
configurations that check them on small instances, and TLAPS proofs of what
matters most. `PROJECT.json` lists the runs, the source lines every definition
stands for, a mutation for every property, the hazards and the theorems.

    tlc -workers 2 -config RequestsOvertaking.cfg MCReadingRequests.tla
    tlapm ReadingRequestsProofs.tla

## 1. The system

The device stands near assets (pallets, boxes) and reads sensors for the
*requirements* that a Fabric ledger keeps for them. It is one Go process of
many goroutines: a `Device` that holds shared state and ten `Module`s, which
talk through an asynchronous event bus (`go-eventdriver`: an emitted event is
handled later, in a goroutine of its own, by whoever had subscribed when it was
emitted), through the device's cache and through the sensors engine.

| Component | State | Operations | Talks to | Module |
|---|---|---|---|---|
| `device_cache.go` | assets and requests, a mutex each | put, get, remove, flush | shared by the three below | `ReadingRequests` |
| EventsObserver | none | one handler per ledger event, each in a new goroutine | ledger, cache, bus | `ReadingRequests`, `Lifecycle` |
| CacheManager | none | full reload; answers to assets and location changes | ledger queries, cache, bus | `ReadingRequests` |
| EngineOperator | engine, subscriptions | acts on requests, runs the engine, posts readings | cache, engine, ledger, bus | `ReadingRequests`, `Hotswap` |
| SensorsReader (engine) | sensors, receivers, standby timers, `active` | Run, SubscribeReceiver, SendRequest, handleRequest, Close | sensor drivers | `SensorsReader` |
| FailoverHandler, `failover_cache.go` | ping timer, LevelDB | cache a reading, ping, repost | bus, ledger, database | `Failover` |
| moduleBase | a `sync.Once` per module | wait for the login or postpone the start | bus, device state | `Lifecycle` |
| LifecycleManager | identity file | login, registration, reset, shutdown | ledger, Bluetooth, bus | `Lifecycle` |
| `device_state.go` | the device's ledger record | setters: ledger first, then the copy | ledger | `Lifecycle`, `LocationChannel`, `Hotswap` |
| HotswapDetector, `i2c_scan.go` | sensors register | scan, compare, tell | bus, register | `Hotswap` |
| LocationManager, `localnet` | partial location | collect three characteristics, release | Bluetooth, device state | `LocationChannel` |
| RemoteController, PowerManager | none | answer commands; poll the battery | ledger, device state | `Lifecycle`, `LocationChannel` |
| GUIRenderer, `controllers/gui`, display | view lock, drawing context, the chip's memory | render, notify, clear | bus, SPI | `Display` |
| sensor drivers, `periphery` | chip registers, mutexes, `active` | Init, Verify, Harvest, Close | I2C, ADC | `SensorDriver` |
| `shared` | configuration, logger, database handle | start-up | | not modelled |

What is hard, and what makes each part correct:

- *Requests.* Every event is its own goroutine, so handlers of one requirement
  overtake each other and the reloads; the cache is flushed, queried and filled
  in separate critical sections; `IsProcessed` and `SetCancel` are apart; the
  modules start in no order. Correct: a cached request is acted on, a processed
  one has its receiver, what is in force is being read in the end.
- *Failover.* Handlers, ping waiters and reposting loops run at once without a
  lock, timers are reset after they fired, the device crashes between two
  steps. Correct: what was cached stays until the ledger has it or an error
  taken for its refusal, and somebody is always going to look.
- *Engine.* Sensor goroutines, timeouts and standby timers share maps and
  channels; a sensor is put to sleep while it is read. Correct: each request is
  answered once, a cancelled receiver asks at most once more, a sensor that was
  woken up is put back to sleep.
- *Start and login.* Polls race with the event they wait for, a `Once` is
  replaced, several logins call one `Start`; a crash falls between the file and
  the login. Correct: a module starts once, and when it has heard of the login;
  the device is who its file says.
- *Hotswap.* The event is emitted before the register changes, and crosses the
  engine's start; the goroutines of a scan share a map. Correct: the engine
  knows what is plugged in.
- *Location.* Parts come one by one from several phones. Correct: no part is
  used twice, none is lost while the channel is open.
- *Drivers.* A conversion is two transactions, `Close` comes at any time, a
  read of a closed driver gives zeros and no error. Correct: nobody takes
  another's reading or a zero for his own.
- *Display.* Several painters, one lock that not all of them hold, one drawing
  context and one data/command pin. Correct: frames are whole.

## 2. How the project is built

One module per component; an `MC` module gives constants that a `.cfg` cannot
write. Two modules are abstract specifications: `ReadingService` (implemented by
`SensorsReader`) and `LocationTether` (implemented by `LocationChannel`). The
proofs of a component are in a module of their own.

| Module | Components | Lines of code it stands for | Proofs |
|---|---|---|---|
| `ReadingRequests` | observer, cache manager, engine operator, cache | handlers between ledger and engine | `ReadingRequestsProofs` |
| `Failover` | failover handler, database | failure to repost | `FailoverProofs` |
| `SensorsReader`, `ReadingService` | reading engine | request to answer | `SensorsReaderProofs` |
| `Lifecycle` | boot, modules, login, registration, device state | start to shutdown | `LifecycleProofs` |
| `LocationChannel`, `LocationTether` | Bluetooth, location | write to ledger | `LocationProofs` |
| `Hotswap` | detector, register, operator | plug to engine | `HotswapProofs` |
| `SensorDriver` | ten drivers, I2C, ADC | request to transaction | `SensorDriverProofs` |
| `Display` | GUI, e-ink driver, SPI | painter to panel | `DisplayProofs` |

The modules meet where they share an abstraction. `ReadingRequests` takes the
engine for its uncancelled receivers; `SensorsReader` says what becomes of a
receiver, `SensorDriver` what becomes of the harvest it starts. `Lifecycle` is why
the constants `EngineFirst` and `ObserverFirst` of `ReadingRequests` are both
possible: modules start in any order. `Hotswap` has the operator's start and its
handler, of which `ReadingRequests` keeps `SensorsAppear`; `LocationChannel` ends
in `SetLocation`, with which `ReadingRequests` begins a relocation.

Bounds common to all runs: `MaxEvents`, `MaxRuns`, `MaxBoots`, `MaxReports`,
`MaxSwaps`, `MaxCloses`, `MaxOutages`, `MaxCrashes`, `Attempts` cap what could go on
for ever, sets of timers, requests, reposting loops and handlers cap how many of
them exist, and `MaxUnlocked` how many painters draw without the lock at a time.
`Disturbances` says what may go wrong in a run. `Lifecycle` and `Display` have
`Scenarios` instead, the sets of disturbances that may come together: one is drawn at the
start and kept, so that one run has them in turn where all at once are too many states;
the theorems are about any. Symmetry is used in safety runs only, for sets whose members no definition
tells apart. Deadlock is not checked in any run, because all of these systems
may really come to rest: no more changes on the ledger, the process shut down
or dead, all callers served.

Fairness is that of goroutines: one that can run does, and timers fire. It is
weak fairness of each goroutine, with the exceptions named below.

## 3. ReadingRequests

Models `events_observer.go`, `cache_manager.go`, the handlers of
`engine_operator.go`, `device_cache.go` and `model/request.go`.

| TLA+ | Code |
|---|---|
| `ledgerReqs`, `placeOf`, `devicePlace` | the ledger (external): requirements in force, places |
| `watching` | topics EventsObserver has registered for |
| `location` | `d.state.Location` |
| `assets`, `requests` | `assetsCache.data`, `requirementsCache.data` |
| `cancel[o]` | the `cancel` field of a `*SensorsReadingRequest` |
| `receivers` | receiver goroutines whose context is not cancelled |
| `sent` | how often `SendRequest` was called for a one-time request |
| `active`, `subscribed` | `SensorsReader.active`; how far `EngineOperator.Start` is |
| `task` | every goroutine: where it is, what it is about, what it holds |

A cached object is a requirement with the number of the ledger event it was
made for (0: the initial reload), so that two requests for one requirement are
two objects, as they are two pointers. A task step is one critical section of
a cache mutex, one read of the location, one ledger query, one `Cancel` or one
call into the engine: what a handler looks up, and what it then does with it,
are two steps (`RequirementGet` and `RequirementCancel`, `AssetGone` and
`AssetUnassign`, `AssetsLost` and `CancelLost`, `ReadAssets` and
`QueryRequests`), with any other goroutine in between. Whatever is local to the
handler is in the same action. The places are points; two of them are near each
other when equal.

Left out: that `AssetsChanged` and `RequirementsChanged` are also emitted with
nothing in them (their handlers then do nothing); decoding errors of ledger
events; what an engine does with a request. A second `Run` of a running engine
changes nothing here and is not a step. `ServeOnce` needs the engine to be
active, since `SendRequest` blocks on an unbuffered channel that only the
engine's loop reads; `SubscribeReceiver` blocks in its own goroutine.

All instances have one asset and two places; requirements and disturbances
vary. One asset is enough for every interaction of two handlers, since they meet
in one requirement or one asset. With `MaxEvents = 1` the initial reload (a task
of its own) races with the handlers of one event; with 2, two events overtake
each other as well.

| Run | Constants | Shows |
|---|---|---|
| `RequestsOvertaking` | two changes, revocation | `NoForgottenRequest`, `CachedRequestAlive` |
| `RequestsStarting` | operator and observer still subscribing, sensors at start, revocation, relocation, failing queries | `CachedRequestAlive` |
| `RequestsServed` | a periodic and a one-time requirement, additions only | `TypeOK`, `NoForgottenRequest`, `SettledServed` |
| `RequestsActedOn` | fair goroutines, revocation, asset removal | `RequestActedOn` |

- `NoForgottenRequest`: while the engine runs, for each cached periodic request
  without a cancel func some goroutine is still going to act on it.
- `CachedRequestAlive`: a request that counts as processed has the receiver it
  would cancel, unless the observer is just displacing it. It holds as long as no
  asset is taken for lost (section 11); its two runs do not get there, since that needs a
  removal, or a relocation and a change of an asset.
- `SettledServed`: when all is quiet, each requirement in force at the device's
  place has a receiver which the cache can still cancel. It needs that nothing
  is taken away: see section 11.
- `RequestActedOn`: the liveness of the first, under weak fairness of each
  goroutine; the ledger and the sensors are under no fairness.

## 4. Failover

Models `failover_handler.go`, `storage/failover_cache.go` and `postReadings`.

| TLA+ | Code |
|---|---|
| `up` | whether the ledger answers (its absence is what `detectNetworkAbsence` detects) |
| `db` | the `reading` keys of LevelDB |
| `posted`, `refused` | what the ledger has; what met an error that is taken for the ledger's own |
| `reading[m]` | how far `postReadings` and `handleFailedToPostReadings` are with a reading |
| `pingTimer`, `timer`, `waiters` | the field; the runtime's timers and the ticks in their channels; goroutines in `ping` |
| `reposter[i]` | a goroutine of `tryRepostCachedReadings` with its iterator's snapshot |

`pingNetworkConnection` reads `m.pingTimer` anew in every line and no lock holds
the lines together, so `PingStep` is four steps, for a failure handler
(`HandlerPings`) as for a loop (`ReposterPings`): the look for nil, the new timer,
`Reset` with its answer, and the goroutine that waits for whatever timer is in the
field by then. Two that have seen nil make a timer each and may both wait for the
second one; the first then ticks for nobody. A timer is the one of Go before 1.23:
`Reset` reports whether it was running and leaves a tick in the channel. A
second tick finds the channel full and is dropped. `Restart` is the process
dying and starting again: everything but LevelDB is lost, and a reading that was
not yet cached with it. `Ticks` takes the ping interval, a minute by default, to
be longer than a handler's steps from arming the timer to writing to the
database.

Only `DiscoveryServerStatus` counts as an absent network
(`failover_handler.go:116-125`). Any other error of `Post`, a time-out on the way
included, is logged: a new reading is then not cached, and a cached one is popped
unposted. So `refused` may happen with or without a network, and is named for what
the code makes of the error.

Left out: decoding and malformed keys, and the cancelled context of a module
that is shut down. That a reposted record has no `DeviceID` is not modelled, for
a reading is a value without parts.

| Run | Constants | Shows |
|---|---|---|
| `FailoverPostedLater` | fair goroutines, an outage, a crash, refusals, failing writes and deletes | `TypeOK`, `CachedNotLost`, `NoneStranded`, `PostedLater` |

It has two readings of different keys, two timers, two reposting loops, one
outage that ends and one crash. Two readings and two loops are what a race needs:
one reading is written or deleted while another loop holds it in its snapshot. Two
timers are enough for a handler and a loop that each make one before they see the
other's; they get their names in order (`NewTimer`), since a name tells nothing. One
outage and one crash can fall between any two steps.

- `CachedNotLost`: a cached reading stays in the database until the ledger has it or
  its posting met an error that is taken for a refusal.
- `NoneStranded`: while a reading is in the database, a ping is due and is waited
  for, or a goroutine that has armed it is about to wait, or a loop is going to see
  the reading, unless a loop has given up: an iteration that fails to
  delete a record ends there, and what it leaves is looked at with the next
  failure or restart only.
- `PostedLater`: under fairness, when the network comes back for good, every
  cached reading reaches the ledger or meets an error taken for a refusal, unless
  given up in that way. The network's losses are bounded, so it stays in the end.

## 5. SensorsReader and ReadingService

Models `engine/sensors_reader.go`, `sensor/context.go` and `sensor/writer.go`.

| TLA+ | Code |
|---|---|
| `caller`, `cancelled` | a goroutine of `SubscribeReceiver` or `SendRequest`; its context |
| `runs`, `loop`, `ended`, `stopped` | calls of `Run`; the context that the loop of `once.Do` took; cancelled ones |
| `active`, `plugged`, `awake` | `SensorsReader.active`, `.sensors`; `Active()` of a sensor |
| `halfAwake` | history: what a failed `Init` has left awake, until a request finds it so |
| `request`, `pipe`, `results` | a goroutine of `handleRequest`; its channels; what `aggregate` took |
| `reader`, `unread` | the goroutine of a request and a sensor; its harvester |
| `timerOf`, `timer`, `sleeper` | `standbyTimers`; Go's timers with those who wait for them; `handleStandby` past its tick |

A sensor that is plugged in again is another object, a reading is the sensor it
comes from. `initSensor` is up to five steps, since nothing holds them together: the
look at `Active`, `Init`, the look into `standbyTimers`, the new timer, and
`handleStandby` with whatever timer the map has by then (line 234 reads it again).
Two that have found none make a timer each and may both wait for the second one;
the first then ticks for nobody. `I2C.Init` makes a sensor active before it is
configured (`i2c.go:47`), so an `Init` that fails leaves it asleep or awake
(`WakeFails`), and its goroutine returns without a standby. `MapRace` is Go ending
the program when two goroutines meet in the map.

`ReadingService` is what the engine promises its callers: a request that was
taken is answered at most once, for the metrics it asked for and from sensors
that measure them; a receiver asks while it is subscribed and at most once
more; with fairness each request is answered. `Service` is the refinement
mapping: where a caller stands is its pc and its context, an answer is what
`aggregate` has returned.

- `EngineStandby` (two requests of one receiver, one sensor, two timers, two
  `Run`s; a sensor that fails to start, hangs, falls asleep, is unplugged):
  `AwakeWillSleep` (a sensor that is awake is going to be put back to sleep, but for
  one that a failed `Init` has left awake, until a request finds it active) and
  `ServesReadings`, the safety half of the refinement. Two requests at one
  sensor are what it takes to make two timers for it, or to reset one that has
  fired.
- `EngineService` (one request, two sensors of two metrics; reads that fail, a
  timeout, a close; fairness of the request's goroutines): `AnswersReadings`, the
  fair half, and `OnlyLateLeavesBehind`. A sensor may hang for ever: harvesters
  are under no fairness, the three seconds of a request are. A sensor that fails
  to initialise is not in this run: see section 11.

## 6. Lifecycle

Models `lifecycle_manager.go`, `module_base.go`, the start and end of modules, and
the device's copy of its record (`device_state.go`) as the observer and the setters
change it.

| TLA+ | Code |
|---|---|
| `power`, `boots` | the process |
| `ledger`, `copy` | State of the devices on the ledger; `Device.state` |
| `file` | the identity file: absent, blank, or an id |
| `life`, `handler` | `LifecycleManager.Start`; the answers to `inserted` |
| `module`, `looks`, `starts` | the body of a module's `Do`: its polls, the subscription, what comes after |
| `once`, `starting` | the module's `Once`: not done yet, or done; goroutines of `Start` that have not come to `Do` |
| `subscription`, `calls`, `called` | to `DeviceLoggedOnNetwork`, with or without its `cancel`; logins delivered and not handled; handlers between `Start` and `cancel` |
| `news`, `resets`, `bye` | updates and removals being handled; `notifyOff` |

A module that has polled in vain replaces the `Once` it is running under
(`module_base.go:58`) and subscribes. Each login that is delivered before the
subscription is cancelled calls `Start`, in a handler of its own (`Postponed`), and
each `Start` is a goroutine that comes to `Do` later (`Do`): whoever is first finds
the `Once` fresh and polls again, the others find it done. The handler's
`cancel` is a variable that is assigned only after `SubscribeHandler` has returned
(`NameCancel`): a login that is quicker calls nil and ends the program
(`CancelNil`).

| Run | Constants | Shows |
|---|---|---|
| `LifecycleStarts` | fair goroutines, failing calls, a shutdown, a registration not answered in time, one update; with either two answers to one registration, or a crash, removals and a second boot | `TypeOK`, `StartsOnce`, `KnowsItself`, `LoginHeard` |

It has two identities and one waiting module, the observer, which has to
start for updates to be heard. Two answers to a registration announce two logins,
which is what it takes to call one module's `Start` twice; they race with its polls,
its subscription and its `Once` within one boot. A second boot is what it takes to
log in as somebody else than before the crash. They are two scenarios
(`Both`), since both at once are more states than can be checked; of two answers that
cross `KnowsItself` claims nothing anyway, and the proofs have them together.
`StartsOnce`: no body starts twice.
`KnowsItself`: what the device is logged in as is what is on its disk, so that it
logs in as the same after a crash, as long as nobody has answered two registrations
at a time (`AnsweredOnce`). `LoginHeard`: under weak fairness of the goroutines,
whoever still polls when the device is logged in, or had a login delivered, starts,
or the process ends. A module that was between its last poll and its subscription
waits on, and is in the model.

## 7. LocationChannel and LocationTether

Models `localnet/geo.go`, `localnet/client.go`, `location_manager.go`, the pairing
command and `Device.SetLocation`.

| TLA+ | Code |
|---|---|
| `pairing`, `phone` | calls of `localnet.Pair`; the phones (external) and the part each hands over |
| `payload`, `full` | `geoPayload`; the aggregator at its write of `release` |
| `release`, `setting` | the channel; the handlers of released places |
| `ledger`, `copy` | the location on the ledger and in `Device.state` |

`LocationTether` is what the channel promises: no written part is in two places,
only a newer one of its kind replaces it, and as long as it is open, three parts of
the three kinds become a place that is settled. `LocationTethered` checks it
(`SettlesPlaces`) with two phones, two locations, disconnections, refusals and a
shutdown, besides `NoPartTwice` and `PlacesAreWhole`: if phones write one after the
other and to the end, the device is where one of them says. Two phones and two
locations are the least that can mix. Fairness is weak for the aggregator, the
subscriber and the setters, and strong for the handler of a phone's write: Go
queues those who wait to write to an unbuffered channel in order, so that none
of them is passed over for ever.

## 8. Hotswap

Models `hotswap_detector.go`, `io/i2c_scan.go`, `registry_sensors.go` and
`EngineOperator.Start` with its handler of `SensorsRegisterChanged`.

| TLA+ | Code |
|---|---|
| `plugged` | the sensors on the buses (external) |
| `detector`, `unprobed`, `detected`, `added`, `removed` | a scan of all buses and `handleHotswap` |
| `sensors`, `supports` | `Device.sensors`; the metrics on the ledger |
| `login`, `operator` | LifecycleManager and `EngineOperator.Start`, as far as they touch sensors |
| `event`, `engine`, `active` | handlers of the event; the engine |
| `missed` | history: sensors whose change crossed the operator's start |
| `fatal` | Go has ended the program for a map that is used by two |

`EngineOperator.Start` goes on when it sees the login; when it has polled in vain it
subscribes to one that may have come in between (`PollOver`, `AwaitLogin`), and then
hears of no change (`Unheard`). The buses are scanned by a goroutine each, which
write what they find to one map without a lock: what a bus has found may be lost
(`LostWrite`), or the program ends (`MapRace`), which also happens to the Device's
register while it is listed or its metrics are gathered. A bus whose time is over, or
that does not open, counts as empty (`ScanTimeout`).

`HotswapFollowed`: two sensors with a common metric, each on a bus of its own, two
swaps (one of which may be a scan cut short or a lost write), one event at a time.
`EngineFollowsDevice`: when nothing is under way the engine has the sensors of the
device; `EngineFollowsBuses`: under weak fairness a sensor that stays is known to the
engine in the end, unless the operator never hears of a login, and one that is away
is not. Neither says that the engine runs (section 11). Both except `missed`, whose
changes the operator may list twice or not at all. Fairness is that of the detector,
the operator and the handlers; a login need not come. A scan comes every three
seconds and the handlers wait for nothing, so the model takes them to be done before
the next scan. Two buses are what it takes to write at once.

## 9. SensorDriver

Models the drivers of `drivers/sensors` over `periphery/i2c.go` and `adc.go`. A
driver is two programs, `init` and `harvest`, of steps on registers, each with
what becomes of its error; `kind` picks one of ten. Readers are the requests of
the engine, with the engine's look at `Active` before and after `Init`.

| TLA+ | Code |
|---|---|
| `reader`, `task` | `initSensor` and `readSensor` of a request; the goroutines in a driver |
| `active`, `bus`, `device` | `I2C.active`, `.Bus` and what is open; the library's driver |
| `chip`, `mutex` | settings, the parameter latch, the pointer; the driver's mutexes |
| `got` | where a request's readings come from: its own conversion, another's, no chip, one not set up |

`DriversRead`: every driver with two requests, a scan that verifies the chip, one
close at any time and transactions that fail. Two attempts stand for ten, two
parameters for the eleven of SI1145. A chip keeps its settings when its driver is
closed; CCS811's software reset drops them, so that a request which finds the sensor
closed may reset it between another's `Init` and reading (`overtaken`). `OwnConversions`, `ZerosOnlyIfClosed`,
`ReadySensors` and `PanicsOnlyIfClosed` say what a reading may be and what it takes
for it to be wrong; `OperationsEnd` that every operation ends (weak fairness of
the goroutines taken together: there are finitely many steps but for the
ADC's sampling loop, which it excepts).

## 10. Display

Models `gui_renderer.go`, `gui/render.go`, `eink.go` and `spi.go` as far as they
decide what is drawn when.

| TLA+ | Code |
|---|---|
| `painter` | the goroutines that draw: the loop, the notifications, the registration, the shutdown |
| `viewLock`, `ctx` | `GUIRenderer.viewLock`; `gui.ctx`, as the images drawn in it |
| `dc`, `panel`, `wild` | the data/command pin; the chip's row, memory and picture; pixels were taken for a command |
| `loggedIn`, `sync` | the login; how far `GUIRenderer.Start` is with waiting for it |
| `active`, `exited` | `SPI.active`; `MustExecute` has ended the process |
| `crossed` | history: a painter without the lock drew while another did |

A row is one transfer; a picture is the set of images in it. GUIRenderer renders when
it sees the login; when it has polled in vain it subscribes to one that may have come
in between (`PollOver`, `AwaitLogin`). `MaxUnlocked` bounds the painters that draw
without the lock at one moment, not in a behaviour: the registration's three images
and a notification come in one, one after another, each beside
the loop. A registration and a shutdown are two scenarios in the run (`Either`), each with
the loop, a notification and failing transfers; `LockedFramesWhole` has them together.

| Run | Constants | Shows |
|---|---|---|
| `DisplayShared` | fair painters, a notification, failing transfers, the registration or the shutdown | `TypeOK`, `MixedOnlyUnlocked`, `StatsReturn` |

It has a panel of two rows (a frame is mixed when its rows differ) and
`MaxUnlocked = 1`, which is enough to mix. `MixedOnlyUnlocked`: frames are
whole and the chip is not run wild unless somebody drew without the lock.
`StatsReturn`: whatever was drawn over them, the statistics come back whole, again
and again, unless GUIRenderer waits for a login, the chip has run wild, the process
has ended or the display is closed.
Fairness is weak per painter: the ticker ticks and the chip becomes
idle. What the chip does once it has taken pixels for commands is not modelled;
the model stops there.

## 11. Where the code does not keep its word

Met while modelling, each visible in the definition named. The models do as the
code does, and the properties are stated for what is left.

- A one-time request is removed from the cache by `request.ID`
  (`engine_operator.go:104`), which `PutRequirementsToCache` never sets: it stays
  cached and is sent again with every `CacheChanged` (`ServeOnce`).
- A requirement revoked while its request is being subscribed is read on: the
  observer cancels the func it finds, and a subscription in progress comes after
  (`RequirementCancel`, `ServePeriodic`). The message at `events_observer.go:129`
  says "removed and unsubscribed".
- `RequirementsChanged` is ignored while the engine is not active; if `Start`
  itself then runs the engine, a request cached in between is acted on by nobody
  until the next `CacheChanged`. The comment at `engine_operator.go:43` takes that
  to be needless. Hence the assumptions of `NothingForgotten`.
- `DeviceLocationChanged` is emitted before the new location is stored
  (`events_observer.go:85`); the reload may locate assets around the old place.
- The requests of a removed asset are cancelled and stay cached, removed by the
  same unset ID (`cache_manager.go:51`, `CancelLost`): they count as processed and
  are served by nobody. The same happens to an asset that is not removed when its
  change is handled while the device moves (`AssetSeen` reads the location after it
  was placed). `CachedRequestAlive` is claimed as long as neither happens
  (`ProcessedAreServed`). "Canceling requests
  before re-caching" (`cache_manager.go:36`) asks for the requests of no asset
  and cancels none (`LocationChanged`).
- Readings of one asset in one second share a key of the failover cache and one of
  them is lost (`failover_cache.go:31`). Hence `KeysDiffer`.
- Only one of the errors of a network counts as its absence
  (`failover_handler.go:118`): a reading whose posting times out on the way is not
  cached, or popped unposted (`PostReadings`, `Repost`). `CachedNotLost` and
  `PostedLater` count it as settled.
- "stop iterating sequence" (`failover_cache.go:96`): a refused record is popped and
  the loop goes on.
- A sensor that fails to initialise is never counted off the wait group
  (`sensors_reader.go:186`), so its request is not answered; the comment at line 197
  waits "until all" are done. `AnswersReadings` is claimed without such a failure.
- A sensor whose `Init` fails after it has opened the bus is active and has no standby
  (`i2c.go:47`, `sensors_reader.go:222-225`): it stays awake until a request finds it
  so, which then takes it for ready. `AwakeWillSleep` excepts it for so long, and
  `ReadySensors` excepts what is read of it.
- CCS811's `Init` begins with a software reset (`ccs811.go:45`), also while another
  request that has set the chip up is about to read it, if the standby closed the
  driver in between: the reading is of a chip that is not set up. `ReadySensors`
  excepts CCS811 then, and no other driver.
- A module that has stopped polling when the device logs in and subscribes only
  then waits for the next login (`module_base.go:57-64`, against the comment at line
  52), and there is none in a process that has logged in. The models of `Lifecycle`,
  `Hotswap` and `Display` do so; `LoginHeard` is about those who poll or were called,
  `EngineFollowsBuses` and `StatsReturn` except an operator and a renderer that wait.
- A login that is delivered before `SubscribeHandler` has returned calls a `cancel`
  that is nil (`module_base.go:62`, `CancelNil`), and the program ends.
- The goroutines of a scan write to one map (`i2c_scan.go:43`, `:51`), and the Device's
  register is written while it is ranged over: Go may end the program (`MapRace`).
- The engine is run by `SensorsRegisterChanged` only if the register has a sensor by
  then, and the event comes before the register changes
  (`hotswap_detector.go:90`, `engine_operator.go:64`): the first sensor may not start
  the engine, against the comment at `engine_operator.go:62`. `active` follows the code
  in `Hotswap`, and no property claims it.
- A `Pair` between `localnet.Close` and the end of the process has no client and
  panics (`PairPanics`).
- The notification locks and unlocks the view at once (`gui_renderer.go:127`).
- MQ9 divides by the volts it has measured, and `requestsThroughput` of the GUI grows
  without bound; neither is in a model.

## 12. What is proved

`TypeCorrect` of each proof module is `Spec => []TypeOK`. All theorems are for every value of the constants: any
sets of assets, readings, sensors, requests, phones, modules, timers and rows, any
bounds and disturbances. They rest on the modules' assumptions about constants, which
say no more than that what stands for "none" is none of the values and that bounds are
numbers.

**`NothingForgotten`** (`ReadingRequestsProofs`): `Spec => []NoForgottenRequest` if
`EngineFirst` and `~SensorsAtStart`. The invariant is not inductive. That a
handler's task is free when an event becomes ready for it has to be known, or the
new task would overwrite one that was going to act. So `ServingInv` adds: each role
takes only its own steps (`RolesKept`); the tasks of one ledger event run one after
another, an event not yet seen has none, and the engine's second task runs only
after CacheManager's has ended (`OneAfterAnother`); EngineOperator has subscribed.
The proof first classifies every action by what it does to the tasks
(`ObserverShape`, `CacheShape`, `EngineShape`: who steps, who becomes ready, who
stays as it was), shows that the handlers' invariant follows from those shapes
alone, and then, per action, that each unserved request either was unserved before
and its actor is left in place, or is new and handed to an actor in the same step.

**`ProcessedAreServed`** and **`ProcessedServed`** (`ReadingRequestsProofs`):
`Spec /\ []NoneLost => []CachedRequestAlive`, and `Spec => []CachedRequestAlive` if there
are neither asset removals nor relocations. `NoneLost` says that nobody is between
unassigning an asset and the end of cancelling its requests. A request dies when its
receiver is cancelled and it stays, or is put back, in the cache. `ProcessedInv` rules out
the second: until the handlers of an event have stored its requests, those are not in
the cache, nobody has them in hand and they have no cancel func (`StoredOnce`), so what
is stored is always new, and the cache and the hands of the observer have each request
under its own name (`CachedByName`, `HeldByName`), so what the observer cancels is what it
displaces. The induction then shows of each goroutine's step that a receiver
disappears only with `Displacing` of its request, and that `Displacing` ends with the
request's displacement. For the second theorem `CalmInv` proves `NoneLost`: every assigned
asset is at the device's place, and what a task has read of the places is still so
(`CalmTask`), so no asset is found gone that was assigned.

**`RequirementsServed`** (`ReadingRequestsProofs`): `Spec => []SettledServed` if nothing
is taken away and no query fails (`Disturbances = {}`), the observer registered and the
operator subscribed before the cache was first filled, and the engine is started by
`SensorsRegisterChanged`. `SettlingInv` says at every moment what is still to come: an asset
at the device's place is assigned, or the reload or a handler is going to assign it
(`AssetsSettled`), also where a handler found it assigned and does not report it
(`AssignKept`, since the reload flushes the assigned assets once); and a requirement in
force for such an asset is cached, or the reload has not begun to read the assets, or
some goroutine is going to store it (`RequestsSettled`). `WillStore` is what has to be
found: an insertion counts only if the asset is assigned when it is checked, else the one
that assigns the asset counts, which queries the ledger after. With `CalmInv`,
`CachedRequestAlive` and `NoForgottenRequest`, what is cached when all is quiet is served.

**`NothingLost`** (`FailoverProofs`): `Spec => []CachedNotLost` if no two readings have
one key (`KeysDiffer`). A loop deletes by key what it read some time ago, so
`KeepingInv` adds that whatever lies under a key, in the database or in a loop's
iterator, is a reading of that key (`Filed`), and that a loop about to delete has an
answer of the ledger for the reading in its hands (`PopsSettled`). With `KeysDiffer`
what is deleted is then that very reading, or nothing.

**`NobodyStranded`** (`FailoverProofs`): `Spec => []NoneStranded`, for any keys.
`WatchInv` adds that a timer which runs and a tick which nobody took have a
goroutine each that waits for them, or one that has armed the timer and is about to
wait (`TicksAwaited`). That is said of the timer in `pingTimer` only: one that was
replaced may tick for nobody, and need not, since whoever replaced it waits for the
new one. It adds that whoever resets or waits finds a timer (`PingHeld`), that a loop
which pings has left its iterator (`LeftEmpty`), and that the ping a failure handler has
armed is still to come when it writes its reading (`ArmedBeforeStored`, from the guard
of `Ticks`), so the loop that the ping starts comes after the write.

**`Sleeps`** (`SensorsReaderProofs`): `Spec => []AwakeWillSleep`, for any number of
requests, timers and failures. A reader that leaves `initSensor` must have left a timer
that runs and somebody who waits for it; `Reset` gives it a waiter only if the timer was
not running. `SleepInv` adds that as many goroutines wait for the timer in the map as it
has ticks to give, one for the tick in the channel and one for the tick to come, but for
one as long as somebody is about to wait (`TimersCounted`), that a sensor's timer was
made for it (`TimersOwned`), that a sensor which is awake has a standby to come from that
timer (`StandbySet`), and that nobody reads for a request which is not handled yet
(`NotReadYet`, so that `Handle` overwrites no reader). It holds although two readers may
each make a timer for one sensor: both then wait for the one in the map, and the one
that was dropped is waited for by nobody. What a failed `Init` has left awake is out of
`StandbySet` until a reader finds it active and goes on to arm its standby.

**`LeavesBehind`** (`SensorsReaderProofs`): `Spec => []OnlyLateLeavesBehind`. `LeftInv`
follows a request's goroutines: none before it is handled (`NotStarted`), none that still
does anything once the wait is over (`ReadersOver`), for every harvester a reader that
waits for it, or one that gave up because the request was late (`HarvestersKnown`), and
channels that are empty when a request was answered in time (`ChannelsDrained`).

**`Implements`** (`SensorsReaderProofs`): `Spec => ServesReadings`, the safety half of
`Service!FairSpec`. The service speaks of callers and answers only; everything between
the two is a stutter, and for that `ServiceInv` relates what is in the channels to who
asked: a request that was taken has a caller (`RequestsOwned`), a harvester gives
metrics of its own sensor (`HarvestsFit`), so what is in the channels of a metric, and
what was taken from them, is of sensors that measure it (`ReadingsFit`), and only a
receiver that has subscribed is cancelled (`CancelledAsked`). The proof maps every action
to `Ask`, `Cancel`, `Take`, `Answer` or a stutter of the service.

**`StartedOnce`** and **`LoggedAsStored`** (`LifecycleProofs`): `Spec => []StartsOnce` and
`Spec => []KnowsItself`. The first is about the `Once` that the code replaces: it is fresh only while its module
waits with nothing running inside (`OnceFresh`), so of the goroutines that several logins
have started one finds it fresh, and a body that goes past the login does not come back
to replace it (`StartsTold`). The second relates two goroutines and the disk:
`KnowsInv` adds that no registration is answered before `Start` listens for one
(`EarlyIdle`), that nobody is logged in while `Start` has not retrieved a record and
no answer was given (`LoggedBySome`), that an answer writes the file before it logs in
(`WritesFirst`, `WrittenOnDisk`), and that what `Start` holds between `Retrieve` and
`UpdateDeviceModel` is a record of what is on disk, unless that was removed meanwhile
(`HeldOnDisk`).

**`PartsUsedOnce`**, **`SetWhole`** and **`Implements`** (`LocationProofs`):
`Spec => []NoPartTwice`, `Spec => []PlacesAreWhole` and `Spec => Tether!Spec`. `ApartInv` adds that two phones write different locations, each
part once (`PhonesApart`), and that a part the aggregator has still to receive, one it
has, one that waits in the channel and one that was released are never the same
(`PartsApart`). The refinement maps the parts in the phones' hands, in the aggregator and
in the places under way to the tether's `fresh`; that a place has all three parts when
it is released is part of type correctness (`FullIsComplete`). For `SetWhole`, `WholeInv`
adds, for as long as phones write one after the other and to the end, that one phone
writes at a time (`OneWrites`), that the payload is what it has handed over so far, or all
of the location before (`PayloadOfOne`), and that whatever was released is whole
(`GoneWhole`).

**`EngineFollows`** (`HotswapProofs`): `Spec => []EngineFollowsDevice`. A change reaches
the Device and the engine by two goroutines, in either order, so what is inductive is
about what the two will have when the change that is told is applied (`DeviceToBe`,
`EngineToBe`): they agree but for `missed` once the operator has started, with the list it
took before it has registered it, and before that the engine has nothing that the
Device has not, and nothing at all while the operator has not subscribed
(`EngineCatchesUp`). One change is told at a time (`OneChange`), and an
event whose change is in the Device already removes nothing that is in it
(`DeviceFirst`).

**`ConversionsOwned`**, **`ZerosOfClosed`**, **`SensorsReady`** and **`PanicsOfClosed`**
(`SensorDriverProofs`): `Spec => []P` for `OwnConversions`, `ZerosOnlyIfClosed`,
`ReadySensors` and `PanicsOnlyIfClosed`, for any subset of the ten drivers. The programs
are unfolded once, into what each says of its steps (`WakesUp`, `Reads`), and `DriverInv`
adds to the types that only a request that wakes the sensor up runs an Init and only one
that harvests it runs a part of the harvest (`RolesKept`). Each of the four then has an
invariant of its own. `Converting`: a goroutine of HDC1080 between its lock and its unlock
has the mutex, and before it fetches, the pointer; nobody else writes the pointer without
the mutex. `HarvestedAwake`: a request that harvests has the sensor active or was closed
under. `Ready`: what the one Init that runs has passed is in the chip and its latch holds
the value that the next command is about (`SetSoFar`), a request past its Init finds all
settings there (`ReadyOnceWoken`), and an active sensor has them or is in an Init past its
first step (`ReadyWhenActive`); the last is what a request relies on that finds it active.
A reset takes them from nobody, because a request that wakes the sensor up has no other
about to read it (`WakesAlone`), which holds until `overtaken`; the other drivers have no
reset, and for them the invariant goes on to hold after that.
`Made`: as long as nothing was closed and one request wakes the sensor up at a time, an
Init before its `make` finds no driver (`MadeByInit`), so a `make` that fails takes it from
no harvest (`MadeForHarvest`); for that a driver that is made has to be active
(`MadeActive`).

**`LockedFramesWhole`** (`DisplayProofs`): `Spec => []MixedOnlyUnlocked`. While nobody
has crossed another, one painter draws at most, since the statistics are drawn under
the lock (`StatsLocked`, `OneDraws`), and the first to use the context finds it empty
(`FirstAlone`). For that painter `Tracked` says how far it has come: what is in the
context and in its frame (`InFrame`), and which rows of the chip's memory have its
picture, where the pointer is and on which level the pin (`OnPanel`).

## 13. What is only model-checked, and what is not modelled

Liveness (`RequestActedOn`, `PostedLater`, `AnswersReadings`, `LoginHeard`,
`SettlesPlaces`, `EngineFollowsBuses`, `OperationsEnd`, `StatsReturn`) is checked by TLC
only: TLAPS does not reason about fairness. Every invariant that a run checks is also proved,
some under the conditions named above.

Not modelled: logging, configuration and opening the database (`shared`); connecting
to the Fabric gateway and decoding its payloads; conversions of raw values to units
in the drivers, the battery gauge's arithmetic (INA219), and the drivers no locator
reaches (`dhtXX`); the e-ink chip's initialisation sequence, `Sleep`, rotating and
packing pixels and the texts of the GUI; the remote commands that end in the
operating system. They are straight-line code without state that other parts
read. Data races on single fields of `Device.state` are not modelled either. The
event bus, the ledger, LevelDB, Go's timers and the chips are external and modelled
by how the code uses them.
