---------------------------- MODULE ReadingRequests ----------------------------
(***************************************************************************)
(* How requirements on the ledger become reading requests on the device.   *)
(* The ledger tells of every change; EventsObserver, CacheManager and      *)
(* EngineOperator answer it by goroutines that share the device's cache    *)
(* (device_cache.go) and end in receivers of the sensors engine            *)
(* (SensorsReader.SubscribeReceiver), here those not cancelled: what one   *)
(* does between being cancelled and ending is left to SensorsReader.       *)
(*                                                                         *)
(* Every goroutine is a task.  A task step is one critical section of the  *)
(* cache mutexes, one read of the location, one ledger query, one Cancel   *)
(* or one call into the engine; the event bus (go-eventdriver) delivers an *)
(* emitted event later, in a goroutine of its own, so emitting an event is *)
(* making its handler's task ready.                                        *)
(***************************************************************************)
EXTENDS Naturals, FiniteSets

CONSTANTS
    Assets, Requirements, Places, Nil,
    AssetOf,          \* the asset a requirement is about
    OneTime,          \* the requirements whose Period is zero
    Disturbances,     \* what happens besides additions to the ledger
    SensorsAtStart,   \* waitUntilSensorsDetected sees a sensor
    EngineFirst,      \* EngineOperator subscribed to the bus before CacheManager ran
    ObserverFirst,    \* EventsObserver subscribed to the ledger before CacheManager ran
    MaxEvents         \* bound on the changes of the ledger

ASSUME RequirementsAssumption ==
    /\ AssetOf \in [Requirements -> Assets]
    /\ OneTime \subseteq Requirements
    /\ Disturbances \subseteq {"revocation", "assetRemoval", "relocation", "queryFailure"}
    /\ SensorsAtStart \in BOOLEAN
    /\ EngineFirst \in BOOLEAN
    /\ ObserverFirst \in BOOLEAN
    /\ MaxEvents \in Nat

Topics == {"assets", "device", "requirements"}
Roles  == {"observer", "cache", "engine", "engineAgain", "start"}

\* A task is named by the ledger event it answers (0: the start) and its role.
Tasks   == (0..MaxEvents) \X Roles

\* A cached *SensorsReadingRequest is named by its requirement and the ledger
\* event it was made for: no event makes two for one requirement.
Objects == Requirements \X (0..MaxEvents)

CancelPCs      == {"reqCancel", "reqEnd", "cancelLost"}
RequirementPCs == {"reqPut", "reqGet", "reqCancel", "reqStore", "reqGone", "reqEnd", "reqDelete"}
AssetPCs       == {"assetPut", "assetNear", "assetAssign", "assetGone", "assetUnassign"}
DevicePCs      == {"deviceUpdated", "deviceStore"}
ObserverPCs    == RequirementPCs \cup AssetPCs \cup DevicePCs
ChangePCs      == {"assetsLost", "assetsGained"}
StorePCs       == {"gainedStore", "storeRequests"}
CachePCs       == ChangePCs \cup StorePCs
                    \cup {"locationChanged", "cancelLost",
                          "flushAssets", "readLocation", "queryAssets", "storeAssets",
                          "flushRequests", "readAssets", "queryRequests"}
EnginePCs      == {"requirementsChanged", "cacheChanged", "act", "serve"}
PCs            == {"idle"} \cup ObserverPCs \cup CachePCs \cup EnginePCs

ASSUME NilAssumption ==
    Nil \notin Assets \cup Requirements \cup Places \cup Tasks \cup Objects

VARIABLES
    ledgerReqs,   \* requirements in force on the ledger
    placeOf,      \* where the ledger has each asset, Nil: no such asset
    devicePlace,  \* where the ledger has the device
    eventCount,   \* ledger changes so far
    watching,     \* topics of the ledger EventsObserver is registered for
    location,     \* d.state.Location, the device's own copy
    assets,       \* assetsCache.data
    requests,     \* requirementsCache.data: requirement -> object, Nil: absent
    cancel,       \* the cancel func of an object: its receiver's maker, Nil: none
    receivers,    \* receivers not cancelled: the object each is of, and its maker
    sent,         \* one-time requests handed to the engine, per object
    active,       \* SensorsReader.active
    subscribed,   \* bus subscriptions EngineOperator.Start has made, 0..3
    task          \* the goroutines

ledgerVars == <<ledgerReqs, placeOf, devicePlace, eventCount>>
engineVars == <<cancel, receivers, sent>>
startVars  == <<watching, active, subscribed>>
vars == <<ledgerVars, startVars, location, assets, requests, engineVars, task>>

Task(pc, on, held) == [pc |-> pc, on |-> on, held |-> held]
Idle == Task("idle", Nil, {})

\* What a task is about and what it holds, by the step it is at.
Named == Assets \cup Requirements \cup Places \cup Objects
WellFormed(k) ==
    /\ k.pc \in RequirementPCs => k.on \in Requirements
    /\ k.pc \in AssetPCs \cup ChangePCs => k.on \in Assets
    /\ k.pc \in DevicePCs \cup {"queryAssets"} => k.on \in Places
    /\ k.pc = "serve" => k.on \in Objects
    /\ k.pc \in StorePCs => k.held \subseteq Requirements
    /\ k.pc \in {"storeAssets", "queryRequests"} => k.held \subseteq Assets
    /\ k.pc \in EnginePCs \cup CancelPCs => k.held \subseteq Objects
TaskRecords == {k \in [pc : PCs, on : Named \cup {Nil}, held : SUBSET Named] : WellFormed(k)}

TypeOK ==
    /\ ledgerReqs \subseteq Requirements
    /\ placeOf \in [Assets -> Places \cup {Nil}]
    /\ devicePlace \in Places
    /\ eventCount \in 0..MaxEvents
    /\ watching \subseteq Topics
    /\ location \in Places
    /\ assets \subseteq Assets
    /\ requests \in [Requirements -> Objects \cup {Nil}]
    /\ cancel \in [Objects -> Tasks \cup {Nil}]
    /\ receivers \subseteq Objects \X Tasks
    /\ sent \in [Objects -> Nat]
    /\ active \in BOOLEAN
    /\ subscribed \in 0..3
    /\ task \in [Tasks -> TaskRecords]

Init ==
    /\ ledgerReqs \in SUBSET Requirements
    /\ placeOf \in [Assets -> Places \cup {Nil}]
    /\ devicePlace \in Places
    /\ eventCount = 0
    /\ watching = IF ObserverFirst THEN Topics ELSE {}
    /\ location = devicePlace
    /\ assets = {}
    /\ requests = [r \in Requirements |-> Nil]
    /\ cancel = [o \in Objects |-> Nil]
    /\ receivers = {}
    /\ sent = [o \in Objects |-> 0]
    /\ active = FALSE
    /\ subscribed = IF EngineFirst THEN 3 ELSE 0
    /\ task = [t \in Tasks |-> IF t = <<0, "cache">> THEN Task("flushAssets", Nil, {})
                                                     ELSE Idle]

--------------------------------------------------------------------------------
(* Tasks, the cache and the receivers.                                      *)

At(t, pc) == task[t].pc = pc
Become(t, next) == task' = [task EXCEPT ![t] = next]
Finish(t) == Become(t, Idle)

\* t goes on as next while the handler other, of the same event, becomes ready.
Emit(t, next, other, handler) ==
    task' = [task EXCEPT ![t] = next, ![<<t[1], other>>] = handler]

\* GetCachedRequirements and GetCachedRequirementsFor
CachedObjects == {requests[r] : r \in Requirements} \ {Nil}
CachedFor(as) == {o \in CachedObjects : AssetOf[o[1]] \in as}

\* PutRequirementsToCache: what the cache is after storing rs for event n.
\* (mutant: a requirement that is present keeps its object)
StoredIfAbsent(rs, n) ==
    [r \in Requirements |-> IF r \in rs /\ requests[r] = Nil THEN <<r, n>> ELSE requests[r]]
Stored(rs, n) == [r \in Requirements |-> IF r \in rs THEN <<r, n>> ELSE requests[r]]

\* SensorsReadingRequest.ID: the objects are made without it.
RequestID(o) == Nil

\* RemoveRequirementsFromCache
Without(id) == [r \in Requirements |-> IF r = id THEN Nil ELSE requests[r]]

\* The receivers left by SensorsReadingRequest.Cancel of every object of os: it
\* cancels the context of the receiver the object has the cancel func of, if any.
AfterCancel(os) == {s \in receivers : ~(s[1] \in os /\ s[2] = cancel[s[1]])}

--------------------------------------------------------------------------------
(* The ledger.  A change becomes an event for the observer if it has        *)
(* registered for the topic; every event is handled in a new goroutine.     *)

Tell(topic, handler) ==
    /\ eventCount < MaxEvents
    /\ eventCount' = eventCount + 1
    /\ task' = IF topic \in watching
               THEN [task EXCEPT ![<<eventCount + 1, "observer">>] = handler]
               ELSE task
    /\ UNCHANGED <<startVars, location, assets, requests, engineVars>>

SubmitRequirement(r) ==
    /\ ledgerReqs' = ledgerReqs \cup {r}
    /\ Tell("requirements", Task("reqPut", r, {}))
    /\ UNCHANGED <<placeOf, devicePlace>>

RevokeRequirement(r) ==
    /\ "revocation" \in Disturbances
    /\ r \in ledgerReqs
    /\ ledgerReqs' = ledgerReqs \ {r}
    /\ Tell("requirements", Task("reqGone", r, {}))
    /\ UNCHANGED <<placeOf, devicePlace>>

PlaceAsset(a, p) ==
    /\ placeOf[a] = Nil \/ "assetRemoval" \in Disturbances
    /\ placeOf' = [placeOf EXCEPT ![a] = p]
    /\ Tell("assets", Task("assetPut", a, {p}))
    /\ UNCHANGED <<ledgerReqs, devicePlace>>

RemoveAsset(a) ==
    /\ "assetRemoval" \in Disturbances
    /\ placeOf[a] # Nil
    /\ placeOf' = [placeOf EXCEPT ![a] = Nil]
    /\ Tell("assets", Task("assetGone", a, {}))
    /\ UNCHANGED <<ledgerReqs, devicePlace>>

RelocateDevice(p) ==
    /\ "relocation" \in Disturbances
    /\ devicePlace # p
    /\ devicePlace' = p
    /\ Tell("device", Task("deviceUpdated", p, {}))
    /\ UNCHANGED <<ledgerReqs, placeOf>>

\* The queries of CacheManager, as the ledger answers them.
AssetsNear(p)       == {a \in Assets : placeOf[a] = p}
RequirementsFor(as) == {r \in ledgerReqs : AssetOf[r] \in as}

--------------------------------------------------------------------------------
(* EventsObserver                                                           *)

\* One of the three Subscribe goroutines registers for its events.
Watch(topic) ==
    /\ topic \notin watching
    /\ watching' = watching \cup {topic}
    /\ UNCHANGED <<ledgerVars, active, subscribed, location, assets, requests, engineVars, task>>

\* watchRequirements, "inserted" and "updated"
RequirementCheck(t) ==
    /\ At(t, "reqPut")
    /\ IF AssetOf[task[t].on] \in assets
       THEN Become(t, Task("reqGet", task[t].on, {}))
       ELSE Finish(t)
    /\ UNCHANGED <<ledgerVars, startVars, location, assets, requests, engineVars>>

\* GetRequirementsFromCache: the object is taken under the mutex ...
RequirementGet(t) ==
    /\ At(t, "reqGet")
    /\ LET r == task[t].on IN
       IF requests[r] = Nil
       THEN Become(t, Task("reqStore", r, {}))
       ELSE Become(t, Task("reqCancel", r, {requests[r]}))
    /\ UNCHANGED <<ledgerVars, startVars, location, assets, requests, engineVars>>

\* ... and cancelled without it.
RequirementCancel(t) ==
    /\ At(t, "reqCancel")
    /\ receivers' = AfterCancel(task[t].held)
    /\ Become(t, Task("reqStore", task[t].on, {}))
    /\ UNCHANGED <<ledgerVars, startVars, location, assets, requests, cancel, sent>>

\* An event that is emitted when EngineOperator has not subscribed to it is lost.
ToEngine(t, next, needs, handler) ==
    IF subscribed >= needs THEN Emit(t, next, "engine", handler) ELSE Become(t, next)

\* (mutant: the new request is cached and nobody is told)
RequirementStoreSilent(t) ==
    /\ At(t, "reqStore")
    /\ requests' = Stored({task[t].on}, t[1])
    /\ Finish(t)
    /\ UNCHANGED <<ledgerVars, startVars, location, assets, engineVars>>

RequirementStore(t) ==
    /\ At(t, "reqStore")
    /\ requests' = Stored({task[t].on}, t[1])
    /\ ToEngine(t, Idle, 1, Task("requirementsChanged", Nil, {<<task[t].on, t[1]>>}))
    /\ UNCHANGED <<ledgerVars, startVars, location, assets, engineVars>>

\* watchRequirements, "removed"
RequirementGone(t) ==
    /\ At(t, "reqGone")
    /\ LET r == task[t].on IN
       IF requests[r] = Nil
       THEN Finish(t)
       ELSE Become(t, Task("reqEnd", r, {requests[r]}))
    /\ UNCHANGED <<ledgerVars, startVars, location, assets, requests, engineVars>>

RequirementEnd(t) ==
    /\ At(t, "reqEnd")
    /\ receivers' = AfterCancel(task[t].held)
    /\ Become(t, Task("reqDelete", task[t].on, {}))
    /\ UNCHANGED <<ledgerVars, startVars, location, assets, requests, cancel, sent>>

\* (mutant: the request is cancelled and stays in the cache)
RequirementDeleteForgotten(t) ==
    /\ At(t, "reqDelete")
    /\ Finish(t)
    /\ UNCHANGED <<ledgerVars, startVars, location, assets, requests, engineVars>>

RequirementDelete(t) ==
    /\ At(t, "reqDelete")
    /\ requests' = Without(task[t].on)
    /\ Finish(t)
    /\ UNCHANGED <<ledgerVars, startVars, location, assets, engineVars>>

\* watchAssets, "inserted" and "updated": IsNearBy ...
AssetSeen(t) ==
    /\ At(t, "assetPut")
    /\ IF location \in task[t].held
       THEN Become(t, Task("assetNear", task[t].on, {}))
       ELSE Become(t, Task("assetGone", task[t].on, {}))
    /\ UNCHANGED <<ledgerVars, startVars, location, assets, requests, engineVars>>

\* ... then ExistsAssetInCache: held is the asset if it is to be reported assigned.
AssetKnown(t) ==
    /\ At(t, "assetNear")
    /\ LET a == task[t].on IN Become(t, Task("assetAssign", a, {a} \ assets))
    /\ UNCHANGED <<ledgerVars, startVars, location, assets, requests, engineVars>>

\* (mutant: an assigned asset is not reported to CacheManager)
AssetAssignSilent(t) ==
    /\ At(t, "assetAssign")
    /\ assets' = assets \cup {task[t].on}
    /\ Finish(t)
    /\ UNCHANGED <<ledgerVars, startVars, location, requests, engineVars>>

AssetAssign(t) ==
    /\ At(t, "assetAssign")
    /\ assets' = assets \cup {task[t].on}
    /\ IF task[t].held = {}
       THEN Finish(t)
       ELSE Emit(t, Idle, "cache", Task("assetsGained", task[t].on, {}))
    /\ UNCHANGED <<ledgerVars, startVars, location, requests, engineVars>>

\* watchAssets, "removed", and the fallthrough of an asset that is not nearby
AssetGone(t) ==
    /\ At(t, "assetGone")
    /\ IF task[t].on \in assets
       THEN Become(t, Task("assetUnassign", task[t].on, {}))
       ELSE Finish(t)
    /\ UNCHANGED <<ledgerVars, startVars, location, assets, requests, engineVars>>

AssetUnassign(t) ==
    /\ At(t, "assetUnassign")
    /\ assets' = assets \ {task[t].on}
    /\ Emit(t, Idle, "cache", Task("assetsLost", task[t].on, {}))
    /\ UNCHANGED <<ledgerVars, startVars, location, requests, engineVars>>

\* actOnDeviceUpdates: the event is emitted before the model is replaced.
DeviceUpdated(t) ==
    /\ At(t, "deviceUpdated")
    /\ LET next == Task("deviceStore", task[t].on, {}) IN
       IF task[t].on # location
       THEN Emit(t, next, "cache", Task("locationChanged", Nil, {}))
       ELSE Become(t, next)
    /\ UNCHANGED <<ledgerVars, startVars, location, assets, requests, engineVars>>

\* UpdateDeviceModel
DeviceStore(t) ==
    /\ At(t, "deviceStore")
    /\ location' = task[t].on
    /\ Finish(t)
    /\ UNCHANGED <<ledgerVars, startVars, assets, requests, engineVars>>

--------------------------------------------------------------------------------
(* CacheManager                                                             *)

\* AssetsChanged with a removed asset: the objects are copied out under the mutex ...
AssetsLost(t) ==
    /\ At(t, "assetsLost")
    /\ Become(t, Task("cancelLost", Nil, CachedFor({task[t].on})))
    /\ UNCHANGED <<ledgerVars, startVars, location, assets, requests, engineVars>>

\* ... then cancelled and removed one by one.
CancelLost(t) ==
    /\ At(t, "cancelLost")
    /\ \E o \in task[t].held :
          /\ receivers' = AfterCancel({o})
          /\ requests' = Without(RequestID(o))
          /\ Become(t, Task("cancelLost", Nil, task[t].held \ {o}))
    /\ UNCHANGED <<ledgerVars, startVars, location, assets, cancel, sent>>

\* The end of it: with no asset assigned ReceiveFor returns nothing and the
\* RequirementsChanged that follows is empty.
LostCancelled(t) ==
    /\ At(t, "cancelLost")
    /\ task[t].held = {}
    /\ Finish(t)
    /\ UNCHANGED <<ledgerVars, startVars, location, assets, requests, engineVars>>

\* AssetsChanged with an assigned asset: the query ...
AssetsGained(t) ==
    /\ At(t, "assetsGained")
    /\ \/ Become(t, Task("gainedStore", Nil, RequirementsFor({task[t].on})))
       \/ "queryFailure" \in Disturbances /\ Finish(t)
    /\ UNCHANGED <<ledgerVars, startVars, location, assets, requests, engineVars>>

\* ... and what is done with its answer.
GainedStore(t) ==
    /\ At(t, "gainedStore")
    /\ requests' = Stored(task[t].held, t[1])
    /\ ToEngine(t, Idle, 1, Task("requirementsChanged", Nil, task[t].held \X {t[1]}))
    /\ UNCHANGED <<ledgerVars, startVars, location, assets, engineVars>>

\* DeviceLocationChanged: GetCachedRequirementsFor is called with no asset.
LocationChanged(t) ==
    /\ At(t, "locationChanged")
    /\ receivers' = AfterCancel(CachedFor({}))
    /\ Become(t, Task("flushAssets", Nil, {}))
    /\ UNCHANGED <<ledgerVars, startVars, location, assets, requests, cancel, sent>>

\* locateAssets
FlushAssets(t) ==
    /\ At(t, "flushAssets")
    /\ assets' = {}
    /\ Become(t, Task("readLocation", Nil, {}))
    /\ UNCHANGED <<ledgerVars, startVars, location, requests, engineVars>>

ReadLocation(t) ==
    /\ At(t, "readLocation")
    /\ Become(t, Task("queryAssets", location, {}))
    /\ UNCHANGED <<ledgerVars, startVars, location, assets, requests, engineVars>>

QueryAssets(t) ==
    /\ At(t, "queryAssets")
    /\ \/ Become(t, Task("storeAssets", Nil, AssetsNear(task[t].on)))
       \/ "queryFailure" \in Disturbances /\ Become(t, Task("flushRequests", Nil, {}))
    /\ UNCHANGED <<ledgerVars, startVars, location, assets, requests, engineVars>>

StoreAssets(t) ==
    /\ At(t, "storeAssets")
    /\ assets' = assets \cup task[t].held
    /\ Become(t, Task("flushRequests", Nil, {}))
    /\ UNCHANGED <<ledgerVars, startVars, location, requests, engineVars>>

\* receiveRequirements, and the two CacheChanged events that end
\* cacheBlockchainData: one emitted, one deferred.
FlushRequests(t) ==
    /\ At(t, "flushRequests")
    /\ requests' = [r \in Requirements |-> Nil]
    /\ Become(t, Task("readAssets", Nil, {}))
    /\ UNCHANGED <<ledgerVars, startVars, location, assets, engineVars>>

\* GetCachedAssets
ReadAssets(t) ==
    /\ At(t, "readAssets")
    /\ Become(t, Task("queryRequests", Nil, assets))
    /\ UNCHANGED <<ledgerVars, startVars, location, assets, requests, engineVars>>

QueryRequests(t) ==
    /\ At(t, "queryRequests")
    /\ \/ Become(t, Task("storeRequests", Nil, RequirementsFor(task[t].held)))
       \/ "queryFailure" \in Disturbances /\ Become(t, Task("storeRequests", Nil, {}))
    /\ UNCHANGED <<ledgerVars, startVars, location, assets, requests, engineVars>>

StoreRequests(t) ==
    /\ At(t, "storeRequests")
    /\ requests' = Stored(task[t].held, t[1])
    /\ task' = IF subscribed >= 3
               THEN [task EXCEPT ![t] = Idle,
                        ![<<t[1], "engine">>] = Task("cacheChanged", Nil, {}),
                        ![<<t[1], "engineAgain">>] = Task("cacheChanged", Nil, {})]
               ELSE [task EXCEPT ![t] = Idle]
    /\ UNCHANGED <<ledgerVars, startVars, location, assets, engineVars>>

--------------------------------------------------------------------------------
(* EngineOperator                                                           *)

\* (mutant: Start runs again, and subscribes again)
SubscribeAgain ==
    /\ subscribed <= 3
    /\ subscribed' = subscribed + 1
    /\ UNCHANGED <<ledgerVars, watching, active, location, assets, requests, engineVars, task>>

\* Start subscribes to RequirementsChanged, SensorsRegisterChanged and
\* CacheChanged, in this order.
Subscribe ==
    /\ subscribed < 3
    /\ subscribed' = subscribed + 1
    /\ UNCHANGED <<ledgerVars, watching, active, location, assets, requests, engineVars, task>>

\* The end of Start: waitUntilSensorsDetected succeeded, the engine is Run.
StartRuns ==
    /\ SensorsAtStart
    /\ subscribed = 3
    /\ ~active
    /\ active' = TRUE
    /\ UNCHANGED <<ledgerVars, watching, subscribed, location, assets, requests, engineVars, task>>

\* SensorsRegisterChanged brings the first sensor to an engine that is not
\* running: Run, then actOnCachedRequests.
SensorsAppear ==
    /\ subscribed >= 2
    /\ ~active
    /\ active' = TRUE
    /\ task' = [task EXCEPT ![<<0, "start">>] = Task("cacheChanged", Nil, {})]
    /\ UNCHANGED <<ledgerVars, watching, subscribed, location, assets, requests, engineVars>>

\* The loop over the requests: its goroutine ends with the last of them.
Acting(os) == IF os = {} THEN Idle ELSE Task("act", Nil, os)

RequirementsChanged(t) ==
    /\ At(t, "requirementsChanged")
    /\ IF active THEN Become(t, Acting(task[t].held)) ELSE Finish(t)
    /\ UNCHANGED <<ledgerVars, startVars, location, assets, requests, engineVars>>

\* actOnCachedRequests: the objects are copied out under the cache's mutex.
CacheChanged(t) ==
    /\ At(t, "cacheChanged")
    /\ Become(t, Acting(CachedObjects))
    /\ UNCHANGED <<ledgerVars, startVars, location, assets, requests, engineVars>>

\* actOnRequest: IsProcessed of the next object, in the order of a map.
Act(t) ==
    /\ At(t, "act")
    /\ \E o \in task[t].held :
          IF cancel[o] # Nil
          THEN Become(t, Acting(task[t].held \ {o}))
          ELSE Become(t, Task("serve", o, task[t].held \ {o}))
    /\ UNCHANGED <<ledgerVars, startVars, location, assets, requests, engineVars>>

\* (mutant: the loop over the requests ends with a one-time request)
ServeOnceAndReturn(t) ==
    /\ At(t, "serve")
    /\ LET o == task[t].on IN
       /\ o[1] \in OneTime
       /\ active
       /\ sent' = [sent EXCEPT ![o] = @ + 1]
    /\ Finish(t)
    /\ UNCHANGED <<ledgerVars, startVars, location, assets, requests, cancel, receivers>>

\* actOnRequest, the one-time request: SendRequest waits for the engine's loop.
ServeOnce(t) ==
    /\ At(t, "serve")
    /\ LET o == task[t].on IN
       /\ o[1] \in OneTime
       /\ active
       /\ sent' = [sent EXCEPT ![o] = @ + 1]
       /\ requests' = Without(RequestID(o))
    /\ Become(t, Acting(task[t].held))
    /\ UNCHANGED <<ledgerVars, startVars, location, assets, cancel, receivers>>

\* (mutant: the cancel func of the receiver is dropped)
ServePeriodicUncancellable(t) ==
    /\ At(t, "serve")
    /\ task[t].on[1] \notin OneTime
    /\ receivers' = receivers \cup {<<task[t].on, t>>}
    /\ Become(t, Acting(task[t].held))
    /\ UNCHANGED <<ledgerVars, startVars, location, assets, requests, cancel, sent>>

\* actOnRequest, the periodic request: SubscribeReceiver and SetCancel.
ServePeriodic(t) ==
    /\ At(t, "serve")
    /\ LET o == task[t].on IN
       /\ o[1] \notin OneTime
       /\ receivers' = receivers \cup {<<o, t>>}
       /\ cancel' = [cancel EXCEPT ![o] = t]
    /\ Become(t, Acting(task[t].held))
    /\ UNCHANGED <<ledgerVars, startVars, location, assets, requests, sent>>

--------------------------------------------------------------------------------

Ledger ==
    \/ \E r \in Requirements : SubmitRequirement(r) \/ RevokeRequirement(r)
    \/ \E a \in Assets : RemoveAsset(a) \/ \E p \in Places : PlaceAsset(a, p)
    \/ \E p \in Places : RelocateDevice(p)

Observer(t) ==
    \/ RequirementCheck(t) \/ RequirementGet(t) \/ RequirementCancel(t) \/ RequirementStore(t)
    \/ RequirementGone(t) \/ RequirementEnd(t) \/ RequirementDelete(t)
    \/ AssetSeen(t) \/ AssetKnown(t) \/ AssetAssign(t)
    \/ AssetGone(t) \/ AssetUnassign(t)
    \/ DeviceUpdated(t) \/ DeviceStore(t)

Cache(t) ==
    \/ AssetsLost(t) \/ CancelLost(t) \/ LostCancelled(t)
    \/ AssetsGained(t) \/ GainedStore(t) \/ LocationChanged(t)
    \/ FlushAssets(t) \/ ReadLocation(t) \/ QueryAssets(t) \/ StoreAssets(t)
    \/ FlushRequests(t) \/ ReadAssets(t) \/ QueryRequests(t) \/ StoreRequests(t)

Engine(t) ==
    \/ RequirementsChanged(t) \/ CacheChanged(t) \/ Act(t)
    \/ ServeOnce(t) \/ ServePeriodic(t)

Goroutine(t) == Observer(t) \/ Cache(t) \/ Engine(t)

Next ==
    \/ Ledger
    \/ \E topic \in Topics : Watch(topic)
    \/ Subscribe \/ StartRuns \/ SensorsAppear
    \/ \E t \in Tasks : Goroutine(t)

Spec == Init /\ [][Next]_vars

\* Go runs every goroutine that can run; nothing makes the ledger change or a
\* sensor appear.
FairSpec ==
    /\ Spec
    /\ \A t \in Tasks : WF_vars(Goroutine(t))

--------------------------------------------------------------------------------
(* Properties.                                                              *)

Quiet == \A t \in Tasks : At(t, "idle")

\* The objects that are cached, periodic and that no receiver serves.
Unserved == {o \in CachedObjects : o[1] \notin OneTime /\ cancel[o] = Nil}

\* t is going to act on o: o is in its hands, or it is going to read the cache.
WillActOn(t, o) ==
    \/ task[t].pc \in {"requirementsChanged", "act", "serve"} /\ o \in task[t].held
    \/ At(t, "serve") /\ o = task[t].on
    \/ At(t, "cacheChanged")

\* Once the engine runs no cached request is forgotten: some goroutine of
\* EngineOperator is still going to act on each one that is not processed,
\* whatever flushes, stores and overwrites happen around it.
NoForgottenRequest == active => \A o \in Unserved : \E t \in Tasks : WillActOn(t, o)

\* A request that counts as processed is never subscribed again, so while it is
\* cached its receiver must be running; else the requirement is dead without
\* anyone knowing.  The one exception is passing: a handler of EventsObserver
\* that cancelled it is about to displace it.  Claimed as long as no asset is
\* taken for lost: the requests cancelled then (CancelLost) stay in the cache.
CachedRequestAlive ==
    \A o \in CachedObjects :
        cancel[o] # Nil =>
            \/ <<o, cancel[o]>> \in receivers
            \/ \E t \in Tasks : task[t].pc \in {"reqStore", "reqDelete"} /\ task[t].on = o[1]

\* The first as a promise: a cached periodic request of a running engine is
\* subscribed by SetCancel, or displaced from the cache.
RequestActedOn ==
    \A o \in Objects : (active /\ o \in Unserved) ~> (o \notin Unserved)

\* The purpose of the whole pipeline: once every goroutine is done, each
\* periodic requirement in force for an asset at the device's place has a
\* receiver that was not cancelled, and that receiver is the one of the object
\* in the cache, which a later change of the requirement will cancel.
SettledServed ==
    (Quiet /\ active) =>
        \A r \in ledgerReqs \ OneTime :
            placeOf[AssetOf[r]] = location =>
                /\ requests[r] # Nil
                /\ <<requests[r], cancel[requests[r]]>> \in receivers

================================================================================
