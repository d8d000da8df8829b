------------------------------- MODULE Lifecycle -------------------------------
(***************************************************************************)
(* The life of the device: boot, login or registration, the start of the   *)
(* modules that wait for the login, the copy of its ledger record that the *)
(* device keeps (Device.state), its removal from the ledger, shutdown and  *)
(* crash.  Of the ledger record only State is kept: an update of location, *)
(* battery or metrics is one that leaves State alone.                      *)
(*                                                                         *)
(* Goroutines are those of LifecycleManager.Start, of each "inserted"      *)
(* event it answers, of each call of a module's Start, of each login that  *)
(* is delivered to a module, of each "updated" event the observer answers, *)
(* and the one that shuts the device down.                                 *)
(***************************************************************************)
EXTENDS Naturals

CONSTANTS
    Ids,           \* what the ledger may call the device
    Modules,       \* the modules that wait for the login
    Observer,      \* the one of them that watches the device on the ledger
    Attempts,      \* how often waitUntilDeviceLogged looks
    MaxBoots,      \* bound on the starts of the process
    MaxReports,    \* bound on updates that leave State alone
    Scenarios,     \* what may happen besides, together in one behaviour
    Nil

Absent == "absent"     \* a file that does not exist
Blank  == "blank"      \* a file that was created and not written
Gone   == "gone"       \* a device that was on the ledger

States  == {"online", "offline"}
Records == [id : Ids, state : States]

Disturbances == {"crash", "restart", "removal", "failure", "shutdown", "timeout", "twice"}

ASSUME LifecycleAssumption ==
    /\ Observer \in Modules
    /\ Attempts \in Nat \ {0}
    /\ MaxBoots \in Nat
    /\ MaxReports \in Nat
    /\ Scenarios \subseteq SUBSET Disturbances
    /\ Nil \notin Ids \cup States \cup {Gone}
    /\ Nil \notin Records

VARIABLES
    scenario,   \* what may happen in this behaviour
    power,      \* the process: off, on, closing, or gone (shut down)
    boots, reports,
    ledger,     \* State of each device on the ledger, Nil: not there yet
    file,       \* the identity file
    copy,       \* Device.state: id and State, Nil: not logged in
    life,       \* where LifecycleManager.Start is, and the record it retrieved
    handler,    \* where the answer to the "inserted" event of a device is
    module,     \* where the body of a module's Do is
    looks,      \* how often it still looks
    once,       \* the module's Once: nobody has done it yet, or somebody has
    starting,   \* goroutines of Start that have not come to Do
    subscription,  \* to DeviceLoggedOnNetwork: there is no cancel for it yet, or there is
    calls,      \* deliveries of DeviceLoggedOnNetwork it has still to handle
    called,     \* modules whose handler has called Start and not cancelled yet
    starts,     \* how often it went past trySyncWithDeviceLifecycle
    news,       \* the records in "updated" events that are being handled
    hearsReset, \* DeviceRemovedFromNetwork is subscribed to ...
    resets,     \* ... and being handled
    bye         \* how notifyOff went

moduleVars == <<module, looks, once, starting, subscription, calls, called, starts>>
doVars     == <<once, starting, subscription, called, starts>>
lifeVars   == <<life, handler, hearsReset>>
vars == <<scenario, power, boots, reports, ledger, file, copy, lifeVars, moduleVars, news, resets, bye>>

LifePCs == {"off", "check", "retrieve", "logIn", "announce", "specs", "specsCopy", "register",
            "listen", "done", "failed"}
HandlerPCs == {"none", "create", "write", "logIn", "announce", "specs", "specsCopy", "done"}

TypeOK ==
    /\ scenario \in Scenarios
    /\ power \in {"off", "on", "closing", "gone"}
    /\ boots \in 0..MaxBoots
    /\ reports \in 0..MaxReports
    /\ ledger \in [Ids -> States \cup {Nil, Gone}]
    /\ file \in Ids \cup {Absent, Blank}
    /\ copy \in Records \cup {Nil}
    /\ life \in [pc : LifePCs, held : Records \cup {Nil}]
    /\ handler \in [Ids -> HandlerPCs]
    /\ module \in [Modules -> {"off", "look", "subscribe", "wait", "running"}]
    /\ looks \in [Modules -> 0..Attempts]
    /\ once \in [Modules -> {"fresh", "spent"}]
    /\ starting \in [Modules -> Nat]
    /\ subscription \in [Modules -> {"none", "unnamed", "named"}]
    /\ calls \in [Modules -> Nat]
    /\ called \subseteq Modules
    /\ starts \in [Modules -> Nat]
    /\ news \subseteq Records
    /\ hearsReset \in BOOLEAN
    /\ resets \in BOOLEAN
    /\ bye \in {"none", "unlogged", "conflict", "telling", "told", "failed"}

\* What a process starts with: everything but the file and the ledger is lost.
\* Each module's first Once is being done, by the registry's Start.
Fresh(at) ==
    /\ life' = [pc |-> at, held |-> Nil]
    /\ handler' = [i \in Ids |-> "none"]
    /\ module' = [m \in Modules |-> IF at = "off" THEN "off" ELSE "look"]
    /\ looks' = [m \in Modules |-> Attempts]
    /\ once' = [m \in Modules |-> "spent"]
    /\ starting' = [m \in Modules |-> 0]
    /\ subscription' = [m \in Modules |-> "none"]
    /\ calls' = [m \in Modules |-> 0]
    /\ called' = {}
    /\ starts' = [m \in Modules |-> 0]
    /\ copy' = Nil
    /\ news' = {}
    /\ hearsReset' = FALSE
    /\ resets' = FALSE

Init ==
    /\ scenario \in Scenarios
    /\ power = "off"
    /\ boots = 0
    /\ reports = 0
    /\ file \in Ids \cup {Absent}
    /\ ledger \in [Ids -> {"offline", Nil}]
    /\ copy = Nil
    /\ life = [pc |-> "off", held |-> Nil]
    /\ handler = [i \in Ids |-> "none"]
    /\ module = [m \in Modules |-> "off"]
    /\ looks = [m \in Modules |-> Attempts]
    /\ once = [m \in Modules |-> "spent"]
    /\ starting = [m \in Modules |-> 0]
    /\ subscription = [m \in Modules |-> "none"]
    /\ calls = [m \in Modules |-> 0]
    /\ called = {}
    /\ starts = [m \in Modules |-> 0]
    /\ news = {}
    /\ hearsReset = FALSE
    /\ resets = FALSE
    /\ bye = "none"

--------------------------------------------------------------------------------
(* The process.  main, Device.Start and the registry start every module, in *)
(* a goroutine of its own.                                                  *)

Boot ==
    /\ power \in {"off", "gone"}
    /\ boots = 0 \/ "restart" \in scenario
    /\ boots < MaxBoots
    /\ power' = "on"
    /\ boots' = boots + 1
    /\ bye' = "none"
    /\ Fresh("check")
    /\ UNCHANGED <<scenario, reports, ledger, file>>

Running == power \in {"on", "closing"}
Logged  == copy # Nil

Dies ==
    /\ power' = "off"
    /\ bye' = "none"
    /\ Fresh("off")
    /\ UNCHANGED <<scenario, boots, reports, ledger, file>>

Crash == "crash" \in scenario /\ Running /\ Dies

--------------------------------------------------------------------------------
(* The ledger, and what EventsObserver makes of its events.                 *)

Present(i) == ledger[i] \in States

\* The record of i has changed; a running observer hears of it.
Publish(i, s) ==
    /\ ledger' = [ledger EXCEPT ![i] = s]
    /\ news' = IF module[Observer] = "running" THEN news \cup {[id |-> i, state |-> s]} ELSE news

\* The owner registers the device he sees the code of, which is shown before
\* the device listens; an event nobody listens for is lost.
Insert(i) ==
    /\ Running /\ life.pc \in {"register", "listen"}
    /\ ledger[i] = Nil
    /\ "twice" \in scenario \/ \A j \in Ids : handler[j] = "none"
    /\ ledger' = [ledger EXCEPT ![i] = "offline"]
    /\ handler' = IF life.pc = "listen" THEN [handler EXCEPT ![i] = "create"] ELSE handler
    /\ UNCHANGED <<scenario, power, boots, reports, file, copy, life, hearsReset, moduleVars, news, resets, bye>>

\* watchDevice, "removed": DeviceRemovedFromNetwork is lost unless subscribed to.
Remove(i) ==
    /\ "removal" \in scenario
    /\ Present(i)
    /\ ledger' = [ledger EXCEPT ![i] = Gone]
    /\ resets' = (resets \/ (module[Observer] = "running" /\ Logged /\ copy.id = i /\ hearsReset))
    /\ UNCHANGED <<scenario, power, boots, reports, file, copy, lifeVars, moduleVars, news, bye>>

\* SetBattery, SetLocation, updateSupportedMetrics, or an edit by the owner:
\* what it sets besides State is not kept, neither here nor by req.Update.
Report(i) ==
    /\ Running /\ Logged /\ copy.id = i
    /\ reports < MaxReports
    /\ Present(i)
    /\ reports' = reports + 1
    /\ Publish(i, ledger[i])
    /\ UNCHANGED <<scenario, power, boots, file, copy, lifeVars, moduleVars, resets, bye>>

\* watchDevice, "updated": UpdateDeviceModel with the record of the event,
\* however long ago that was.
Apply(r) ==
    /\ Running
    /\ r \in news
    /\ news' = news \ {r}
    /\ copy' = IF Logged /\ copy.id = r.id THEN r ELSE copy
    /\ UNCHANGED <<scenario, power, boots, reports, ledger, file, lifeVars, moduleVars, resets, bye>>

\* resetDevice: os.Remove of a file that is not there fails, and that is all.
Reset ==
    /\ Running /\ resets
    /\ resets' = FALSE
    /\ file' = Absent
    /\ UNCHANGED <<scenario, power, boots, reports, ledger, copy, lifeVars, moduleVars, news, bye>>

--------------------------------------------------------------------------------
(* LifecycleManager.Start                                                   *)

LifeGoes(from, to, held) ==
    /\ life.pc = from
    /\ life' = [pc |-> to, held |-> held]

\* isRegistered: a file that is there will do, even a blank one.
Check ==
    /\ LifeGoes("check", IF file = Absent THEN "register" ELSE "retrieve", Nil)
    /\ UNCHANGED <<ledger, file, copy, handler, hearsReset, calls, news>>

Retrieve ==
    /\ IF file \in Ids /\ ledger[file] \in States
       THEN LifeGoes("retrieve", "logIn", [id |-> file, state |-> ledger[file]])
       ELSE LifeGoes("retrieve", "register", Nil)
    /\ UNCHANGED <<ledger, file, copy, handler, hearsReset, calls, news>>

\* An error is not told from a device that is gone.
RetrieveFails ==
    /\ "failure" \in scenario
    /\ LifeGoes("retrieve", "register", Nil)
    /\ UNCHANGED <<ledger, file, copy, handler, hearsReset, calls, news>>

LogIn ==
    /\ LifeGoes("logIn", "announce", Nil)
    /\ copy' = life.held
    /\ UNCHANGED <<ledger, file, handler, hearsReset, calls, news>>

\* EmitEvent of DeviceLoggedOnNetwork: for the modules that have subscribed.
Announced == [m \in Modules |-> IF subscription[m] = "none" THEN calls[m] ELSE calls[m] + 1]

Announce ==
    /\ LifeGoes("announce", "specs", Nil)
    /\ calls' = Announced
    /\ UNCHANGED <<ledger, file, copy, handler, hearsReset, news>>

\* SetSpecs: the ledger first, then the copy, whichever it is by then.
Online == [copy EXCEPT !.state = "online"]

SetSpecs ==
    /\ LifeGoes("specs", "specsCopy", Nil)
    /\ Present(copy.id)
    /\ Publish(copy.id, "online")
    /\ UNCHANGED <<file, copy, handler, hearsReset, calls>>

SpecsCopy ==
    /\ LifeGoes("specsCopy", "done", Nil)
    /\ copy' = Online
    /\ hearsReset' = TRUE
    /\ UNCHANGED <<ledger, file, handler, calls, news>>

\* discoverDeviceSpecs fails: the login goes without specs, a registration is off.
NoSpecs ==
    /\ "failure" \in scenario
    /\ LifeGoes("specs", "done", Nil) \/ LifeGoes("register", "failed", Nil)
    /\ hearsReset' = TRUE
    /\ UNCHANGED <<ledger, file, copy, handler, calls, news>>

\* proceedToDeviceRegistration listens until the device is inserted or its
\* time is over, and the subscription to removals comes after that.
Listen ==
    /\ LifeGoes("register", "listen", Nil)
    /\ UNCHANGED <<ledger, file, copy, handler, hearsReset, calls, news>>

StopListening ==
    /\ \/ \E i \in Ids : handler[i] = "done"
       \/ "timeout" \in scenario
       \/ power = "closing"
    /\ LifeGoes("listen", IF \E i \in Ids : handler[i] = "done" THEN "done" ELSE "failed", Nil)
    /\ hearsReset' = TRUE
    /\ UNCHANGED <<ledger, file, copy, handler, calls, news>>

LifeStep ==
    /\ Running
    /\ \/ Check \/ Retrieve \/ RetrieveFails \/ LogIn \/ Announce \/ SetSpecs \/ SpecsCopy
       \/ NoSpecs \/ Listen \/ StopListening
    /\ UNCHANGED <<scenario, power, boots, reports, module, looks, doVars, resets, bye>>

--------------------------------------------------------------------------------
(* The answer to "inserted" of device i.                                    *)

HandlerGoes(i, from, to) ==
    /\ handler[i] = from
    /\ handler' = [handler EXCEPT ![i] = to]

\* (mutant: UpdateDeviceModel comes before storeIdentity)
CreateFileLate(i) ==
    /\ HandlerGoes(i, "create", "write")
    /\ copy' = [id |-> i, state |-> "offline"]
    /\ file' = Blank
    /\ UNCHANGED <<ledger, calls, news>>

\* storeIdentity: the file is created, and written after that.
CreateFile(i) ==
    /\ HandlerGoes(i, "create", "write")
    /\ file' = Blank
    /\ UNCHANGED <<ledger, copy, calls, news>>

WriteFile(i) ==
    /\ HandlerGoes(i, "write", "logIn")
    /\ file' = i
    /\ UNCHANGED <<ledger, copy, calls, news>>

InsertedLogIn(i) ==
    /\ HandlerGoes(i, "logIn", "announce")
    /\ copy' = [id |-> i, state |-> "offline"]
    /\ UNCHANGED <<ledger, file, calls, news>>

InsertedAnnounce(i) ==
    /\ HandlerGoes(i, "announce", "specs")
    /\ calls' = Announced
    /\ UNCHANGED <<ledger, file, copy, news>>

InsertedSpecs(i) ==
    /\ HandlerGoes(i, "specs", "specsCopy")
    /\ Present(copy.id)
    /\ Publish(copy.id, "online")
    /\ UNCHANGED <<file, copy, calls>>

InsertedSpecsCopy(i) ==
    /\ HandlerGoes(i, "specsCopy", "done")
    /\ copy' = Online
    /\ UNCHANGED <<ledger, file, calls, news>>

HandlerStep(i) ==
    /\ Running
    /\ \/ CreateFile(i) \/ WriteFile(i) \/ InsertedLogIn(i) \/ InsertedAnnounce(i)
       \/ InsertedSpecs(i) \/ InsertedSpecsCopy(i)
    /\ UNCHANGED <<scenario, power, boots, reports, life, hearsReset, module, looks, doVars, resets, bye>>

\* shared.MustExecute: a SetSpecs that fails ends the program, be it for want of
\* sensors or of an answer of the ledger.
SpecsFail ==
    /\ Running
    /\ life.pc = "specs" \/ \E i \in Ids : handler[i] = "specs"
    /\ "failure" \in scenario \/ ~Present(copy.id)
    /\ Dies

--------------------------------------------------------------------------------
(* moduleBase: Start of a module that waits for the login.                  *)

ModuleGoes(m, from, to) ==
    /\ module[m] = from
    /\ module' = [module EXCEPT ![m] = to]

\* waitUntilDeviceLogged
LookLogged(m) ==
    /\ looks[m] > 0
    /\ Logged
    /\ ModuleGoes(m, "look", "running")
    /\ starts' = [starts EXCEPT ![m] = @ + 1]
    /\ UNCHANGED <<looks, once, starting, subscription, calls, called>>

\* (mutant: for attempts >= 0)
LookOnceMore(m) ==
    /\ ~Logged
    /\ ModuleGoes(m, "look", "look")
    /\ looks' = [looks EXCEPT ![m] = @ - 1]
    /\ UNCHANGED <<calls, doVars>>

LookAgain(m) ==
    /\ looks[m] > 0
    /\ ~Logged
    /\ ModuleGoes(m, "look", "look")
    /\ looks' = [looks EXCEPT ![m] = @ - 1]
    /\ UNCHANGED <<calls, doVars>>

\* The last look was half a second ago ...
LookOver(m) ==
    /\ looks[m] = 0
    /\ ModuleGoes(m, "look", "subscribe")
    /\ UNCHANGED <<looks, calls, doVars>>

\* (mutant: the Once that is spent is not replaced)
SubscribeSpent(m) ==
    /\ ModuleGoes(m, "subscribe", "wait")
    /\ subscription' = [subscription EXCEPT ![m] = "unnamed"]
    /\ UNCHANGED <<looks, once, starting, calls, called, starts>>

\* ... before the module, with a new Once, subscribes to the login.
Subscribe(m) ==
    /\ ModuleGoes(m, "subscribe", "wait")
    /\ once' = [once EXCEPT ![m] = "fresh"]
    /\ subscription' = [subscription EXCEPT ![m] = "unnamed"]
    /\ UNCHANGED <<looks, starting, calls, called, starts>>

\* cancel is what SubscribeHandler returns.
NameCancel(m) ==
    /\ subscription[m] = "unnamed"
    /\ subscription' = [subscription EXCEPT ![m] = "named"]
    /\ UNCHANGED <<module, looks, once, starting, calls, called, starts>>

\* (mutant: it is the handler that replaces the Once)
PostponedAfresh(m) ==
    /\ calls[m] > 0
    /\ calls' = [calls EXCEPT ![m] = @ - 1]
    /\ called' = called \cup {m}
    /\ starting' = [starting EXCEPT ![m] = @ + 1]
    /\ once' = [once EXCEPT ![m] = "fresh"]
    /\ UNCHANGED <<module, looks, subscription, starts>>

\* postponedStart, in the handler of a login: Start, whose goroutine has yet to
\* come to Do.
Postponed(m) ==
    /\ calls[m] > 0
    /\ calls' = [calls EXCEPT ![m] = @ - 1]
    /\ called' = called \cup {m}
    /\ starting' = [starting EXCEPT ![m] = @ + 1]
    /\ UNCHANGED <<module, looks, once, subscription, starts>>

\* Another login may have been delivered by now.
CancelLogin(m) ==
    /\ m \in called /\ subscription[m] # "unnamed"
    /\ called' = called \ {m}
    /\ subscription' = [subscription EXCEPT ![m] = "none"]
    /\ UNCHANGED <<module, looks, once, starting, calls, starts>>

\* Whoever is first does the Once; it looks for the login like the first Start.
Do(m) ==
    /\ starting[m] > 0
    /\ starting' = [starting EXCEPT ![m] = @ - 1]
    /\ once' = [once EXCEPT ![m] = "spent"]
    /\ \/ /\ once[m] = "fresh"
          /\ module' = [module EXCEPT ![m] = "look"]
          /\ looks' = [looks EXCEPT ![m] = Attempts]
       \/ once[m] = "spent" /\ UNCHANGED <<module, looks>>
    /\ UNCHANGED <<subscription, calls, called, starts>>

ModuleStep(m) ==
    /\ Running
    /\ \/ LookLogged(m) \/ LookAgain(m) \/ LookOver(m)
       \/ Subscribe(m) \/ NameCancel(m) \/ Postponed(m) \/ CancelLogin(m) \/ Do(m)
    /\ UNCHANGED <<scenario, power, boots, reports, ledger, file, copy, lifeVars, news, resets, bye>>

\* A handler that is quicker than the assignment of cancel calls nil.
CancelNil ==
    /\ Running
    /\ \E m \in called : subscription[m] = "unnamed"
    /\ Dies

--------------------------------------------------------------------------------
(* main's shutdown: Device.Close closes the LifecycleManager, which tells   *)
(* the ledger, and then the other modules, which then have no Device.       *)

Close ==
    /\ "shutdown" \in scenario
    /\ power = "on"
    /\ power' = "closing"
    /\ UNCHANGED <<ledger, copy, news, bye>>

\* SetState does not ask the ledger when the copy says offline.
NotifyOff ==
    /\ power = "closing" /\ bye = "none"
    /\ bye' = IF ~Logged THEN "unlogged" ELSE IF copy.state = "offline" THEN "conflict" ELSE "telling"
    /\ UNCHANGED <<power, ledger, copy, news>>

Tell ==
    /\ power = "closing" /\ bye = "telling"
    /\ \/ /\ Present(copy.id)
          /\ Publish(copy.id, "offline")
          /\ copy' = [copy EXCEPT !.state = "offline"]
          /\ bye' = "told"
       \/ /\ "failure" \in scenario \/ ~Present(copy.id)
          /\ bye' = "failed"
          /\ UNCHANGED <<ledger, copy, news>>
    /\ UNCHANGED power

Exit ==
    /\ power = "closing" /\ bye \notin {"none", "telling"}
    /\ power' = "gone"
    /\ UNCHANGED <<ledger, copy, news, bye>>

ShutdownStep ==
    /\ Close \/ NotifyOff \/ Tell \/ Exit
    /\ UNCHANGED <<scenario, boots, reports, file, lifeVars, moduleVars, resets>>

\* A module that still looks for the login when it is closed has no Device to
\* ask: the program panics.
Panic ==
    /\ power = "closing" /\ bye \notin {"none", "telling"}
    /\ \E m \in Modules : module[m] = "look" /\ looks[m] > 0
    /\ Dies

--------------------------------------------------------------------------------
Next ==
    \/ Boot \/ Crash \/ SpecsFail \/ CancelNil \/ Panic \/ Reset
    \/ LifeStep \/ ShutdownStep
    \/ \E i \in Ids : Insert(i) \/ Remove(i) \/ Report(i) \/ HandlerStep(i)
    \/ \E r \in Records : Apply(r)
    \/ \E m \in Modules : ModuleStep(m)

Spec == Init /\ [][Next]_vars

\* Goroutines run; nothing makes an owner register a device or a ledger answer.
FairSpec ==
    /\ Spec
    /\ WF_vars(LifeStep)
    /\ \A i \in Ids : WF_vars(HandlerStep(i))
    /\ \A m \in Modules : WF_vars(ModuleStep(m))

--------------------------------------------------------------------------------
\* A module is started at most once, though its Once is replaced, the login is
\* announced by whoever logs in, and each login that is delivered before the
\* subscription is cancelled calls Start.
StartsOnce == \A m \in Modules : starts[m] <= 1

\* Nobody has answered two registrations at a time.
AnsweredOnce == \A i, j \in Ids : handler[i] # "none" /\ handler[j] # "none" => i = j

\* What the device is logged in as is what it will log in as after a crash,
\* unless it was removed: the identity is on disk before the device uses it.
KnowsItself == Logged /\ file # Absent /\ AnsweredOnce => file = copy.id

Heard(m) == (module[m] = "look" /\ looks[m] > 0) \/ calls[m] > 0 \/ starting[m] > 0

\* A module that still looks when the device is logged in, or to which the login
\* was delivered, is started, unless the process ends.
LoginHeard ==
    \A m \in Modules :
        power = "on" /\ Logged /\ Heard(m) ~> module[m] = "running" \/ power # "on"

================================================================================
