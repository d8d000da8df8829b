-------------------------------- MODULE Hotswap --------------------------------
(***************************************************************************)
(* Sensors that are plugged in and out while the device runs.              *)
(* HotswapDetector scans the I2C buses again and again, compares what it   *)
(* found with the sensors of the Device and tells of the difference, first *)
(* by an event and then by changing the Device; EngineOperator, which      *)
(* subscribes to that event if it sees or hears of the login, registers    *)
(* the sensors with its engine and runs the engine once there are any;     *)
(* what the device can measure is put on the ledger by the login and by    *)
(* every change.                                                           *)
(*                                                                         *)
(* An event is handled later, in a goroutine of its own, if EngineOperator *)
(* had subscribed when it was emitted.  Sensors are what LocateI2CSensor   *)
(* finds at an address of a bus.                                           *)
(***************************************************************************)
EXTENDS Naturals, FiniteSets

CONSTANTS
    Sensors, Metrics, MetricsOf,
    Buses, BusOf,  \* the I2C bus of every sensor
    Attempts,      \* how often waitUntilSensorsDetected looks
    MaxEvents,     \* bound on the events that are being handled
    MaxSwaps,      \* bound on the sensors plugged in or out and the scans gone wrong
    Disturbances   \* what may happen besides

ASSUME HotswapAssumption ==
    /\ MetricsOf \in [Sensors -> SUBSET Metrics]
    /\ BusOf \in [Sensors -> Buses]
    /\ Attempts \in Nat \ {0}
    /\ MaxEvents \in Nat
    /\ MaxSwaps \in Nat
    /\ Disturbances \subseteq {"scanTimeout", "mapRace", "failure"}

VARIABLES
    plugged,    \* the sensors on the buses
    swaps,
    detector,   \* where HotswapDetector is
    unprobed,   \* addresses the scan has still to probe, by their sensors
    detected, added, removed,
    missed,     \* sensors whose change crossed the start of EngineOperator: history
    sensors,    \* Device.sensors
    login,      \* where LifecycleManager is, and the sensors it discovered
    supports,   \* the metrics the ledger has for the device
    operator,   \* where EngineOperator.Start is, the looks for sensors left, the list it took
    event,      \* the handler of each SensorsRegisterChanged
    engine,     \* SensorsReader.sensors
    active,     \* SensorsReader.active
    fatal       \* the runtime met a map that is ranged over and written

scanVars   == <<detector, unprobed, detected, added, removed>>
engineVars == <<engine, active>>
vars == <<plugged, swaps, scanVars, missed, sensors, login, supports, operator, event, engineVars, fatal>>

Events == 1..MaxEvents

TypeOK ==
    /\ plugged \subseteq Sensors
    /\ swaps \in 0..MaxSwaps
    /\ detector \in {"rest", "scan", "compare", "update", "report"}
    /\ unprobed \subseteq Sensors
    /\ detected \subseteq Sensors
    /\ added \subseteq Sensors
    /\ removed \subseteq Sensors \ added
    /\ missed \subseteq Sensors
    /\ sensors \subseteq Sensors
    /\ login \in [pc : {"out", "registering", "logged", "telling", "done"},
                  specs : SUBSET Sensors]
    /\ supports \subseteq Metrics
    /\ operator \in [pc : {"poll", "subscribe", "await", "look", "list", "register", "done"},
                     looks : 0..Attempts, list : SUBSET Sensors]
    /\ event \in [Events -> [pc : {"none", "change", "run"},
                             added : SUBSET Sensors, removed : SUBSET Sensors]]
    /\ engine \subseteq Sensors
    /\ active \in BOOLEAN
    /\ fatal \in BOOLEAN

NoEvent == [pc |-> "none", added |-> {}, removed |-> {}]

Init ==
    /\ plugged \in SUBSET Sensors
    /\ swaps = 0
    /\ detector = "rest"
    /\ unprobed = {}
    /\ detected = {}
    /\ added = {}
    /\ removed = {}
    /\ missed = {}
    /\ sensors = {}
    /\ login = [pc |-> "out", specs |-> {}]
    /\ supports = {}
    /\ operator = [pc |-> "poll", looks |-> Attempts, list |-> {}]
    /\ event = [n \in Events |-> NoEvent]
    /\ engine = {}
    /\ active = FALSE
    /\ fatal = FALSE

Pending == {n \in Events : event[n] # NoEvent}

OnBus(b) == {s \in Sensors : BusOf[s] = b}

\* EngineOperator has not subscribed to the changes yet, and may never do.
Unheard == operator.pc \in {"poll", "subscribe", "await"}

--------------------------------------------------------------------------------
(* HotswapDetector                                                          *)

Swap(s) ==
    /\ swaps < MaxSwaps
    /\ swaps' = swaps + 1
    /\ plugged' = IF s \in plugged THEN plugged \ {s} ELSE plugged \cup {s}
    /\ UNCHANGED <<scanVars, missed, sensors, login, supports, operator, event, engineVars, fatal>>

DetectorGoes(from, to) ==
    /\ detector = from
    /\ detector' = to

\* After device.hotswap_detect_interval, which is three seconds: the handlers of
\* the last change, which wait for nothing, are taken to be done.
StartScan ==
    /\ Pending = {}
    /\ DetectorGoes("rest", "scan")
    /\ unprobed' = Sensors
    /\ detected' = {}
    /\ UNCHANGED <<added, removed, missed, sensors, event, supports, swaps>>

\* ScanI2C: an address answers and a sensor is located there, or not.
Probe(s) ==
    /\ DetectorGoes("scan", "scan")
    /\ s \in unprobed
    /\ unprobed' = unprobed \ {s}
    /\ detected' = detected \cup ({s} \cap plugged)
    /\ UNCHANGED <<added, removed, missed, sensors, event, supports, swaps>>

\* A bus that cannot be opened, or whose time (device.i2c_scan_timeout) is over
\* when some address has answered: what was not probed on it is not there.
ScanTimeout(b) ==
    /\ "scanTimeout" \in Disturbances
    /\ DetectorGoes("scan", "scan")
    /\ unprobed \cap OnBus(b) # {}
    /\ swaps < MaxSwaps /\ swaps' = swaps + 1
    /\ unprobed' = unprobed \ OnBus(b)
    /\ UNCHANGED <<detected, added, removed, missed, sensors, event, supports>>

\* The goroutine of the bus is about to write to the map of all buses: when the
\* bus was opened, and for every sensor that is located.
AboutToWrite(b) ==
    \E s \in OnBus(b) \cap unprobed : s \in plugged \/ OnBus(b) \subseteq unprobed

ScansWrite(b) == \E other \in Buses \ {b} : AboutToWrite(b) /\ AboutToWrite(other)

\* Two of them write at once, nobody notices, and what one located is lost.
LostWrite(s) ==
    /\ "mapRace" \in Disturbances
    /\ DetectorGoes("scan", "scan")
    /\ s \in unprobed /\ ScansWrite(BusOf[s])
    /\ swaps < MaxSwaps /\ swaps' = swaps + 1
    /\ unprobed' = unprobed \ {s}
    /\ UNCHANGED <<detected, added, removed, missed, sensors, event, supports>>

ScanOver ==
    /\ DetectorGoes("scan", "compare")
    /\ unprobed = {}
    /\ UNCHANGED <<unprobed, detected, added, removed, missed, sensors, event, supports, swaps>>

\* EmitEvent: lost on an operator that has not subscribed.
Emit(plus, minus) ==
    IF Unheard
    THEN UNCHANGED event
    ELSE \E n \in Events :
             /\ event[n] = NoEvent
             /\ event' = [event EXCEPT ![n] = [pc |-> "change", added |-> plus, removed |-> minus]]

\* handleHotswap: the difference is emitted before the Device has it.
Compare ==
    LET plus  == detected \ sensors
        minus == sensors \ detected
    IN  /\ detector = "compare"
        /\ IF plus = {} /\ minus = {}
           THEN detector' = "rest" /\ UNCHANGED <<added, removed, event>>
           ELSE /\ detector' = "update"
                /\ added' = plus
                /\ removed' = minus
                /\ Emit(plus, minus)
        /\ missed' = IF operator.pc = "register" THEN missed \cup plus \cup minus ELSE missed
        /\ UNCHANGED <<unprobed, detected, sensors, supports, swaps>>

Logged == login.pc \in {"logged", "telling", "done"}

\* (mutant: sensors that are gone stay registered)
UpdateAdds ==
    /\ DetectorGoes("update", IF Logged THEN "report" ELSE "rest")
    /\ sensors' = sensors \cup added
    /\ UNCHANGED <<unprobed, detected, added, removed, missed, event, supports, swaps>>

\* UpdateSensorsRegister
Update ==
    /\ DetectorGoes("update", IF Logged THEN "report" ELSE "rest")
    /\ sensors' = (sensors \cup added) \ removed
    /\ UNCHANGED <<unprobed, detected, added, removed, missed, event, supports, swaps>>

\* SupportedMetrics
MetricsOfAll(register) == UNION {MetricsOf[s] : s \in register}

\* updateSupportedMetrics: an error of the ledger is logged.
Report ==
    /\ DetectorGoes("report", "rest")
    /\ \/ supports' = MetricsOfAll(sensors)
       \/ "failure" \in Disturbances /\ UNCHANGED supports
    /\ UNCHANGED <<unprobed, detected, added, removed, missed, sensors, event, swaps>>

ScanStep ==
    \/ StartScan \/ ScanOver
    \/ \E s \in Sensors : Probe(s) \/ LostWrite(s)
    \/ \E b \in Buses : ScanTimeout(b)

DetectorStep ==
    /\ ~fatal
    /\ ScanStep \/ Compare \/ Update \/ Report
    /\ UNCHANGED <<plugged, login, operator, engineVars, fatal>>

--------------------------------------------------------------------------------
(* LifecycleManager.  The device discovers what it supports after a login   *)
(* and before a registration; a device with no sensor ends the program.     *)

LoginGoes(from, to, specs) ==
    /\ login.pc = from
    /\ login' = [pc |-> to, specs |-> specs]

Discover ==
    /\ sensors # {}
    /\ LoginGoes("out", "registering", sensors) \/ LoginGoes("logged", "telling", sensors)
    /\ UNCHANGED <<supports, operator>>

\* EmitEvent of DeviceLoggedOnNetwork: an EngineOperator that has subscribed to
\* it starts again, one that has not will not hear of it.
LogIn ==
    /\ LoginGoes("out", "logged", {}) \/ LoginGoes("registering", "telling", login.specs)
    /\ operator' = IF operator.pc = "await" THEN [operator EXCEPT !.pc = "poll"] ELSE operator
    /\ UNCHANGED supports

\* SetSpecs
TellSpecs ==
    /\ LoginGoes("telling", "done", {})
    /\ supports' = MetricsOfAll(login.specs)
    /\ UNCHANGED operator

LoginStep ==
    /\ ~fatal
    /\ Discover \/ LogIn \/ TellSpecs
    /\ UNCHANGED <<plugged, swaps, scanVars, missed, sensors, event, engineVars, fatal>>

--------------------------------------------------------------------------------
(* EngineOperator                                                           *)

OperatorGoes(from, to) ==
    /\ operator.pc = from
    /\ operator' = [operator EXCEPT !.pc = to]

\* waitUntilDeviceLogged sees the login, and Start goes on to subscribe.
SubscribeSensors ==
    /\ Logged
    /\ OperatorGoes("poll", "look")
    /\ UNCHANGED <<engineVars, missed>>

\* It has looked for the last time, ...
PollOver ==
    /\ ~Logged
    /\ OperatorGoes("poll", "subscribe")
    /\ UNCHANGED <<engineVars, missed>>

\* ... and subscribes to a login that may have come in between.
AwaitLogin ==
    /\ OperatorGoes("subscribe", "await")
    /\ UNCHANGED <<engineVars, missed>>

\* waitUntilSensorsDetected
LookDetected ==
    /\ operator.looks > 0
    /\ sensors # {}
    /\ OperatorGoes("look", "list")
    /\ UNCHANGED <<engineVars, missed>>

\* (mutant: for attempts >= 0)
LookOnceMore ==
    /\ operator.pc = "look"
    /\ sensors = {}
    /\ operator' = [operator EXCEPT !.looks = @ - 1]
    /\ UNCHANGED <<engineVars, missed>>

LookAgain ==
    /\ operator.pc = "look" /\ operator.looks > 0
    /\ sensors = {}
    /\ operator' = [operator EXCEPT !.looks = @ - 1]
    /\ UNCHANGED <<engineVars, missed>>

\* Sensors that were told of and that the Device does not have or still has.
UnderWay == IF detector = "update" THEN added \cup removed ELSE {}

LookOver ==
    /\ operator.looks = 0
    /\ OperatorGoes("look", "done")
    /\ missed' = sensors \cup UnderWay
    /\ UNCHANGED engineVars

\* RegisteredSensors().ToList(), and what is registered is that list.
ListSensors ==
    /\ operator.pc = "list"
    /\ operator' = [operator EXCEPT !.pc = "register", !.list = sensors]
    /\ missed' = UnderWay
    /\ UNCHANGED engineVars

RegisterAndRun ==
    /\ OperatorGoes("register", "done")
    /\ engine' = engine \cup operator.list
    /\ active' = TRUE
    /\ UNCHANGED missed

OperatorStep ==
    /\ ~fatal
    /\ \/ SubscribeSensors \/ PollOver \/ AwaitLogin
       \/ LookDetected \/ LookAgain \/ LookOver \/ ListSensors \/ RegisterAndRun
    /\ UNCHANGED <<plugged, swaps, scanVars, sensors, login, supports, event, fatal>>

HandlerGoes(n, from, to) ==
    /\ event[n].pc = from
    /\ event' = [event EXCEPT ![n] = IF to = "none" THEN NoEvent ELSE [@ EXCEPT !.pc = to]]

\* (mutant: the handler does not unregister)
ChangeAdds(n) ==
    /\ HandlerGoes(n, "change", "run")
    /\ engine' = engine \cup event[n].added
    /\ UNCHANGED <<active, missed>>

\* RegisterSensors and UnregisterSensors of the engine.
Change(n) ==
    /\ HandlerGoes(n, "change", "run")
    /\ engine' = (engine \cup event[n].added) \ event[n].removed
    /\ UNCHANGED <<active, missed>>

\* The engine is run if the Device has a sensor by now.
RunByEvent(n) ==
    /\ HandlerGoes(n, "run", "none")
    /\ active' = (active \/ sensors # {})
    /\ UNCHANGED <<engine, missed>>

HandlerStep(n) ==
    /\ ~fatal
    /\ Change(n) \/ RunByEvent(n)
    /\ UNCHANGED <<plugged, swaps, scanVars, sensors, login, supports, operator, fatal>>

\* The runtime notices that a map is used by two: the Device's, which is written
\* while it is listed or its metrics are gathered, or the scan's.
MapRace ==
    /\ "mapRace" \in Disturbances
    /\ \/ detector = "update" /\ (operator.pc = "list" \/ login.pc \in {"out", "logged"})
       \/ detector = "scan" /\ \E b \in Buses : ScansWrite(b)
    /\ fatal' = TRUE
    /\ UNCHANGED <<plugged, swaps, scanVars, missed, sensors, login, supports, operator, event, engineVars>>

--------------------------------------------------------------------------------
Next ==
    \/ \E s \in Sensors : Swap(s)
    \/ DetectorStep \/ LoginStep \/ OperatorStep
    \/ \E n \in Events : HandlerStep(n)
    \/ MapRace

Spec == Init /\ [][Next]_vars

\* The goroutines run.  A login need not come.
FairSpec ==
    /\ Spec
    /\ WF_vars(DetectorStep) /\ WF_vars(OperatorStep)
    /\ \A n \in Events : WF_vars(HandlerStep(n))

--------------------------------------------------------------------------------
\* When nothing is under way between the two, the engine knows the sensors
\* of the Device and no other, but for changes that cross the operator's start: no
\* event is lost on it and none is undone by another.
EngineFollowsDevice ==
    operator.pc = "done" /\ Pending = {} /\ detector # "update" =>
        engine \ missed = sensors \ missed

\* A sensor that stays is known to the engine in the end, unless the operator
\* never hears of a login, and one that is away for good is not, though scans are
\* cut short and lose a sensor now and then.
EngineFollowsBuses ==
    \A s \in Sensors :
        /\ <>[](s \in plugged \ missed /\ ~Unheard /\ ~fatal) => <>[](s \in engine)
        /\ <>[](s \notin plugged \cup missed /\ ~fatal) => <>[](s \notin engine)

================================================================================
