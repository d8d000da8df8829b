----------------------------- MODULE HotswapProofs -----------------------------
(***************************************************************************)
(* Theorems about Hotswap, for every set of sensors and any swaps: type    *)
(* correctness, and that the engine follows the sensors of the Device.     *)
(***************************************************************************)
EXTENDS Hotswap, TLAPS

--------------------------------------------------------------------------------
(* Types, with what the slots of the events need: a free one is NoEvent.    *)

SlotsFree == \A n \in Events : event[n].pc = "none" => event[n] = NoEvent

TypeInv == TypeOK /\ SlotsFree

Slots == [pc : {"none", "change", "run"}, added : SUBSET Sensors, removed : SUBSET Sensors]

BusesTyped    == plugged \subseteq Sensors /\ swaps \in 0..MaxSwaps
ScanTyped     == /\ detector \in {"rest", "scan", "compare", "update", "report"}
                 /\ unprobed \subseteq Sensors /\ detected \subseteq Sensors
                 /\ added \subseteq Sensors /\ removed \subseteq Sensors \ added
DeviceTyped   == sensors \subseteq Sensors /\ missed \subseteq Sensors
LoginTyped    == /\ login \in [pc : {"out", "registering", "logged", "telling", "done"},
                               specs : SUBSET Sensors]
                 /\ supports \subseteq Metrics
OperatorTyped == operator \in [pc : {"poll", "subscribe", "await", "look", "list", "register", "done"},
                               looks : 0..Attempts, list : SUBSET Sensors]
EventsTyped   == event \in [Events -> Slots]
EngineTyped   == engine \subseteq Sensors /\ active \in BOOLEAN /\ fatal \in BOOLEAN

LEMMA TypeParts ==
    TypeOK <=> /\ BusesTyped /\ ScanTyped /\ DeviceTyped /\ LoginTyped /\ OperatorTyped
               /\ EventsTyped /\ EngineTyped
BY Zenon DEF TypeOK, BusesTyped, ScanTyped, DeviceTyped, LoginTyped, OperatorTyped, EventsTyped,
             EngineTyped, Slots

LEMMA TypePartsNext ==
    TypeOK' <=> /\ BusesTyped' /\ ScanTyped' /\ DeviceTyped' /\ LoginTyped' /\ OperatorTyped'
                /\ EventsTyped' /\ EngineTyped'
BY Zenon DEF TypeOK, BusesTyped, ScanTyped, DeviceTyped, LoginTyped, OperatorTyped, EventsTyped,
             EngineTyped, Slots

LEMMA PartsKept ==
    ASSUME TypeOK
    PROVE  /\ UNCHANGED <<plugged, swaps>> => BusesTyped'
           /\ UNCHANGED scanVars => ScanTyped'
           /\ UNCHANGED <<sensors, missed>> => DeviceTyped'
           /\ UNCHANGED <<login, supports>> => LoginTyped'
           /\ UNCHANGED operator => OperatorTyped'
           /\ UNCHANGED event => EventsTyped'
           /\ UNCHANGED <<engine, active, fatal>> => EngineTyped'
<1> USE TypeParts
<1>1. UNCHANGED <<plugged, swaps>> => BusesTyped'
  BY Zenon DEF BusesTyped
<1>2. UNCHANGED scanVars => ScanTyped'
  BY Zenon DEF scanVars, ScanTyped
<1>3. UNCHANGED <<sensors, missed>> => DeviceTyped'
  BY Zenon DEF DeviceTyped
<1>4. UNCHANGED <<login, supports>> => LoginTyped'
  BY Zenon DEF LoginTyped
<1>5. UNCHANGED operator => OperatorTyped'
  BY Zenon DEF OperatorTyped
<1>6. UNCHANGED event => EventsTyped'
  BY Zenon DEF EventsTyped
<1>7. UNCHANGED <<engine, active, fatal>> => EngineTyped'
  BY Zenon DEF EngineTyped
<1> QED BY <1>1, <1>2, <1>3, <1>4, <1>5, <1>6, <1>7

LEMMA InitTyped == Init => TypeInv
<1> SUFFICES ASSUME Init
             PROVE  TypeInv
  OBVIOUS
<1>1. BusesTyped /\ ScanTyped /\ DeviceTyped /\ LoginTyped
  BY HotswapAssumption DEF Init, BusesTyped, ScanTyped, DeviceTyped, LoginTyped
<1>2. OperatorTyped
  BY HotswapAssumption DEF Init, OperatorTyped
<1>3. EventsTyped /\ SlotsFree
  BY DEF Init, EventsTyped, Slots, NoEvent, SlotsFree
<1>4. EngineTyped
  BY Zenon DEF Init, EngineTyped
<1> QED BY <1>1, <1>2, <1>3, <1>4, TypeParts DEF TypeInv

LEMMA MetricsOfSome ==
    ASSUME NEW register, register \subseteq Sensors
    PROVE  MetricsOfAll(register) \subseteq Metrics
BY HotswapAssumption DEF MetricsOfAll

\* What Emit makes of the slots.
LEMMA EmitTyped ==
    ASSUME TypeInv, NEW plus, NEW minus, plus \subseteq Sensors, minus \subseteq Sensors, Emit(plus, minus)
    PROVE  EventsTyped' /\ SlotsFree'
<1>1. CASE UNCHANGED event
  BY <1>1 DEF TypeInv, TypeOK, EventsTyped, Slots, SlotsFree, NoEvent
<1>2. ASSUME NEW n \in Events, event' = [event EXCEPT ![n] = [pc |-> "change", added |-> plus, removed |-> minus]]
      PROVE  EventsTyped' /\ SlotsFree'
  BY <1>2 DEF TypeInv, TypeOK, EventsTyped, Slots, SlotsFree, NoEvent
<1> QED BY <1>1, <1>2 DEF Emit

LEMMA DetectorTyped ==
    ASSUME TypeInv, DetectorStep
    PROVE  TypeInv'
<1>0. TypeOK /\ SlotsFree /\ UNCHANGED <<plugged, login, operator, engine, active, fatal>>
  BY DEF TypeInv, DetectorStep, engineVars
<1>1. CASE Compare
  <2> DEFINE plus  == detected \ sensors
             minus == sensors \ detected
  <2>1. /\ plus \subseteq Sensors /\ minus \subseteq Sensors \ plus
        /\ UNCHANGED <<unprobed, detected, sensors, supports, swaps>>
        /\ missed' \in {missed, missed \cup plus \cup minus}
    BY <1>0, <1>1 DEF Compare, TypeOK
  <2>2. ScanTyped'
    BY <1>0, <1>1, <2>1 DEF Compare, ScanTyped, TypeOK
  <2>3. DeviceTyped'
    BY <1>0, <2>1 DEF DeviceTyped, TypeOK
  <2>4. EventsTyped' /\ SlotsFree'
    <3>1. CASE UNCHANGED event
      BY <1>0, <3>1, PartsKept DEF SlotsFree
    <3>2. CASE Emit(plus, minus)
      BY <2>1, <3>2, EmitTyped
    <3> QED BY <1>1, <3>1, <3>2 DEF Compare
  <2>5. LoginTyped'
    BY <1>0, <2>1, PartsKept
  <2> QED BY <1>0, <2>1, <2>2, <2>3, <2>4, <2>5, PartsKept, TypePartsNext DEF TypeInv
<1>2. CASE Report
  <2>1. supports' \subseteq Metrics
    BY <1>0, <1>2, MetricsOfSome DEF Report, TypeOK
  <2>2. LoginTyped'
    BY <1>0, <2>1 DEF LoginTyped, TypeOK
  <2>3. ScanTyped' /\ UNCHANGED <<missed, sensors, event, swaps>>
    BY <1>0, <1>2 DEF Report, DetectorGoes, ScanTyped, TypeOK
  <2> QED BY <1>0, <2>2, <2>3, PartsKept, TypePartsNext DEF TypeInv, SlotsFree
<1>3. CASE ScanStep \/ Update
  <2>1. UNCHANGED <<missed, event, supports>>
    BY <1>3 DEF ScanStep, StartScan, Probe, LostWrite, ScanTimeout, ScanOver, Update
  <2>2. ScanTyped'
    BY <1>0, <1>3 DEF ScanStep, StartScan, Probe, LostWrite, ScanTimeout, ScanOver, Update, DetectorGoes, ScanTyped, TypeOK
  <2>3. DeviceTyped'
    BY <1>0, <1>3 DEF ScanStep, StartScan, Probe, LostWrite, ScanTimeout, ScanOver, Update, DeviceTyped, TypeOK
  <2>4. BusesTyped'
    BY <1>0, <1>3, HotswapAssumption
       DEF ScanStep, StartScan, Probe, LostWrite, ScanTimeout, ScanOver, Update, BusesTyped, TypeOK
  <2> QED BY <1>0, <2>1, <2>2, <2>3, <2>4, PartsKept, TypePartsNext DEF TypeInv, SlotsFree
<1> QED BY <1>1, <1>2, <1>3 DEF DetectorStep

LEMMA LoginStepTyped ==
    ASSUME TypeInv, LoginStep
    PROVE  TypeInv'
<1>0. TypeOK /\ UNCHANGED <<plugged, swaps, scanVars, missed, sensors, event, engine, active, fatal>>
  BY DEF TypeInv, LoginStep, engineVars
<1>1. login' \in [pc : {"out", "registering", "logged", "telling", "done"}, specs : SUBSET Sensors]
  BY <1>0 DEF LoginStep, Discover, LogIn, TellSpecs, LoginGoes, TypeOK
<1>2. supports' \subseteq Metrics
  BY <1>0, MetricsOfSome DEF LoginStep, Discover, LogIn, TellSpecs, TypeOK
<1>3. LoginTyped'
  BY <1>1, <1>2 DEF LoginTyped
<1>4. OperatorTyped'
  BY <1>0 DEF LoginStep, Discover, LogIn, TellSpecs, OperatorTyped, TypeOK
<1> QED BY <1>0, <1>3, <1>4, PartsKept, TypePartsNext DEF TypeInv, SlotsFree

LEMMA OperatorStepTyped ==
    ASSUME TypeInv, OperatorStep
    PROVE  TypeInv'
<1>0. /\ TypeOK /\ SlotsFree
      /\ UNCHANGED <<plugged, swaps, scanVars, sensors, login, supports, event, fatal>>
  BY DEF TypeInv, OperatorStep
<1>1. OperatorTyped'
  <2>1. CASE LookAgain
    BY <1>0, <2>1, HotswapAssumption DEF LookAgain, OperatorTyped, TypeOK
  <2>2. CASE ListSensors
    BY <1>0, <2>2 DEF ListSensors, OperatorTyped, TypeOK
  <2>3. ASSUME NEW from, NEW to \in {"subscribe", "await", "look", "list", "done"}, OperatorGoes(from, to)
        PROVE  OperatorTyped'
    BY <1>0, <2>3 DEF OperatorGoes, OperatorTyped, TypeOK
  <2>4. CASE ~LookAgain /\ ~ListSensors
    BY <2>3, <2>4 DEF OperatorStep, SubscribeSensors, PollOver, AwaitLogin, LookDetected,
         LookOver, RegisterAndRun
  <2> QED BY <2>1, <2>2, <2>4
<1>2. DeviceTyped'
  BY <1>0 DEF OperatorStep, SubscribeSensors, PollOver, AwaitLogin, LookDetected, LookAgain, LookOver, ListSensors,
       RegisterAndRun, engineVars, UnderWay, DeviceTyped, TypeOK
<1>3. engine' \subseteq Sensors
  BY <1>0 DEF OperatorStep, SubscribeSensors, PollOver, AwaitLogin, LookDetected, LookAgain, LookOver, ListSensors,
       RegisterAndRun, engineVars, TypeOK
<1>4. active' \in {active, TRUE}
  BY Zenon DEF OperatorStep, SubscribeSensors, PollOver, AwaitLogin, LookDetected, LookAgain, LookOver, ListSensors,
       RegisterAndRun, engineVars
<1>5. EngineTyped'
  BY Zenon, <1>0, <1>3, <1>4 DEF EngineTyped, TypeOK
<1> QED BY <1>0, <1>1, <1>2, <1>5, PartsKept, TypePartsNext DEF TypeInv, SlotsFree

\* What HandlerGoes makes of the slots.
LEMMA HandlerGoesTyped ==
    ASSUME TypeInv, NEW n \in Events, NEW from \in {"change", "run"}, NEW to \in {"run", "none"},
           HandlerGoes(n, from, to)
    PROVE  /\ EventsTyped' /\ SlotsFree'
           /\ event[n].pc = from /\ event'[n].pc = to
           /\ \A m \in Events \ {n} : event'[m] = event[m]
<1> DEFINE r == IF to = "none" THEN NoEvent ELSE [event[n] EXCEPT !.pc = to]
<1>1. event \in [Events -> Slots] /\ event[n] \in Slots
  BY DEF TypeInv, TypeOK, Slots
<1>2. r \in Slots /\ r.pc = to /\ (to = "none" => r = NoEvent)
  BY <1>1 DEF Slots, NoEvent
<1>3. event[n].pc = from /\ event' = [event EXCEPT ![n] = r]
  BY <1>1 DEF HandlerGoes
<1> HIDE DEF r
<1>4. event'[n] = r /\ event' \in [Events -> Slots] /\ \A m \in Events \ {n} : event'[m] = event[m]
  BY <1>1, <1>2, <1>3
<1>5. SlotsFree'
  BY <1>2, <1>4 DEF TypeInv, SlotsFree, NoEvent
<1> QED BY <1>2, <1>3, <1>4, <1>5 DEF EventsTyped

LEMMA HandlerStepTyped ==
    ASSUME TypeInv, NEW n \in Events, HandlerStep(n)
    PROVE  TypeInv'
<1>0. /\ TypeOK
      /\ UNCHANGED <<plugged, swaps, scanVars, sensors, login, supports, operator, fatal, missed>>
  BY DEF TypeInv, HandlerStep, Change, RunByEvent
<1>1. EventsTyped' /\ SlotsFree'
  BY HandlerGoesTyped DEF HandlerStep, Change, RunByEvent
<1>2. engine' \subseteq Sensors
  BY <1>0 DEF HandlerStep, Change, RunByEvent, TypeOK, Slots
<1>3. active' \in {active, TRUE, FALSE}
  BY Zenon DEF HandlerStep, Change, RunByEvent
<1>4. EngineTyped'
  BY Zenon, <1>0, <1>2, <1>3 DEF EngineTyped, TypeOK
<1> QED BY <1>0, <1>1, <1>4, PartsKept, TypePartsNext DEF TypeInv

LEMMA StepTyped == TypeInv /\ [Next]_vars => TypeInv'
<1> SUFFICES ASSUME TypeInv, [Next]_vars
             PROVE  TypeInv'
  OBVIOUS
<1>0. TypeOK
  BY DEF TypeInv
<1>1. ASSUME NEW s \in Sensors, Swap(s)
      PROVE  TypeInv'
  <2>1. BusesTyped'
    BY <1>0, <1>1, HotswapAssumption DEF Swap, BusesTyped, TypeOK
  <2>2. UNCHANGED <<scanVars, missed, sensors, login, supports, operator, event, engine, active, fatal>>
    BY <1>1 DEF Swap, engineVars
  <2> QED BY <1>0, <2>1, <2>2, PartsKept, TypePartsNext DEF TypeInv, SlotsFree
<1>2. CASE DetectorStep \/ LoginStep \/ OperatorStep
  BY <1>2, DetectorTyped, LoginStepTyped, OperatorStepTyped
<1>3. ASSUME NEW n \in Events, HandlerStep(n)
      PROVE  TypeInv'
  BY <1>3, HandlerStepTyped
<1>4. CASE MapRace
  <2>1. UNCHANGED <<plugged, swaps, scanVars, missed, sensors, login, supports, operator, event, engine, active>>
    BY <1>4 DEF MapRace, engineVars
  <2>2. EngineTyped'
    BY Zenon, <1>0, <1>4, <2>1 DEF MapRace, EngineTyped, TypeOK
  <2> QED BY <1>0, <2>1, <2>2, PartsKept, TypePartsNext DEF TypeInv, SlotsFree
<1>5. CASE UNCHANGED vars
  BY <1>0, <1>5, PartsKept, TypePartsNext DEF vars, engineVars, TypeInv, SlotsFree
<1> QED BY <1>1, <1>2, <1>3, <1>4, <1>5 DEF Next

\* The sensors on the buses, in the Device, in the engine and in every change that is
\* being told stay within their types, and no change adds what it removes
\* (hotswap_detector.go, registry_sensors.go, engine_operator.go).
THEOREM TypeCorrect == Spec => []TypeOK
<1>1. TypeInv => TypeOK
  BY DEF TypeInv
<1> QED BY <1>1, InitTyped, StepTyped, PTL DEF Spec

--------------------------------------------------------------------------------
(* The engine follows the Device.  What counts is not what either has but   *)
(* what it will have when the change that is being told is applied: the two *)
(* of a change are applied by different goroutines, in either order.        *)

Changing == \E n \in Events : event[n].pc = "change"

DeviceToBe == IF detector = "update" THEN (sensors \cup added) \ removed ELSE sensors
EngineToBe == IF Changing THEN (engine \cup added) \ removed ELSE engine

\* One change is told at a time, and it is the last one that was found.
OneChange ==
    /\ detector \in {"scan", "compare"} \/ Unheard => Pending = {}
    /\ \A m, n \in Pending : m = n
    /\ \A n \in Events : event[n].pc = "change" => event[n].added = added /\ event[n].removed = removed

\* The Device had the change before the engine.
DeviceFirst == Changing /\ detector # "update" => sensors \cap removed = {}

\* Until EngineOperator has started the engine knows of no sensor but by events;
\* from then on it misses no change but those that cross the start.
EngineCatchesUp ==
    /\ Unheard \/ operator.pc \in {"look", "list"} => EngineToBe \subseteq DeviceToBe
    /\ Unheard => engine = {}
    /\ operator.pc = "register" =>
           /\ (EngineToBe \cup operator.list) \ missed = DeviceToBe \ missed
           /\ Changing => operator.list \cap removed \subseteq missed
    /\ operator.pc = "done" => EngineToBe \ missed = DeviceToBe \ missed

FollowInv == OneChange /\ DeviceFirst /\ EngineCatchesUp

LEMMA InitFollows == Init => FollowInv
<1> SUFFICES ASSUME Init
             PROVE  FollowInv
  OBVIOUS
<1>1. Pending = {} /\ ~Changing
  BY DEF Init, Pending, Changing, NoEvent
<1>2. OneChange
  BY <1>1 DEF Init, OneChange, Changing
<1>3. DeviceFirst /\ EngineCatchesUp
  BY <1>1 DEF Init, DeviceFirst, EngineCatchesUp, EngineToBe, DeviceToBe
<1> QED BY <1>2, <1>3 DEF FollowInv

\* Steps that touch neither the changes nor the sets of the two sides.
LEMMA AsideFollows ==
    ASSUME FollowInv, UNCHANGED <<event, added, removed, sensors, engine, operator, missed>>,
           detector' = detector \/ {detector, detector'} \subseteq {"rest", "report"}
                                \/ {detector, detector'} \subseteq {"scan", "compare"}
                                \/ (Pending = {} /\ detector # "update" /\ detector' # "update")
    PROVE  FollowInv'
<1>1. UNCHANGED <<Pending, Changing, DeviceToBe, EngineToBe>>
  BY DEF Pending, Changing, DeviceToBe, EngineToBe
<1>2. OneChange'
  BY <1>1 DEF FollowInv, OneChange, Unheard
<1>3. DeviceFirst' /\ EngineCatchesUp'
  BY <1>1 DEF FollowInv, DeviceFirst, EngineCatchesUp, Unheard
<1> QED BY <1>2, <1>3 DEF FollowInv

LEMMA NoneChanges ==
    ASSUME TypeInv
    PROVE  Pending = {} => ~Changing /\ \A n \in Events : event[n] = NoEvent
BY DEF Pending, Changing, NoEvent

\* A change that is emitted takes a slot, or finds no EngineOperator.
LEMMA EmitOne ==
    ASSUME TypeInv, Pending = {}, NEW plus, NEW minus, Emit(plus, minus)
    PROVE  \/ Unheard /\ UNCHANGED event
           \/ /\ ~Unheard /\ Changing'
              /\ \A m, n \in Pending' : m = n
              /\ \A n \in Events : event'[n].pc = "change" =>
                     event'[n].added = plus /\ event'[n].removed = minus
<1>1. CASE Unheard
  BY <1>1 DEF Emit
<1>2. CASE ~Unheard
  <2>1. PICK n \in Events :
            event' = [event EXCEPT ![n] = [pc |-> "change", added |-> plus, removed |-> minus]]
    BY <1>2 DEF Emit
  <2>2. /\ event'[n] = [pc |-> "change", added |-> plus, removed |-> minus]
        /\ \A m \in Events \ {n} : event'[m] = NoEvent
    BY <2>1, NoneChanges DEF TypeInv, TypeOK
  <2>3. Changing' /\ Pending' = {n}
    BY <2>2 DEF Changing, Pending, NoEvent
  <2>4. \A m \in Events : event'[m].pc = "change" => event'[m].added = plus /\ event'[m].removed = minus
    BY <2>2 DEF NoEvent
  <2> QED BY <1>2, <2>3, <2>4
<1> QED BY <1>1, <1>2

\* handleHotswap finds a difference: both sides will be what was detected.
LEMMA CompareFollows ==
    ASSUME TypeInv, FollowInv, Compare, UNCHANGED <<engine, operator>>
    PROVE  FollowInv'
<1> DEFINE plus  == detected \ sensors
           minus == sensors \ detected
<1>0. TypeOK /\ Pending = {} /\ ~Changing /\ UNCHANGED sensors /\ detector = "compare"
  BY NoneChanges DEF TypeInv, FollowInv, OneChange, Compare
<1>1. CASE plus = {} /\ minus = {}
  <2>1. missed' = missed
    BY <1>1 DEF Compare
  <2> QED BY <1>0, <1>1, <2>1, AsideFollows DEF Compare
<1>2. CASE ~(plus = {} /\ minus = {})
  <2>1. /\ detector' = "update" /\ added' = plus /\ removed' = minus /\ Emit(plus, minus)
        /\ missed' = IF operator.pc = "register" THEN missed \cup plus \cup minus ELSE missed
    BY <1>2 DEF Compare
  <2>2. DeviceToBe' = (sensors \cup plus) \ minus /\ DeviceToBe = sensors /\ EngineToBe = engine
    BY <1>0, <2>1 DEF DeviceToBe, EngineToBe
  <2>3. CASE Unheard
    <3>1. UNCHANGED <<event, engine, operator>> /\ engine = {}
      BY <2>1, <2>3 DEF Emit, FollowInv, EngineCatchesUp
    <3>2. Pending' = {} /\ ~Changing'
      BY <1>0, <3>1 DEF Pending, Changing
    <3>3. EngineToBe' = {}
      BY <3>1, <3>2 DEF EngineToBe
    <3>4. OneChange'
      BY <3>2 DEF OneChange, Changing
    <3>5. EngineCatchesUp' /\ DeviceFirst'
      BY <2>3, <3>1, <3>2, <3>3 DEF EngineCatchesUp, DeviceFirst, Unheard
    <3> QED BY <3>4, <3>5 DEF FollowInv
  <2>4. CASE ~Unheard
    <3>1. Changing' /\ EngineToBe' = (engine \cup plus) \ minus
      BY <1>0, <2>1, <2>4, EmitOne DEF EngineToBe
    <3>2. OneChange'
      BY <1>0, <2>1, <2>4, EmitOne DEF OneChange, Unheard
    <3>3. DeviceFirst'
      BY <2>1 DEF DeviceFirst
    <3>4. EngineCatchesUp'
      BY <2>1, <2>2, <2>4, <3>1 DEF FollowInv, EngineCatchesUp, Unheard
    <3> QED BY <3>2, <3>3, <3>4 DEF FollowInv
  <2> QED BY <2>3, <2>4
<1> QED BY <1>1, <1>2

LEMMA UpdateFollows ==
    ASSUME TypeInv, FollowInv, Update, UNCHANGED <<engine, operator>>
    PROVE  FollowInv'
<1>0. /\ detector = "update" /\ detector' \in {"report", "rest"} /\ sensors' = (sensors \cup added) \ removed
      /\ UNCHANGED <<added, removed, missed, event>>
  BY DEF Update, DetectorGoes
<1>1. UNCHANGED <<Pending, Changing, EngineToBe>> /\ DeviceToBe' = DeviceToBe
  BY <1>0 DEF Pending, Changing, EngineToBe, DeviceToBe
<1>2. OneChange'
  BY <1>0, <1>1 DEF FollowInv, OneChange, Unheard
<1>3. DeviceFirst'
  BY <1>0 DEF DeviceFirst
<1>4. EngineCatchesUp'
  BY <1>0, <1>1 DEF FollowInv, EngineCatchesUp, Unheard
<1> QED BY <1>2, <1>3, <1>4 DEF FollowInv

LEMMA DetectorFollows ==
    ASSUME TypeInv, FollowInv, DetectorStep
    PROVE  FollowInv'
<1>0. UNCHANGED <<engine, operator>>
  BY DEF DetectorStep, engineVars
<1>1. CASE Compare \/ Update
  BY <1>0, <1>1, CompareFollows, UpdateFollows
<1>2. CASE ScanStep \/ Report
  BY <1>0, <1>2, AsideFollows DEF ScanStep, StartScan, Probe, LostWrite, ScanTimeout, ScanOver, Report, DetectorGoes
<1> QED BY <1>1, <1>2 DEF DetectorStep

LEMMA OperatorFollows ==
    ASSUME TypeInv, FollowInv, OperatorStep
    PROVE  FollowInv'
<1>0. /\ TypeOK /\ UNCHANGED <<event, detector, added, removed, sensors>>
      /\ operator \in [pc : {"poll", "subscribe", "await", "look", "list", "register", "done"},
                       looks : 0..Attempts, list : SUBSET Sensors]
  BY DEF TypeInv, TypeOK, OperatorStep, scanVars
<1>1. UNCHANGED <<Pending, Changing, DeviceToBe>>
  BY <1>0 DEF Pending, Changing, DeviceToBe
<1>2. Unheard' => Unheard
  BY <1>0 DEF Unheard, OperatorStep, SubscribeSensors, PollOver, AwaitLogin, LookDetected, LookAgain, LookOver, ListSensors,
       RegisterAndRun, OperatorGoes
<1>3. OneChange' /\ DeviceFirst'
  BY <1>0, <1>1, <1>2 DEF FollowInv, OneChange, DeviceFirst
<1>4. EngineCatchesUp'
  <2>1. CASE SubscribeSensors \/ PollOver \/ AwaitLogin \/ LookDetected \/ LookAgain
    <3>1. UNCHANGED <<engine, EngineToBe>>
      BY <1>0, <1>1, <2>1 DEF SubscribeSensors, PollOver, AwaitLogin, LookDetected, LookAgain, engineVars, EngineToBe
    <3>2. /\ Unheard \/ operator.pc \in {"look", "list"}
          /\ Unheard' \/ operator'.pc \in {"look", "list"}
          /\ (Unheard' => Unheard) /\ operator'.pc \notin {"register", "done"}
      BY <1>0, <2>1 DEF SubscribeSensors, PollOver, AwaitLogin, LookDetected, LookAgain, OperatorGoes,
           Unheard
    <3> QED BY <1>1, <3>1, <3>2 DEF FollowInv, EngineCatchesUp
  <2>2. CASE LookOver \/ ListSensors
    <3>1. UNCHANGED <<engine, EngineToBe>>
      BY <1>0, <1>1, <2>2 DEF LookOver, ListSensors, engineVars, EngineToBe
    <3>2. EngineToBe \subseteq DeviceToBe
      BY <2>2 DEF LookOver, ListSensors, OperatorGoes, FollowInv, EngineCatchesUp
    <3>3. DeviceToBe \subseteq sensors \cup UnderWay /\ sensors \subseteq DeviceToBe \cup UnderWay
      BY DEF DeviceToBe, UnderWay
    <3>4. CASE LookOver
      <4>1. operator'.pc = "done" /\ missed' = sensors \cup UnderWay
        BY <1>0, <3>4 DEF LookOver, OperatorGoes
      <4> QED BY <1>1, <3>1, <3>2, <3>3, <4>1 DEF EngineCatchesUp, Unheard
    <3>5. CASE ListSensors
      <4>1. operator'.pc = "register" /\ operator'.list = sensors /\ missed' = UnderWay
        BY <1>0, <3>5 DEF ListSensors
      <4>2. Changing => sensors \cap removed \subseteq UnderWay
        BY DEF FollowInv, DeviceFirst, UnderWay
      <4> QED BY <1>0, <1>1, <3>1, <3>2, <3>3, <4>1, <4>2 DEF EngineCatchesUp, Unheard
    <3> QED BY <2>2, <3>4, <3>5
  <2>3. CASE RegisterAndRun
    <3>1. /\ operator.pc = "register" /\ operator'.pc = "done" /\ engine' = engine \cup operator.list
          /\ UNCHANGED missed
      BY <1>0, <2>3 DEF RegisterAndRun, OperatorGoes
    <3>2. /\ (EngineToBe \cup operator.list) \ missed = DeviceToBe \ missed
          /\ Changing => operator.list \cap removed \subseteq missed
      BY <3>1 DEF FollowInv, EngineCatchesUp
    <3>3. EngineToBe' \ missed = (EngineToBe \cup operator.list) \ missed
      BY <1>0, <1>1, <3>1, <3>2 DEF EngineToBe
    <3> QED BY <1>1, <3>1, <3>2, <3>3 DEF EngineCatchesUp, Unheard
  <2> QED BY <2>1, <2>2, <2>3 DEF OperatorStep
<1> QED BY <1>3, <1>4 DEF FollowInv

LEMMA HandlerFollows ==
    ASSUME TypeInv, FollowInv, NEW n \in Events, HandlerStep(n)
    PROVE  FollowInv'
<1>0. UNCHANGED <<detector, added, removed, sensors, operator, missed>>
  BY DEF HandlerStep, Change, RunByEvent, scanVars
<1>1. /\ event[n].pc \in {"change", "run"} /\ event'[n].pc \in {"run", "none"}
      /\ \A m \in Events \ {n} : event'[m] = event[m]
      /\ SlotsFree'
  BY HandlerGoesTyped DEF HandlerStep, Change, RunByEvent
<1>2. n \in Pending /\ Pending' \subseteq Pending
  BY <1>1 DEF Pending, NoEvent
<1>3. \A m \in Events \ {n} : event[m] = NoEvent /\ event'[m] = NoEvent
  BY <1>1, <1>2 DEF FollowInv, OneChange, Pending
<1>4. ~Changing' /\ (Changing <=> event[n].pc = "change")
  BY <1>1, <1>3 DEF Changing, NoEvent
<1>5. EngineToBe' = EngineToBe
  <2>1. CASE Change(n)
    BY <1>1, <1>4, <2>1 DEF Change, HandlerGoes, FollowInv, OneChange, EngineToBe
  <2>2. CASE RunByEvent(n)
    BY <1>4, <2>2 DEF RunByEvent, HandlerGoes, EngineToBe
  <2> QED BY <2>1, <2>2 DEF HandlerStep
<1>6. UNCHANGED DeviceToBe
  BY <1>0 DEF DeviceToBe
<1>7. ~Unheard
  BY <1>2 DEF FollowInv, OneChange
<1>8. OneChange'
  BY <1>0, <1>2, <1>4 DEF FollowInv, OneChange, Changing, Unheard
<1>9. DeviceFirst' /\ EngineCatchesUp'
  BY <1>0, <1>4, <1>5, <1>6, <1>7 DEF FollowInv, DeviceFirst, EngineCatchesUp, Unheard
<1> QED BY <1>8, <1>9 DEF FollowInv

LEMMA StepFollows == TypeInv /\ FollowInv /\ [Next]_vars => FollowInv'
<1> SUFFICES ASSUME TypeInv, FollowInv, [Next]_vars
             PROVE  FollowInv'
  OBVIOUS
<1>1. CASE DetectorStep \/ OperatorStep \/ \E n \in Events : HandlerStep(n)
  BY <1>1, DetectorFollows, OperatorFollows, HandlerFollows
<1>2. CASE (\E s \in Sensors : Swap(s)) \/ MapRace \/ UNCHANGED vars
  BY <1>2, AsideFollows DEF Swap, MapRace, vars, scanVars, engineVars
<1>3. CASE LoginStep
  <2>1. UNCHANGED <<event, detector, added, removed, sensors, engine, missed>>
    BY <1>3 DEF LoginStep, scanVars, engineVars
  <2>2. UNCHANGED operator \/ (Unheard /\ Unheard')
    BY <1>3 DEF LoginStep, Discover, LogIn, TellSpecs, TypeInv, TypeOK, Unheard
  <2>3. CASE UNCHANGED operator
    BY <2>1, <2>3, AsideFollows
  <2>4. CASE Unheard /\ Unheard'
    <3>1. UNCHANGED <<Pending, Changing, DeviceToBe, EngineToBe>>
      BY <2>1 DEF Pending, Changing, DeviceToBe, EngineToBe
    <3>2. operator'.pc \notin {"register", "done"}
      BY <2>4 DEF Unheard
    <3> QED BY <2>1, <2>4, <3>1, <3>2 DEF FollowInv, OneChange, DeviceFirst, EngineCatchesUp
  <2> QED BY <2>2, <2>3, <2>4
<1> QED BY <1>1, <1>2, <1>3 DEF Next

\* Whatever is plugged in and out and however often a scan is cut short, when no
\* change is under way the engine knows the sensors of the Device and no other, but
\* for those whose change crossed the start of EngineOperator
\* (hotswap_detector.go: handleHotswap; engine_operator.go: Start).
THEOREM EngineFollows == Spec => []EngineFollowsDevice
<1>1. TypeInv /\ FollowInv => EngineFollowsDevice
  <2> SUFFICES ASSUME TypeInv, FollowInv, operator.pc = "done", Pending = {}, detector # "update"
               PROVE  engine \ missed = sensors \ missed
    BY DEF EngineFollowsDevice
  <2>1. EngineToBe = engine /\ DeviceToBe = sensors
    BY NoneChanges DEF EngineToBe, DeviceToBe
  <2> QED BY <2>1 DEF FollowInv, EngineCatchesUp
<1> QED BY <1>1, InitTyped, StepTyped, InitFollows, StepFollows, PTL DEF Spec

================================================================================
