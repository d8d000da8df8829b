------------------------------ MODULE SensorDriver ------------------------------
(***************************************************************************)
(* A sensor's driver between the goroutines that use it: the requests of   *)
(* the engine, each of which wakes the sensor up if it is not active and   *)
(* harvests it; the scan, which verifies the chip with a driver of its own *)
(* under the same mutex; and whoever closes the driver: the standby timer  *)
(* or the sensor's removal.                                                *)
(*                                                                         *)
(* What a driver does is a program of steps, most of them one transaction  *)
(* on the bus.  Readings are kept by where they come from and not by their *)
(* values.  Chips keep their settings when their driver is closed.         *)
(***************************************************************************)
EXTENDS Integers, Sequences, FiniteSets

CONSTANTS
    Kinds,        \* the drivers
    Requests,     \* requests that read the sensor: a bound
    Scans,        \* scans that verify it: a bound
    MaxCloses,    \* bound on the calls of Close
    Attempts,     \* of HDC1080 and CCS811
    Disturbances,
    Nil

ASSUME DriverAssumption ==
    /\ Kinds \subseteq {"HDC1080", "CCS811", "MAX44009", "SI1145", "ADXL345", "BMP280",
                        "LSM303A", "LSM303M", "MAX30102", "ADC"}
    /\ Attempts \in Nat \ {0}
    /\ MaxCloses \in Nat
    /\ Disturbances \subseteq {"failure"}
    /\ (Requests \X {1, 2}) \cap Scans = {}
    /\ Nil \notin (Requests \X {1, 2}) \cup Scans

VARIABLES
    kind,
    reader,    \* where a request is with the sensor
    task,      \* programs that run: two at most for a request, one for a scan
    active,    \* I2C.active, ADS1115.active
    bus,       \* the handle of the bus: none, open, closed, or lost: dropped while open
    device,    \* the library's driver underneath: nil, live, dead (its bus is closed)
    chip,      \* its settings, the last parameter written, where the pointer is
    mutex,     \* who holds the driver's mutex, and MAX44009's, which SI1145 takes
    got,       \* where the readings of a request come from
    closes,
    closedIn,  \* requests during whose harvest the driver was closed: history
    shared,    \* a request came while another was waking the sensor up: history
    overtaken, \* a request woke the sensor up while another was about to read: history
    flawed,    \* a step of the driver's Init has failed: history
    panicked

historyVars == <<closes, closedIn, shared, overtaken, flawed>>
driverVars  == <<active, bus, device>>
vars == <<kind, reader, task, driverVars, chip, mutex, got, historyVars, panicked>>

--------------------------------------------------------------------------------
(* Programs.  A step is something done to a register and what becomes of an *)
(* error: the function returns it, ignores it, skips what depends on the    *)
(* step, or tries again, some times or for ever.                            *)

Step(what, register, onError) == [what |-> what, register |-> register, onError |-> onError]

Open   == Step("open", "", "return")
Make   == Step("make", "", "return")
Lock   == Step("lock", "own", "")
Unlock == Step("unlock", "own", "")
LockOf(name)   == Step("lock", name, "")
UnlockOf(name) == Step("unlock", name, "")
Write(register, onError) == Step("write", register, onError)
Check(register, onError) == Step("check", register, onError)
Read(register)  == Step("read", register, "ignore")
Sense(register) == Step("sense", register, "ignore")
Send(register) == Step("send", register, "return")
Fetch(register) == Step("fetch", register, "again")

\* The mutex is held from the pointer to the conversion it starts.
Conversion(register) == <<Lock, Send(register), Fetch(register), Unlock>>

HDC1080 ==
    [init |-> <<Open, Write("config", "return")>>,
     harvest |-> <<Conversion("temperature"), Conversion("humidity")>>]

\* The reset and the status after it are not checked, the application's start
\* and the status after that are.
CCS811 ==
    [init |-> <<Open, Write("reset", "ignore"), Check("status", "ignore"),
                Send("start"), Check("status", "return"), Write("mode", "return")>>,
     harvest |-> << <<Step("poll", "status", "again"), Step("nonzero", "result", "return")>> >>]

MAX44009 == [init |-> <<Open>>, harvest |-> << <<Read("lux")>> >>]

\* (mutant: the command comes before the value)
CommandFirst(p) == <<Step("command", p, "skip"), Step("param", p, "ignore")>>

\* writeParam: the value, the command that makes it the parameter's; two
\* parameters stand for the eleven.  No error stops Init.
WriteParam(p) == <<Step("param", p, "skip"), Step("command", p, "ignore")>>

SI1145 ==
    [init |-> <<Open, Write("coefficients", "ignore")>>
              \o WriteParam("channels") \o WriteParam("range") \o <<Write("auto", "ignore")>>,
     harvest |-> << <<LockOf("max44009"), Read("uv"), Read("visible"), UnlockOf("max44009")>> >>]

ADXL345 ==
    [init |-> <<Open, Write("rate", "return"), Check("format", "return"),
                Write("format", "return"), Write("power", "return")>>,
     harvest |-> << <<Read("axes")>> >>]

BMP280 == [init |-> <<Open, Make>>, harvest |-> << <<Lock, Sense("pressure"), Unlock>> >>]

LSM303A == [init |-> <<Open, Make>>, harvest |-> << <<Lock, Sense("axes"), Unlock>> >>]

\* The temperature is read outside the mutex.
LSM303M ==
    [init |-> <<Open, Make>>,
     harvest |-> << <<Lock, Sense("axes"), Unlock, Sense("temperature")>> >>]

MAX30102 ==
    [init |-> <<Make, Step("startup", "", "return")>>,
     harvest |-> << <<Sense("heartRate"), Sense("oxygen")>> >>]

\* RMS of one sample: the loop goes on when a sample fails, and takes no mutex.
ADC == [init |-> <<Make>>, harvest |-> << <<Step("sense", "sample", "forever")>> >>]

Drivers ==
    [HDC1080 |-> HDC1080, CCS811 |-> CCS811, MAX44009 |-> MAX44009, SI1145 |-> SI1145,
     ADXL345 |-> ADXL345, BMP280 |-> BMP280, LSM303A |-> LSM303A, LSM303M |-> LSM303M,
     MAX30102 |-> MAX30102, ADC |-> ADC]

Driver == Drivers[kind]

\* Verify, past the opening of a bus handle of its own.
Verify == <<Check("id", "return")>>

\* What Init sets and readings depend on.
SettingsOf ==
    [d \in DOMAIN Drivers |->
        LET init == Drivers[d].init IN
        {init[n].register : n \in {m \in DOMAIN init : init[m].what \in {"write", "send", "command"}}}
            \ {"reset"}]

Settings == SettingsOf[kind]

Workers == (Requests \X {1, 2}) \cup Scans

Program(k) ==
    CASE task[k].op = "verify"  -> Verify
      [] task[k].op = "init"    -> Driver.init
      [] task[k].op = "harvest" -> Driver.harvest[k[2]]
      [] OTHER                  -> <<>>

Current(k) == Program(k)[task[k].at]
Running(k) == task[k].op \in {"init", "harvest", "verify"}

TypeOK ==
    /\ kind \in Kinds
    /\ reader \in [Requests -> {"idle", "init", "check", "harvest", "over", "failed"}]
    /\ task \in [Workers -> [op : {"none", "init", "harvest", "verify", "over"}, at : 1..9,
                             tries : 0..Attempts]]
    /\ \A k \in Workers : Running(k) => task[k].at \in DOMAIN Program(k)
    /\ active \in BOOLEAN
    /\ bus \in {"none", "open", "closed", "lost"}
    /\ device \in {"nil", "live", "dead"}
    /\ chip.set \subseteq Settings
    /\ mutex \in [{"own", "max44009"} -> Workers \cup {Nil}]
    /\ got \in [Requests -> SUBSET {"own", "other", "blank", "unready"}]
    /\ closes \in 0..MaxCloses
    /\ closedIn \subseteq Requests
    /\ {shared, overtaken, flawed, panicked} \subseteq BOOLEAN

Started(op) == [op |-> op, at |-> 1, tries |-> Attempts]

Init ==
    /\ kind \in Kinds
    /\ reader = [q \in Requests |-> "idle"]
    /\ task = [k \in Workers |-> Started("none")]
    /\ active = FALSE
    /\ bus = "none"
    /\ device = "nil"
    /\ chip = [set |-> {}, latch |-> Nil, pointer |-> Nil, by |-> Nil]
    /\ mutex = [m \in {"own", "max44009"} |-> Nil]
    /\ got = [q \in Requests |-> {}]
    /\ closes = 0
    /\ closedIn = {}
    /\ shared = FALSE
    /\ overtaken = FALSE
    /\ flawed = FALSE
    /\ panicked = FALSE

--------------------------------------------------------------------------------
(* Requests, scans and closers.                                             *)

\* (mutant: BMP280 does not look at Dev)
ActiveByBus == IF kind = "MAX30102" THEN device # "nil" ELSE active

\* Sensor.Active
Active ==
    CASE kind = "BMP280"   -> active /\ device # "nil"
      [] kind = "MAX30102" -> device # "nil"
      [] OTHER             -> active

ReaderGoes(q, from, to) ==
    /\ reader[q] = from
    /\ reader' = [reader EXCEPT ![q] = to]

\* initSensor: a sensor that is active is taken to be ready.
Begin(q) ==
    /\ ReaderGoes(q, "idle", IF Active THEN "check" ELSE "init")
    /\ task' = IF Active THEN task ELSE [task EXCEPT ![<<q, 1>>] = Started("init")]
    /\ shared' = (shared \/ \E p \in Requests : reader[p] = "init")
    /\ overtaken' = (overtaken \/ (~Active /\ \E p \in Requests : reader[p] \in {"check", "harvest"}))

Awake(q) ==
    /\ task[<<q, 1>>].op = "over"
    /\ ReaderGoes(q, "init", "check")
    /\ UNCHANGED <<task, shared, overtaken>>

Parts == 1..Len(Driver.harvest)

\* (mutant: the sensor is harvested without another look)
HarvestAnyway(q) ==
    /\ ReaderGoes(q, "check", "harvest")
    /\ task' = [k \in Workers |-> IF k \in {q} \X Parts THEN Started("harvest") ELSE task[k]]
    /\ UNCHANGED <<shared, overtaken>>

\* readSensor: Harvest, which is two goroutines for HDC1080.
Harvest(q) ==
    /\ ReaderGoes(q, "check", IF Active THEN "harvest" ELSE "over")
    /\ task' = [k \in Workers |-> IF Active /\ k \in {q} \X Parts THEN Started("harvest") ELSE task[k]]
    /\ UNCHANGED <<shared, overtaken>>

Harvested(q) ==
    /\ \A n \in Parts : task[<<q, n>>].op = "over"
    /\ ReaderGoes(q, "harvest", "over")
    /\ UNCHANGED <<task, shared, overtaken>>

ReaderStep(q) ==
    /\ Begin(q) \/ Awake(q) \/ Harvest(q) \/ Harvested(q)
    /\ UNCHANGED <<kind, driverVars, chip, mutex, got, closes, closedIn, flawed, panicked>>

\* LocateI2CSensor builds a driver and verifies the chip with it.
Scan(k) ==
    /\ task[k].op = "none"
    /\ task' = [task EXCEPT ![k] = Started("verify")]
    /\ UNCHANGED <<kind, reader, driverVars, chip, mutex, got, historyVars, panicked>>

\* Close of the driver, by the standby timer that a request has armed or by
\* UnregisterSensors.  MAX30102 needs a Device to close, I2C a bus.
Close ==
    /\ closes < MaxCloses
    /\ \E q \in Requests : reader[q] \in {"check", "harvest", "over"}
    /\ closes' = closes + 1
    /\ closedIn' = closedIn \cup {q \in Requests : reader[q] = "harvest"}
    /\ active' = FALSE
    /\ bus' = IF bus = "open" THEN "closed" ELSE bus
    /\ device' = CASE kind \in {"BMP280", "MAX30102"}            -> "nil"
                   [] kind \notin {"BMP280", "MAX30102"} /\ device = "live" -> "dead"
                   [] OTHER                                      -> device
    /\ panicked' = IF kind \in {"MAX30102", "ADC"} THEN device = "nil" ELSE bus \in {"none", "lost"}
    /\ UNCHANGED <<kind, reader, task, chip, mutex, got, shared, overtaken, flawed>>

--------------------------------------------------------------------------------
(* The steps of a program.                                                  *)

Doing(k, what) == Running(k) /\ Current(k).what = what

Finish(k) == [task EXCEPT ![k] = Started("over")]

AdvanceBy(k, n) ==
    /\ task' = IF task[k].at + n > Len(Program(k))
               THEN Finish(k)
               ELSE [task EXCEPT ![k] = [op |-> @.op, at |-> @.at + n, tries |-> Attempts]]
    /\ UNCHANGED <<reader, mutex>>

Advance(k) == AdvanceBy(k, 1)

\* (mutant: a lock is not given back by defer)
ReturnLocked(k) ==
    /\ task' = Finish(k)
    /\ reader' = IF task[k].op = "init" THEN [reader EXCEPT ![k[1]] = "failed"] ELSE reader
    /\ UNCHANGED mutex

\* The function returns, and what it has deferred gives the mutex back.
Return(k) ==
    /\ task' = Finish(k)
    /\ reader' = IF task[k].op = "init" THEN [reader EXCEPT ![k[1]] = "failed"] ELSE reader
    /\ mutex' = [m \in DOMAIN mutex |-> IF mutex[m] = k THEN Nil ELSE mutex[m]]

\* (mutant: one attempt too many)
AgainOnceMore(k, least) ==
    IF task[k].tries >= least
    THEN task' = [task EXCEPT ![k].tries = @ - 1] /\ UNCHANGED <<reader, mutex>>
    ELSE Return(k)

\* The loop goes round once more, or its function returns.
Again(k, least) ==
    IF task[k].tries > least
    THEN task' = [task EXCEPT ![k].tries = @ - 1] /\ UNCHANGED <<reader, mutex>>
    ELSE Return(k)

Error(k) ==
    CASE Current(k).onError = "return"  -> Return(k)
      [] Current(k).onError = "ignore"  -> Advance(k)
      [] Current(k).onError = "skip"    -> AdvanceBy(k, 2)
      [] Current(k).onError = "again"   -> Again(k, 0)
      [] Current(k).onError = "forever" -> UNCHANGED <<task, reader, mutex>>

Fails == "failure" \in Disturbances

Flaws(k) == flawed' = (flawed \/ task[k].op = "init")

\* A transaction of the driver, or of the scan's own, that a chip answers.
BusOpen   == bus \in {"open", "lost"}
Works(k)  == BusOpen \/ k \in Scans
Breaks(k) == Fails \/ ~Works(k)

\* ReadReg*, WriteRegBytes: the mutex is taken for the one transaction.
LockedStep(k) == mutex["own"] = Nil

\* Only HDC1080 is read without the pointer being set in the same transaction.
Points(k) ==
    IF kind = "HDC1080" THEN [chip EXCEPT !.pointer = Current(k).register, !.by = k] ELSE chip

\* I2C.Init: active before anything is set.  An Open that fails drops the handle
\* that another Init has opened, through which the chip is still reached.
OpenStep(k) ==
    /\ Doing(k, "open")
    /\ \/ active' = TRUE /\ bus' = "open" /\ Advance(k)
       \/ /\ Fails
          /\ bus' = IF BusOpen THEN "lost" ELSE "none"
          /\ Return(k)
          /\ UNCHANGED active
    /\ UNCHANGED <<device, chip, got, flawed, panicked>>

\* The library's constructor gives nil with its error.
MakeStep(k) ==
    /\ Doing(k, "make")
    /\ \/ /\ BusOpen \/ kind \in {"MAX30102", "ADC"}
          /\ device' = "live"
          /\ active' = (active \/ kind = "ADC")
          /\ Advance(k)
          /\ UNCHANGED flawed
       \/ /\ Fails \/ (~BusOpen /\ kind \notin {"MAX30102", "ADC"})
          /\ device' = "nil"
          /\ flawed' = TRUE
          /\ Return(k)
          /\ UNCHANGED active
    /\ UNCHANGED <<bus, chip, got, panicked>>

StartupStep(k) ==
    /\ Doing(k, "startup")
    /\ \/ device = "live" /\ Advance(k) /\ UNCHANGED <<flawed, panicked>>
       \/ Fails /\ device = "live" /\ Return(k) /\ flawed' = TRUE /\ UNCHANGED panicked
       \/ device = "nil" /\ panicked' = TRUE /\ UNCHANGED <<task, reader, mutex, flawed>>
    /\ UNCHANGED <<driverVars, chip, got>>

\* (mutant: ReadTemperature does not take the mutex)
LockFreely(k) ==
    /\ Doing(k, "lock")
    /\ Advance(k)
    /\ UNCHANGED <<driverVars, chip, got, flawed, panicked>>

LockStep(k) ==
    /\ Doing(k, "lock")
    /\ mutex[Current(k).register] = Nil
    /\ mutex' = [mutex EXCEPT ![Current(k).register] = k]
    /\ task' = [task EXCEPT ![k].at = @ + 1]
    /\ UNCHANGED <<reader, driverVars, chip, got, flawed, panicked>>

UnlockStep(k) ==
    /\ Doing(k, "unlock")
    /\ mutex' = [mutex EXCEPT ![Current(k).register] = Nil]
    /\ task' = IF task[k].at = Len(Program(k)) THEN Finish(k) ELSE [task EXCEPT ![k].at = @ + 1]
    /\ UNCHANGED <<reader, driverVars, chip, got, flawed, panicked>>

\* What the register holds once it is written; a command makes a parameter of
\* the value written last, whoever wrote it, and a reset drops every setting.
Written(k) ==
    LET r == Current(k).register IN
    CASE Current(k).what = "param"   -> [Points(k) EXCEPT !.latch = r]
      [] Current(k).what = "command" /\ chip.latch # r -> [Points(k) EXCEPT !.set = @ \ {r}]
      [] Current(k).what = "write" /\ r = "reset" -> [Points(k) EXCEPT !.set = {}]
      [] OTHER                       -> [Points(k) EXCEPT !.set = @ \cup ({r} \cap Settings)]

\* Writes do not ask whether the driver is active.
WriteStep(k) ==
    /\ \/ Doing(k, "send")
       \/ \E w \in {"write", "param", "command"} : Doing(k, w) /\ LockedStep(k)
    /\ \/ Works(k) /\ chip' = Written(k) /\ Advance(k) /\ UNCHANGED flawed
       \/ Breaks(k) /\ Error(k) /\ Flaws(k) /\ UNCHANGED chip
    /\ UNCHANGED <<driverVars, got, panicked>>

\* A read of a driver that is not active gives zeros and no error: no status of
\* CCS811 that is of any use.
CheckStep(k) ==
    /\ Doing(k, "check") /\ LockedStep(k)
    /\ \/ /\ Works(k) /\ (active \/ k \in Scans)
          /\ chip' = Points(k)
          /\ Advance(k)
          /\ UNCHANGED flawed
       \/ /\ ~active /\ k \notin Scans
          /\ IF Current(k).register = "status" THEN Error(k) ELSE Advance(k)
          /\ Flaws(k)
          /\ UNCHANGED chip
       \/ Fails /\ Error(k) /\ Flaws(k) /\ UNCHANGED chip
    /\ UNCHANGED <<driverVars, got, panicked>>

PollStep(k) ==
    /\ Doing(k, "poll") /\ LockedStep(k)
    /\ \/ active /\ Works(k) /\ chip' = Points(k) /\ (Advance(k) \/ Again(k, 1))
       \/ ~active /\ Again(k, 1) /\ UNCHANGED chip
       \/ Fails /\ Return(k) /\ UNCHANGED chip
    /\ UNCHANGED <<driverVars, got, flawed, panicked>>

\* A reading is delivered, with where it comes from.
Deliver(k, from) ==
    got' = [got EXCEPT ![k[1]] = @ \cup from \cup (IF Settings \subseteq chip.set THEN {} ELSE {"unready"})]

\* CCS811 keeps zeros to itself.
ReadStep(k) ==
    /\ Doing(k, "read") \/ Doing(k, "nonzero")
    /\ LockedStep(k)
    /\ \/ active /\ Works(k) /\ chip' = Points(k) /\ Deliver(k, {"own"}) /\ Advance(k)
       \/ /\ ~active
          /\ IF Doing(k, "nonzero") THEN UNCHANGED got ELSE Deliver(k, {"blank"})
          /\ Advance(k)
          /\ UNCHANGED chip
       \/ Fails /\ Error(k) /\ UNCHANGED <<chip, got>>
    /\ UNCHANGED <<driverVars, flawed, panicked>>

\* ReadBytes: whatever the pointer is at.
FetchStep(k) ==
    /\ Doing(k, "fetch")
    /\ \/ /\ active /\ Works(k)
          /\ Deliver(k, {IF chip.pointer = Current(k).register /\ chip.by = k THEN "own" ELSE "other"})
          /\ Advance(k)
       \/ ~active /\ Deliver(k, {"blank"}) /\ Advance(k)
       \/ Fails /\ Error(k) /\ UNCHANGED got
    /\ UNCHANGED <<driverVars, chip, flawed, panicked>>

\* The library's reading, on its own bus.
SenseStep(k) ==
    /\ Doing(k, "sense")
    /\ \/ device = "live" /\ Deliver(k, {"own"}) /\ Advance(k) /\ UNCHANGED panicked
       \/ /\ device = "dead" \/ (Fails /\ device = "live")
          /\ Error(k)
          /\ UNCHANGED <<got, panicked>>
       \/ device = "nil" /\ panicked' = TRUE /\ UNCHANGED <<task, reader, mutex, got>>
    /\ UNCHANGED <<driverVars, chip, flawed>>

TaskStep(k) ==
    /\ \/ OpenStep(k) \/ MakeStep(k) \/ StartupStep(k) \/ LockStep(k) \/ UnlockStep(k)
       \/ WriteStep(k) \/ CheckStep(k) \/ PollStep(k) \/ ReadStep(k) \/ FetchStep(k) \/ SenseStep(k)
    /\ UNCHANGED <<kind, closes, closedIn, shared, overtaken>>

--------------------------------------------------------------------------------
Next ==
    /\ ~panicked
    /\ \/ \E q \in Requests : ReaderStep(q)
       \/ \E k \in Scans : Scan(k)
       \/ \E k \in Workers : TaskStep(k)
       \/ Close

Spec == Init /\ [][Next]_vars

\* A goroutine that can run does, in the end; which of them is left open.
Goroutines ==
    /\ ~panicked
    /\ (\E q \in Requests : ReaderStep(q)) \/ (\E k \in Workers : TaskStep(k))

FairSpec == Spec /\ WF_vars(Goroutines)

--------------------------------------------------------------------------------
\* What HDC1080 answers is the conversion that the same goroutine has started:
\* neither its other half, another request nor the scan gets between the two.
OwnConversions == \A q \in Requests : "other" \notin got[q]

\* Zeros that no chip has sent are taken for a reading only if the driver was
\* closed under the harvest.
ZerosOnlyIfClosed == \A q \in Requests : "blank" \in got[q] => q \in closedIn

\* A chip that is not set up is read only if a request came while another set
\* it up, or the setting up went wrong, or the chip is CCS811's, and a request
\* that found it closed has reset it before another's reading.
ReadySensors ==
    (\E q \in Requests : "unready" \in got[q]) =>
        shared \/ flawed \/ (kind = "CCS811" /\ overtaken)

\* The program ends in a nil device only if the sensor was closed, if it was
\* woken up twice at once, or if it is an LSM303, whose Active does not look.
PanicsOnlyIfClosed ==
    panicked => closes > 0 \/ shared \/ kind \in {"LSM303A", "LSM303M"}

\* Whoever begins to wake up, harvest or verify a sensor ends it, whatever
\* fails, but for the sampling of an ADC.
OperationsEnd ==
    <>[](panicked \/ kind = "ADC" \/ \A k \in Workers : ~Running(k))
================================================================================
