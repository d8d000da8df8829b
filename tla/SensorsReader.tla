----------------------------- MODULE SensorsReader -----------------------------
(***************************************************************************)
(* The sensors reading engine (controllers/engine/sensors_reader.go).      *)
(* Callers hand requests to one loop over an unbuffered channel; each      *)
(* request is handled in a goroutine that starts one more for every        *)
(* suitable sensor; that one wakes the sensor up, arms the timer that will *)
(* put it back to sleep and lets a third goroutine harvest it into the     *)
(* request's channels, until it is done or the request's time is over.     *)
(*                                                                         *)
(* A sensor is an object: one that is plugged in again is another.  A      *)
(* reading is the sensor it comes from.  Timers are those of Go before     *)
(* 1.23: a tick stays in its channel, whatever Reset does.                 *)
(***************************************************************************)
EXTENDS Naturals, FiniteSets

CONSTANTS
    Sensors, Metrics, MetricsOf,
    Callers, Wanted,
    OneShot,       \* the callers that send one request, the others subscribe
    Requests,      \* the requests the engine takes: a bound
    Timers,        \* the standby timers made: a bound
    MaxRuns,       \* bound on the calls of Run
    PipeSize,      \* results that fit in a channel
    Disturbances,  \* what may happen besides
    Nil

ASSUME SensorsAssumption ==
    /\ MetricsOf \in [Sensors -> SUBSET Metrics]
    /\ Wanted \in [Callers -> SUBSET Metrics]
    /\ OneShot \subseteq Callers
    /\ MaxRuns \in Nat
    /\ PipeSize \in Nat \ {0}
    /\ Disturbances \subseteq {"initFailure", "readFailure", "timeout", "unplug",
                               "close", "mapRace"}
    /\ Nil \notin Callers \cup Timers \cup Sensors

VARIABLES
    caller,     \* where a caller is
    cancelled,  \* the receivers whose context is cancelled
    runs,       \* calls of Run so far
    loop,       \* the Run whose context the loop has, 0: once.Do did not run yet
    ended,      \* the contexts of Run that are cancelled
    stopped,    \* the loop has returned
    active,     \* SensorsReader.active
    plugged,    \* r.sensors
    unplugged,  \* the sensors that were removed from it
    awake,      \* the sensors for which Active() holds
    halfAwake,  \* those that a failed Init left so and nobody has found since: history
    request,    \* each request: its state, its caller, whether its time is over
    pipe,       \* the readings in the request's channels
    results,    \* what aggregate took out of them
    reader,     \* the goroutine of a request and a sensor
    unread,     \* metrics its harvester has still to write, Nil: no harvester
    timerOf,    \* standbyTimers
    timer,      \* the timers: of which sensor, running, a tick in the channel, waiters
    sleeper,    \* goroutines of handleStandby about to close the sensor
    fatal       \* two goroutines met in a map

callerVars  == <<caller, cancelled>>
loopVars    == <<runs, loop, ended, stopped, active>>
sensorVars  == <<plugged, unplugged, awake, halfAwake>>
requestVars == <<request, pipe, results>>
readerVars  == <<reader, unread>>
timerVars   == <<timerOf, timer, sleeper>>
vars == <<callerVars, loopVars, sensorVars, requestVars, readerVars, timerVars, fatal>>

Pairs == Requests \X Sensors
RequestStates == {"free", "taken", "waiting", "draining", "answered"}
ReaderStates  == {"none", "init", "open", "arm", "make", "watch", "read", "wait", "done",
                  "failed"}
CallerStates  == {"idle", "sending", "sent", "sleeping", "over"}

RequestRecords == [state : RequestStates, by : Callers \cup {Nil}, late : BOOLEAN]
TimerRecords   == [of : Sensors \cup {Nil}, running : BOOLEAN, tick : BOOLEAN, waiters : Nat]
Channels       == [Metrics -> SUBSET Sensors]

TypeOK ==
    /\ caller \in [Callers -> CallerStates]
    /\ cancelled \subseteq Callers
    /\ runs \in 0..MaxRuns
    /\ loop \in 0..MaxRuns
    /\ ended \subseteq 1..MaxRuns
    /\ stopped \in BOOLEAN
    /\ active \in BOOLEAN
    /\ plugged \subseteq Sensors
    /\ unplugged \subseteq Sensors
    /\ awake \subseteq Sensors
    /\ halfAwake \subseteq Sensors
    /\ request \in [Requests -> RequestRecords]
    /\ pipe \in [Requests -> Channels]
    /\ results \in [Requests -> Channels]
    /\ reader \in [Pairs -> ReaderStates]
    /\ unread \in [Pairs -> (SUBSET Metrics) \cup {Nil}]
    /\ timerOf \in [Sensors -> Timers \cup {Nil}]
    /\ timer \in [Timers -> TimerRecords]
    /\ sleeper \in [Sensors -> Nat]
    /\ fatal \in BOOLEAN

Nothing == [m \in Metrics |-> {}]

Init ==
    /\ caller = [c \in Callers |-> "idle"]
    /\ cancelled = {}
    /\ runs = 0
    /\ loop = 0
    /\ ended = {}
    /\ stopped = FALSE
    /\ active = FALSE
    /\ plugged \in SUBSET Sensors
    /\ unplugged = {}
    /\ awake = {}
    /\ halfAwake = {}
    /\ request = [q \in Requests |-> [state |-> "free", by |-> Nil, late |-> FALSE]]
    /\ pipe = [q \in Requests |-> Nothing]
    /\ results = [q \in Requests |-> Nothing]
    /\ reader = [p \in Pairs |-> "none"]
    /\ unread = [p \in Pairs |-> Nil]
    /\ timerOf = [s \in Sensors |-> Nil]
    /\ timer = [t \in Timers |-> [of |-> Nil, running |-> FALSE, tick |-> FALSE, waiters |-> 0]]
    /\ sleeper = [s \in Sensors |-> 0]
    /\ fatal = FALSE

--------------------------------------------------------------------------------
(* Callers: SubscribeReceiver and SendRequest.                              *)

CallerGoes(c, from, to) ==
    /\ caller[c] = from
    /\ caller' = [caller EXCEPT ![c] = to]

Ask(c) == CallerGoes(c, "idle", "sending") /\ UNCHANGED cancelled

Cancel(c) ==
    /\ c \notin OneShot \cup cancelled
    /\ caller[c] # "idle"
    /\ cancelled' = cancelled \cup {c}
    /\ UNCHANGED caller

\* (mutant: the context is not looked at after a request)
AfterSendAlways(c) == CallerGoes(c, "sent", "sleeping") /\ UNCHANGED cancelled

AfterSend(c) ==
    /\ CallerGoes(c, "sent", IF c \in cancelled THEN "over" ELSE "sleeping")
    /\ UNCHANGED cancelled

\* The interval has passed; the context is not looked at here.
WakeUp(c) == CallerGoes(c, "sleeping", "sending") /\ UNCHANGED cancelled

CallerStep(c) ==
    /\ Ask(c) \/ Cancel(c) \/ AfterSend(c) \/ WakeUp(c)
    /\ UNCHANGED <<loopVars, sensorVars, requestVars, readerVars, timerVars, fatal>>

--------------------------------------------------------------------------------
(* The engine's loop, and the sensors it knows.                             *)

Run ==
    /\ runs < MaxRuns
    /\ runs' = runs + 1
    /\ active' = TRUE
    /\ UNCHANGED <<loop, ended, stopped>>

\* The goroutine of one Run, not always the first, is the one once.Do lets pass.
StartLoop(n) ==
    /\ loop = 0
    /\ n \in 1..runs
    /\ loop' = n
    /\ UNCHANGED <<runs, ended, stopped, active>>

\* The loop's context is not always the one Close cancels.
LoopEnds ==
    /\ loop \in ended
    /\ ~stopped
    /\ stopped' = TRUE
    /\ UNCHANGED <<runs, loop, ended, active>>

LoopStep ==
    /\ Run \/ LoopEnds \/ \E n \in 1..MaxRuns : StartLoop(n)
    /\ UNCHANGED <<callerVars, sensorVars, requestVars, readerVars, timerVars, fatal>>

\* Close: it cancels the context of the last Run.
Close ==
    /\ "close" \in Disturbances
    /\ runs > 0
    /\ active' = FALSE
    /\ ended' = ended \cup {runs}
    /\ awake' = awake \ plugged
    /\ UNCHANGED <<runs, loop, stopped, plugged, unplugged, halfAwake>>

Register(s) ==
    /\ s \notin plugged \cup unplugged
    /\ plugged' = plugged \cup {s}
    /\ UNCHANGED <<loopVars, unplugged, awake, halfAwake>>

Unregister(s) ==
    /\ "unplug" \in Disturbances
    /\ s \in plugged
    /\ plugged' = plugged \ {s}
    /\ unplugged' = unplugged \cup {s}
    /\ awake' = awake \ {s}
    /\ UNCHANGED <<loopVars, halfAwake>>

SensorsStep ==
    /\ Close \/ \E s \in Sensors : Register(s) \/ Unregister(s)
    /\ UNCHANGED <<callerVars, requestVars, readerVars, timerVars, fatal>>

\* A select with a request and an ended context may go either way.
Take(c, q) ==
    /\ loop # 0
    /\ ~stopped
    /\ request[q].state = "free"
    /\ CallerGoes(c, "sending", IF c \in OneShot THEN "over" ELSE "sent")
    /\ request' = [request EXCEPT ![q].state = "taken", ![q].by = c]
    /\ UNCHANGED <<cancelled, loopVars, sensorVars, pipe, results, readerVars, timerVars, fatal>>

--------------------------------------------------------------------------------
(* handleRequest                                                            *)

RequestGoes(q, from, to) ==
    /\ request[q].state = from
    /\ request' = [request EXCEPT ![q].state = to]

Asked(q)    == Wanted[request[q].by]
Suitable(q) == {s \in plugged : MetricsOf[s] \cap Asked(q) # {}}

\* A goroutine for each suitable sensor, all counted in the wait group.
Handle(q) ==
    /\ RequestGoes(q, "taken", "waiting")
    /\ reader' = [p \in Pairs |-> IF p[1] = q /\ p[2] \in Suitable(q) THEN "init" ELSE reader[p]]
    /\ UNCHANGED <<pipe, results>>

\* The three seconds are over, or the engine's context is cancelled.
TimeOut(q) ==
    /\ "timeout" \in Disturbances \/ loop \in ended
    /\ request[q].state = "waiting"
    /\ ~request[q].late
    /\ request' = [request EXCEPT ![q].late = TRUE]
    /\ UNCHANGED <<pipe, results, reader>>

\* (mutant: handleRequest does not wait for the readings)
GatherEarly(q) == RequestGoes(q, "waiting", "draining") /\ UNCHANGED <<pipe, results, reader>>

\* waitGroup.Wait: a sensor that failed to initialise is never counted off.
Gather(q) ==
    /\ \A s \in Sensors : reader[<<q, s>>] \in {"none", "done"}
    /\ RequestGoes(q, "waiting", "draining")
    /\ UNCHANGED <<pipe, results, reader>>

\* aggregate: one receive from the channel of a metric; a harvester that was
\* held up by a full channel writes before the next.
Drain(q, m, s) ==
    /\ request[q].state = "draining"
    /\ s \in pipe[q][m]
    /\ pipe' = [pipe EXCEPT ![q][m] = @ \ {s}]
    /\ results' = [results EXCEPT ![q][m] = @ \cup {s}]
    /\ UNCHANGED <<request, reader>>

Answer(q) ==
    /\ pipe[q] = Nothing
    /\ RequestGoes(q, "draining", "answered")
    /\ UNCHANGED <<pipe, results, reader>>

HandlerStep(q) ==
    /\ \/ Handle(q) \/ Gather(q) \/ Answer(q)
       \/ \E m \in Metrics, s \in Sensors : Drain(q, m, s)
    /\ UNCHANGED <<callerVars, loopVars, sensorVars, unread, timerVars, fatal>>

TimeStep(q) == TimeOut(q) /\ UNCHANGED <<callerVars, loopVars, sensorVars, unread, timerVars, fatal>>

--------------------------------------------------------------------------------
(* The goroutine of a request and a sensor.                                 *)

ReaderGoes(p, from, to) ==
    /\ reader[p] = from
    /\ reader' = [reader EXCEPT ![p] = to]

\* initSensor: a sensor that is active is not initialised ...
FindActive(p) ==
    /\ p[2] \in awake
    /\ ReaderGoes(p, "init", "arm")
    /\ halfAwake' = halfAwake \ {p[2]}
    /\ UNCHANGED <<awake, unread, timerOf, timer>>

FindAsleep(p) ==
    /\ p[2] \notin awake
    /\ ReaderGoes(p, "init", "open")
    /\ UNCHANGED <<awake, halfAwake, unread, timerOf, timer>>

\* ... and one that was not is, whoever else has done so since.
WakeSensor(p) ==
    /\ ReaderGoes(p, "open", "arm")
    /\ awake' = awake \cup {p[2]}
    /\ halfAwake' = halfAwake \ {p[2]}
    /\ UNCHANGED <<unread, timerOf, timer>>

\* Init opens the bus, which makes the sensor active, and configures the sensor;
\* either may fail.  The goroutine returns without a standby, and without
\* waitGroup.Done.
WakeFails(p) ==
    /\ "initFailure" \in Disturbances
    /\ ReaderGoes(p, "open", "failed")
    /\ \E opened \in SUBSET {p[2]} :
          /\ awake' = awake \cup opened
          /\ halfAwake' = halfAwake \cup (opened \ awake)
    /\ UNCHANGED <<unread, timerOf, timer>>

\* (mutant: a timer that has fired is reset and nobody waits for it)
RearmUnwatched(p) ==
    LET t == timerOf[p[2]] IN
    /\ t # Nil
    /\ ReaderGoes(p, "arm", "read")
    /\ timer' = [timer EXCEPT ![t].running = TRUE]
    /\ UNCHANGED <<awake, halfAwake, unread, timerOf>>

\* The sensor's timer is reset, with a new handleStandby if it was not running ...
Rearm(p) ==
    LET t == timerOf[p[2]] IN
    /\ t # Nil
    /\ ReaderGoes(p, "arm", "read")
    /\ timer' = [timer EXCEPT ![t].running = TRUE,
                              ![t].waiters = IF timer[t].running THEN @ ELSE @ + 1]
    /\ UNCHANGED <<awake, halfAwake, unread, timerOf>>

\* ... or there is none in the map yet ...
NoTimer(p) ==
    /\ timerOf[p[2]] = Nil
    /\ ReaderGoes(p, "arm", "make")
    /\ UNCHANGED <<awake, halfAwake, unread, timerOf, timer>>

\* ... and one is made, even if another goroutine has put one there since ...
MakeTimer(p, t) ==
    /\ timer[t].of = Nil
    /\ ReaderGoes(p, "make", "watch")
    /\ timer' = [timer EXCEPT ![t] = [of |-> p[2], running |-> TRUE, tick |-> FALSE, waiters |-> 0]]
    /\ timerOf' = [timerOf EXCEPT ![p[2]] = t]
    /\ UNCHANGED <<awake, halfAwake, unread>>

\* ... and handleStandby waits for the timer that is in the map by then: nobody
\* waits for one that another goroutine has replaced.
Watch(p) ==
    /\ ReaderGoes(p, "watch", "read")
    /\ timer' = [timer EXCEPT ![timerOf[p[2]]].waiters = @ + 1]
    /\ UNCHANGED <<awake, halfAwake, unread, timerOf>>

\* readSensor starts the harvester of a sensor that is still active.
Read(p) ==
    /\ ReaderGoes(p, "read", IF p[2] \in awake THEN "wait" ELSE "done")
    /\ unread' = IF p[2] \in awake
                 THEN [unread EXCEPT ![p] = MetricsOf[p[2]] \cap Asked(p[1])]
                 ELSE unread
    /\ UNCHANGED <<awake, halfAwake, timerOf, timer>>

\* The harvester is done and the reader takes that from its channel ...
Harvested(p) ==
    /\ unread[p] = {}
    /\ ReaderGoes(p, "wait", "done")
    /\ unread' = [unread EXCEPT ![p] = Nil]
    /\ UNCHANGED <<awake, halfAwake, timerOf, timer>>

\* (mutant: the reader leaves only with the harvester)
GiveUpNever(p) ==
    /\ request[p[1]].late /\ unread[p] = {}
    /\ ReaderGoes(p, "wait", "done")
    /\ UNCHANGED <<awake, halfAwake, unread, timerOf, timer>>

\* ... or the reader leaves, and nobody will ever take it.
GiveUp(p) ==
    /\ request[p[1]].late
    /\ ReaderGoes(p, "wait", "done")
    /\ UNCHANGED <<awake, halfAwake, unread, timerOf, timer>>

ReaderStep(p) ==
    /\ \/ FindActive(p) \/ FindAsleep(p) \/ WakeSensor(p) \/ WakeFails(p)
       \/ Rearm(p) \/ NoTimer(p) \/ (\E t \in Timers : MakeTimer(p, t)) \/ Watch(p)
       \/ Read(p) \/ Harvested(p) \/ GiveUp(p)
    /\ UNCHANGED <<callerVars, loopVars, plugged, unplugged, requestVars, sleeper, fatal>>

\* Harvest: the writer of a metric blocks while its channel is full.  Metrics
\* that nobody asked for have no channel and are not written.
Write(p, m) ==
    /\ Cardinality(pipe[p[1]][m]) < PipeSize
    /\ pipe' = [pipe EXCEPT ![p[1]][m] = @ \cup {p[2]}]

\* WriteWithError of an error, or a value of a type Write does not know.
WriteFails == "readFailure" \in Disturbances /\ UNCHANGED pipe

HarvestStep(p, m) ==
    /\ unread[p] # Nil
    /\ m \in unread[p]
    /\ Write(p, m) \/ WriteFails
    /\ unread' = [unread EXCEPT ![p] = @ \ {m}]
    /\ UNCHANGED <<callerVars, loopVars, sensorVars, request, results, reader, timerVars, fatal>>

--------------------------------------------------------------------------------
(* Standby.                                                                 *)

Fire(t) ==
    /\ timer[t].running
    /\ timer' = [timer EXCEPT ![t].running = FALSE, ![t].tick = TRUE]
    /\ UNCHANGED <<sleeper, awake>>

\* handleStandby: the tick is taken ...
StandbyOver(t) ==
    /\ timer[t].tick
    /\ timer[t].waiters > 0
    /\ timer' = [timer EXCEPT ![t].tick = FALSE, ![t].waiters = @ - 1]
    /\ sleeper' = [sleeper EXCEPT ![timer[t].of] = @ + 1]
    /\ UNCHANGED awake

\* (mutant: the sensor is closed before any tick)
SleepAtOnce(s) ==
    /\ timerOf[s] # Nil
    /\ sleeper' = [sleeper EXCEPT ![s] = @ - 1]
    /\ awake' = awake \ {s}
    /\ UNCHANGED timer

\* ... and the sensor closed, whoever reads it now.
Sleep(s) ==
    /\ sleeper[s] > 0
    /\ sleeper' = [sleeper EXCEPT ![s] = @ - 1]
    /\ awake' = awake \ {s}
    /\ UNCHANGED timer

StandbyStep ==
    /\ \/ \E t \in Timers : Fire(t) \/ StandbyOver(t)
       \/ \E s \in Sensors : Sleep(s)
    /\ UNCHANGED <<callerVars, loopVars, plugged, unplugged, halfAwake, requestVars, readerVars, timerOf, fatal>>

\* standbyTimers has no lock: Go ends the program when it notices a write that
\* meets another access.
MapRace ==
    /\ "mapRace" \in Disturbances
    /\ \E p1, p2 \in Pairs : p1 # p2 /\ reader[p1] = "make" /\ reader[p2] \in {"arm", "make", "watch"}
    /\ fatal' = TRUE
    /\ UNCHANGED <<callerVars, loopVars, sensorVars, requestVars, readerVars, timerVars>>

--------------------------------------------------------------------------------
Next ==
    /\ ~fatal
    /\ \/ \E c \in Callers : CallerStep(c) \/ \E q \in Requests : Take(c, q)
       \/ LoopStep \/ SensorsStep \/ StandbyStep \/ MapRace
       \/ \E q \in Requests : HandlerStep(q) \/ TimeStep(q)
       \/ \E p \in Pairs : ReaderStep(p) \/ \E m \in Metrics : HarvestStep(p, m)

Spec == Init /\ [][Next]_vars

\* Goroutines that can run do, and a request's time passes.  Nothing makes
\* callers ask or engines run, and a sensor may be harvested for ever.
FairSpec ==
    /\ Spec
    /\ \A q \in Requests : WF_vars(HandlerStep(q)) /\ WF_vars(TimeStep(q))
    /\ \A p \in Pairs : WF_vars(ReaderStep(p))

--------------------------------------------------------------------------------
(* What the engine promises.                                                *)

\* Where a caller stands with the service: one that is cancelled while it sends
\* or sleeps asks once more, one that is cancelled before it looks at its
\* context does not.
Standing(c) ==
    CASE caller[c] \in {"idle"} -> "none"
      [] caller[c] \in {"over"} -> "over"
      [] caller[c] \notin {"idle", "over"} /\ c \notin cancelled -> "on"
      [] caller[c] = "sent" /\ c \in cancelled -> "over"
      [] OTHER -> "off"

Service == INSTANCE ReadingService WITH
    standing  <- [c \in Callers |-> Standing(c)],
    takenFrom <- [q \in Requests |-> request[q].by],
    answer    <- [q \in Requests |-> IF request[q].state = "answered"
                                     THEN [m \in Asked(q) |-> results[q][m]]
                                     ELSE Nil]

\* The engine is a reading service: each request is answered once, by sensors
\* that measure what was asked for, and a cancelled receiver asks at most once
\* more, whatever sensors, timers and harvesters do.
ServesReadings == Service!Spec

\* Every request the loop takes is answered, in the end, if no sensor fails to
\* initialise: a sensor that hangs costs a request its time and not its answer.
AnswersReadings == Service!FairSpec

\* The standby of s will come: its timer is due and a handleStandby waits for it,
\* or is about to.
StandbyDue(s) ==
    \E t \in Timers :
        /\ timer[t].of = s
        /\ timer[t].running \/ timer[t].tick
        /\ \/ timer[t].waiters > 0
           \/ timerOf[s] = t /\ \E q \in Requests : reader[<<q, s>>] = "watch"

\* A sensor that is awake is going to be put back to sleep: a reader is about to
\* arm its standby, or the standby is due, or is about to close it.  It needs
\* Reset's answer, the goroutines that wait and Close to go together, and it
\* holds of every sensor but those that a failed Init has left awake
\* (sensors_reader.go:222-225), until the next request finds one so.
AwakeWillSleep ==
    \A s \in awake \ halfAwake :
        \/ \E q \in Requests : reader[<<q, s>>] \in {"arm", "make"}
        \/ sleeper[s] > 0
        \/ StandbyDue(s)

\* Only a request whose time was over leaves something behind: a harvester that
\* nobody waits for, or readings in channels that nobody drains.
OnlyLateLeavesBehind ==
    \A q \in Requests :
        request[q].state = "answered" /\ ~request[q].late =>
            /\ \A s \in Sensors : unread[<<q, s>>] = Nil
            /\ pipe[q] = Nothing
================================================================================
