-------------------------- MODULE SensorsReaderProofs --------------------------
(***************************************************************************)
(* Theorems about SensorsReader, for every set of sensors, callers,        *)
(* requests and timers: type correctness, that a sensor which is awake is  *)
(* going to be put back to sleep, the refinement of ReadingService without *)
(* fairness, and that only a late request leaves something behind.         *)
(***************************************************************************)
EXTENDS SensorsReader, TLAPS

--------------------------------------------------------------------------------
(* Types.                                                                   *)

\* TypeOK, a part for each group of variables.
CallersTyped  == caller \in [Callers -> CallerStates] /\ cancelled \subseteq Callers
LoopNumbers   == runs \in 0..MaxRuns /\ loop \in 0..MaxRuns /\ ended \subseteq 1..MaxRuns
LoopFlags     == stopped \in BOOLEAN /\ active \in BOOLEAN
SensorsTyped  == plugged \subseteq Sensors /\ unplugged \subseteq Sensors /\ awake \subseteq Sensors
                 /\ halfAwake \subseteq Sensors
RequestsTyped == /\ request \in [Requests -> RequestRecords]
                 /\ pipe \in [Requests -> Channels] /\ results \in [Requests -> Channels]
ReadersTyped  == reader \in [Pairs -> ReaderStates] /\ unread \in [Pairs -> (SUBSET Metrics) \cup {Nil}]
TimersTyped   == /\ timerOf \in [Sensors -> Timers \cup {Nil}] /\ timer \in [Timers -> TimerRecords]
                 /\ sleeper \in [Sensors -> Nat]
FatalTyped    == fatal \in BOOLEAN

LEMMA TypeParts ==
    TypeOK <=> /\ CallersTyped /\ LoopNumbers /\ LoopFlags /\ SensorsTyped
               /\ RequestsTyped /\ ReadersTyped /\ TimersTyped /\ FatalTyped
BY Zenon DEF TypeOK, CallersTyped, LoopNumbers, LoopFlags, SensorsTyped, RequestsTyped, ReadersTyped,
       TimersTyped, FatalTyped

LEMMA TypePartsNext ==
    TypeOK' <=> /\ CallersTyped' /\ LoopNumbers' /\ LoopFlags' /\ SensorsTyped'
                /\ RequestsTyped' /\ ReadersTyped' /\ TimersTyped' /\ FatalTyped'
BY Zenon DEF TypeOK, CallersTyped, LoopNumbers, LoopFlags, SensorsTyped, RequestsTyped, ReadersTyped,
       TimersTyped, FatalTyped

\* A step that leaves a group alone leaves it typed.
LEMMA PartsKept ==
    ASSUME TypeOK
    PROVE  /\ UNCHANGED callerVars => CallersTyped'
           /\ UNCHANGED loopVars => LoopNumbers' /\ LoopFlags'
           /\ UNCHANGED sensorVars => SensorsTyped'
           /\ UNCHANGED requestVars => RequestsTyped'
           /\ UNCHANGED readerVars => ReadersTyped'
           /\ UNCHANGED timerVars => TimersTyped'
           /\ UNCHANGED fatal => FatalTyped'
<1>1. UNCHANGED callerVars => CallersTyped'
  BY Zenon DEF TypeOK, callerVars, CallersTyped
<1>2. UNCHANGED loopVars => LoopNumbers' /\ LoopFlags'
  BY Zenon DEF TypeOK, loopVars, LoopNumbers, LoopFlags
<1>3. UNCHANGED sensorVars => SensorsTyped'
  BY Zenon DEF TypeOK, sensorVars, SensorsTyped
<1>4. UNCHANGED requestVars => RequestsTyped'
  BY Zenon DEF TypeOK, requestVars, RequestsTyped
<1>5. UNCHANGED readerVars => ReadersTyped'
  BY Zenon DEF TypeOK, readerVars, ReadersTyped
<1>6. UNCHANGED timerVars => TimersTyped'
  BY Zenon DEF TypeOK, timerVars, TimersTyped
<1>7. UNCHANGED fatal => FatalTyped'
  BY Zenon DEF TypeOK, FatalTyped
<1> QED BY <1>1, <1>2, <1>3, <1>4, <1>5, <1>6, <1>7

LEMMA InitTyped == Init => TypeOK
<1> SUFFICES ASSUME Init
             PROVE  TypeOK
  OBVIOUS
<1>1. CallersTyped
  BY DEF Init, CallersTyped, CallerStates
<1>2. LoopNumbers
  BY SensorsAssumption DEF Init, LoopNumbers
<1>3. LoopFlags /\ FatalTyped
  BY Zenon DEF Init, LoopFlags, FatalTyped
<1>4. SensorsTyped
  BY DEF Init, SensorsTyped
<1>5. RequestsTyped
  BY DEF Init, RequestsTyped, RequestRecords, RequestStates, Channels, Nothing
<1>6. ReadersTyped
  BY DEF Init, ReadersTyped, ReaderStates
<1>7. TimersTyped
  BY DEF Init, TimersTyped, TimerRecords
<1> QED BY <1>1, <1>2, <1>3, <1>4, <1>5, <1>6, <1>7, TypeParts

LEMMA RequestGoesTyped ==
    ASSUME TypeOK, NEW q \in Requests, NEW from, NEW to \in RequestStates, RequestGoes(q, from, to)
    PROVE  request' \in [Requests -> RequestRecords]
<1> DEFINE r == [request[q] EXCEPT !.state = to]
<1>1. request[q] \in RequestRecords
  BY DEF TypeOK, RequestRecords
<1>2. r \in RequestRecords
  BY <1>1 DEF RequestRecords
<1>3. request' = [request EXCEPT ![q] = r]
  BY DEF RequestGoes
<1> HIDE DEF r
<1> QED BY <1>2, <1>3 DEF TypeOK, RequestRecords

\* A timer that is set anew is a timer.
LEMMA TimerSetTyped ==
    ASSUME TypeOK, NEW t \in Timers, NEW x \in TimerRecords, timer' = [timer EXCEPT ![t] = x]
    PROVE  timer' \in [Timers -> TimerRecords]
BY DEF TypeOK

LEMMA CallerStepTyped ==
    ASSUME TypeOK, NEW c \in Callers, CallerStep(c)
    PROVE  TypeOK'
<1>1. caller' \in [Callers -> CallerStates]
  BY DEF CallerStep, Ask, Cancel, AfterSend, WakeUp, CallerGoes, CallerStates, TypeOK
<1>2. cancelled' \subseteq Callers
  BY DEF CallerStep, Ask, Cancel, AfterSend, WakeUp, TypeOK
<1>3. CallersTyped'
  BY <1>1, <1>2 DEF CallersTyped
<1>4. UNCHANGED <<loopVars, sensorVars, requestVars, readerVars, timerVars, fatal>>
  BY DEF CallerStep
<1> QED BY <1>3, <1>4, PartsKept, TypePartsNext

LEMMA LoopTyped ==
    ASSUME TypeOK, LoopStep
    PROVE  TypeOK'
<1>1. /\ runs' \in 0..MaxRuns /\ loop' \in 0..MaxRuns /\ ended' = ended
  BY SensorsAssumption DEF LoopStep, Run, LoopEnds, StartLoop, TypeOK
<1>1a. stopped' \in BOOLEAN /\ active' \in BOOLEAN
  BY Zenon DEF LoopStep, Run, LoopEnds, StartLoop, TypeOK
<1>2. LoopNumbers'
  BY <1>1 DEF LoopNumbers, TypeOK
<1>3. LoopFlags'
  BY Zenon, <1>1a DEF LoopFlags
<1>4. UNCHANGED <<callerVars, sensorVars, requestVars, readerVars, timerVars, fatal>>
  BY DEF LoopStep
<1> QED BY <1>2, <1>3, <1>4, PartsKept, TypePartsNext

LEMMA SensorsStepTyped ==
    ASSUME TypeOK, SensorsStep
    PROVE  TypeOK'
<1>1. SensorsTyped'
  BY DEF SensorsStep, Close, Register, Unregister, TypeOK, SensorsTyped
<1>2. LoopNumbers'
  <2>1. UNCHANGED <<runs, loop>>
    BY DEF SensorsStep, Close, Register, Unregister, loopVars
  <2>2. CASE Close
    <3>1. runs \in 1..MaxRuns
      BY <2>2, SensorsAssumption DEF Close, TypeOK
    <3> QED BY <2>1, <2>2, <3>1 DEF Close, LoopNumbers, TypeOK
  <2>3. CASE ended' = ended
    BY <2>1, <2>3 DEF LoopNumbers, TypeOK
  <2> QED BY <2>2, <2>3 DEF SensorsStep, Register, Unregister, loopVars
<1>3. LoopFlags'
  BY Zenon DEF SensorsStep, Close, Register, Unregister, TypeOK, loopVars, LoopFlags
<1>4. UNCHANGED <<callerVars, requestVars, readerVars, timerVars, fatal>>
  BY DEF SensorsStep
<1> QED BY <1>1, <1>2, <1>3, <1>4, PartsKept, TypePartsNext

LEMMA TakeTyped ==
    ASSUME TypeOK, NEW c \in Callers, NEW q \in Requests, Take(c, q)
    PROVE  TypeOK'
<1> DEFINE r == [request[q] EXCEPT !.state = "taken", !.by = c]
<1>1. r \in RequestRecords
  BY DEF TypeOK, RequestRecords, RequestStates
<1>2. request' = [request EXCEPT ![q] = r]
  BY DEF Take
<1> HIDE DEF r
<1>3. request' \in [Requests -> RequestRecords]
  BY <1>1, <1>2 DEF TypeOK, RequestRecords
<1>4. caller' \in [Callers -> CallerStates]
  BY DEF Take, CallerGoes, CallerStates, TypeOK
<1>5. UNCHANGED <<cancelled, pipe, results>>
  BY DEF Take
<1>6. UNCHANGED <<loopVars, sensorVars, readerVars, timerVars, fatal>>
  BY DEF Take
<1>7. CallersTyped'
  BY <1>4, <1>5 DEF CallersTyped, TypeOK
<1>8. RequestsTyped'
  BY <1>3, <1>5 DEF RequestsTyped, TypeOK
<1> QED BY <1>6, <1>7, <1>8, PartsKept, TypePartsNext

\* A channel that is set anew, within the channels of the requests.
LEMMA ChannelSetTyped ==
    ASSUME NEW f \in [Requests -> Channels], NEW q \in Requests, NEW m \in Metrics,
           NEW x \in SUBSET Sensors
    PROVE  [f EXCEPT ![q][m] = x] \in [Requests -> Channels]
<1> DEFINE g == [f[q] EXCEPT ![m] = x]
<1>1. g \in Channels
  BY DEF Channels
<1>2. [f EXCEPT ![q][m] = x] = [f EXCEPT ![q] = g]
  OBVIOUS
<1> HIDE DEF g
<1> QED BY <1>1, <1>2

LEMMA HandlerTyped ==
    ASSUME TypeOK, NEW q \in Requests, HandlerStep(q)
    PROVE  TypeOK'
<1>1. request' \in [Requests -> RequestRecords]
  <2>1. CASE Handle(q)
    BY <2>1, RequestGoesTyped DEF Handle, RequestStates
  <2>2. CASE Gather(q)
    BY <2>2, RequestGoesTyped DEF Gather, RequestStates
  <2>3. CASE Answer(q)
    BY <2>3, RequestGoesTyped DEF Answer, RequestStates
  <2>4. CASE \E m \in Metrics, s \in Sensors : Drain(q, m, s)
    BY <2>4 DEF Drain, TypeOK, RequestRecords
  <2> QED BY <2>1, <2>2, <2>3, <2>4 DEF HandlerStep
<1>2. reader' \in [Pairs -> ReaderStates]
  BY DEF HandlerStep, Handle, Gather, Answer, Drain, TypeOK, ReaderStates
<1>3. /\ pipe' \in [Requests -> Channels]
      /\ results' \in [Requests -> Channels]
  <2>1. CASE \E m \in Metrics, s \in Sensors : Drain(q, m, s)
    <3> PICK m \in Metrics, s \in Sensors : Drain(q, m, s)
      BY <2>1
    <3>1. pipe' \in [Requests -> Channels]
      BY ChannelSetTyped DEF Drain, TypeOK, Channels
    <3>2. results' \in [Requests -> Channels]
      BY ChannelSetTyped DEF Drain, TypeOK, Channels
    <3> QED BY <3>1, <3>2
  <2>2. CASE UNCHANGED <<pipe, results>>
    BY <2>2 DEF TypeOK
  <2> QED BY <2>1, <2>2 DEF HandlerStep, Handle, Gather, Answer
<1>4. UNCHANGED <<callerVars, loopVars, sensorVars, unread, timerVars, fatal>>
  BY DEF HandlerStep
<1>5. RequestsTyped'
  BY <1>1, <1>3 DEF RequestsTyped
<1>6. ReadersTyped'
  BY <1>2, <1>4 DEF ReadersTyped, TypeOK
<1> QED BY <1>4, <1>5, <1>6, PartsKept, TypePartsNext

LEMMA TimeTyped ==
    ASSUME TypeOK, NEW q \in Requests, TimeStep(q)
    PROVE  TypeOK'
<1> DEFINE r == [request[q] EXCEPT !.late = TRUE]
<1>1. r \in RequestRecords
  BY DEF TypeOK, RequestRecords
<1>2. request' = [request EXCEPT ![q] = r]
  BY DEF TimeStep, TimeOut
<1> HIDE DEF r
<1>3. request' \in [Requests -> RequestRecords]
  BY <1>1, <1>2 DEF TypeOK, RequestRecords
<1>4. UNCHANGED <<callerVars, loopVars, sensorVars, unread, timerVars, fatal, pipe, results, reader>>
  BY DEF TimeStep, TimeOut
<1>5. RequestsTyped'
  BY <1>3, <1>4 DEF RequestsTyped, TypeOK
<1>6. UNCHANGED readerVars
  BY <1>4 DEF readerVars
<1> QED BY <1>4, <1>5, <1>6, PartsKept, TypePartsNext

\* What Rearm makes of the timer t.
Rearmed(t) ==
    [timer[t] EXCEPT !.running = TRUE,
                     !.waiters = IF timer[t].running THEN @ ELSE @ + 1]

LEMMA RearmSets ==
    ASSUME TypeOK, NEW p \in Pairs, Rearm(p)
    PROVE  /\ timerOf[p[2]] \in Timers
           /\ timer' = [timer EXCEPT ![timerOf[p[2]]] = Rearmed(timerOf[p[2]])]
           /\ Rearmed(timerOf[p[2]]) \in TimerRecords
           /\ Rearmed(timerOf[p[2]]).of = timer[timerOf[p[2]]].of
           /\ Rearmed(timerOf[p[2]]).running
           /\ Rearmed(timerOf[p[2]]).tick = timer[timerOf[p[2]]].tick
           /\ Rearmed(timerOf[p[2]]).waiters =
                 IF timer[timerOf[p[2]]].running THEN timer[timerOf[p[2]]].waiters
                                                 ELSE timer[timerOf[p[2]]].waiters + 1
<1>1. timerOf[p[2]] \in Timers
  BY DEF Rearm, TypeOK, Pairs
<1>2. timer[timerOf[p[2]]] \in TimerRecords
  BY <1>1 DEF TypeOK, TimerRecords
<1>3. timer' = [timer EXCEPT ![timerOf[p[2]]] = Rearmed(timerOf[p[2]])]
  BY <1>1 DEF Rearm, Rearmed
<1>4. CASE timer[timerOf[p[2]]].running
  BY <1>1, <1>2, <1>3, <1>4 DEF Rearmed, TimerRecords
<1>5. CASE ~timer[timerOf[p[2]]].running
  <2>1. Rearmed(timerOf[p[2]]) =
           [timer[timerOf[p[2]]] EXCEPT !.running = TRUE, !.waiters = timer[timerOf[p[2]]].waiters + 1]
    BY <1>2, <1>5 DEF Rearmed, TimerRecords
  <2>2. timer[timerOf[p[2]]].waiters + 1 \in Nat
    BY <1>2 DEF TimerRecords
  <2> QED BY <1>1, <1>2, <1>3, <1>5, <2>1, <2>2 DEF TimerRecords
<1> QED BY <1>4, <1>5

\* What Watch makes of the timer t.
Watched(t) == [timer[t] EXCEPT !.waiters = @ + 1]

LEMMA WatchSets ==
    ASSUME TypeOK, NEW p \in Pairs, Watch(p)
    PROVE  \/ timerOf[p[2]] = Nil /\ timer' = timer
           \/ /\ timerOf[p[2]] \in Timers
              /\ timer' = [timer EXCEPT ![timerOf[p[2]]] = Watched(timerOf[p[2]])]
              /\ Watched(timerOf[p[2]]) \in TimerRecords
              /\ Watched(timerOf[p[2]]).of = timer[timerOf[p[2]]].of
              /\ Watched(timerOf[p[2]]).running = timer[timerOf[p[2]]].running
              /\ Watched(timerOf[p[2]]).tick = timer[timerOf[p[2]]].tick
              /\ Watched(timerOf[p[2]]).waiters = timer[timerOf[p[2]]].waiters + 1
<1>0. p[2] \in Sensors
  BY DEF Pairs
<1>1. CASE timerOf[p[2]] \notin Timers
  BY <1>0, <1>1, SensorsAssumption DEF Watch, TypeOK
<1>2. CASE timerOf[p[2]] \in Timers
  <2>1. timer[timerOf[p[2]]] \in TimerRecords
    BY <1>2 DEF TypeOK, TimerRecords
  <2>2. timer[timerOf[p[2]]].waiters + 1 \in Nat
    BY <2>1 DEF TimerRecords
  <2>3. timer' = [timer EXCEPT ![timerOf[p[2]]] = Watched(timerOf[p[2]])]
    BY <1>2 DEF Watch, Watched
  <2> QED BY <1>2, <2>1, <2>2, <2>3 DEF Watched, TimerRecords
<1> QED BY <1>1, <1>2

LEMMA ReaderTyped ==
    ASSUME TypeOK, NEW p \in Pairs, ReaderStep(p)
    PROVE  TypeOK'
<1>0. p[1] \in Requests /\ p[2] \in Sensors
  BY DEF Pairs
<1>1. reader' \in [Pairs -> ReaderStates]
  BY DEF ReaderStep, FindActive, FindAsleep, WakeSensor, WakeFails, Rearm, NoTimer, MakeTimer, Watch, Read, Harvested, GiveUp,
         ReaderGoes, TypeOK, ReaderStates
<1>2. awake' \subseteq Sensors /\ halfAwake' \subseteq Sensors
  BY <1>0 DEF ReaderStep, FindActive, FindAsleep, WakeSensor, WakeFails, Rearm, NoTimer, MakeTimer, Watch, Read, Harvested,
              GiveUp, TypeOK
<1>3. unread' \in [Pairs -> (SUBSET Metrics) \cup {Nil}]
  <2>1. MetricsOf[p[2]] \cap Asked(p[1]) \in SUBSET Metrics
    BY <1>0, SensorsAssumption
  <2> QED
    BY <2>1 DEF ReaderStep, FindActive, FindAsleep, WakeSensor, WakeFails, Rearm, NoTimer, MakeTimer, Watch, Read, Harvested,
                GiveUp, TypeOK
<1>4. /\ timerOf' \in [Sensors -> Timers \cup {Nil}]
      /\ timer' \in [Timers -> TimerRecords]
  <2>1. CASE Rearm(p)
    BY <2>1, RearmSets, TimerSetTyped DEF Rearm, TypeOK
  <2>2. CASE \E t \in Timers : MakeTimer(p, t)
    <3> PICK t \in Timers : MakeTimer(p, t)
      BY <2>2
    <3> DEFINE x == [of |-> p[2], running |-> TRUE, tick |-> FALSE, waiters |-> 0]
    <3>1. x \in TimerRecords
      BY <1>0 DEF TimerRecords
    <3>2. timer' = [timer EXCEPT ![t] = x]
      BY DEF MakeTimer
    <3> HIDE DEF x
    <3>3. timerOf' \in [Sensors -> Timers \cup {Nil}]
      BY DEF MakeTimer, TypeOK
    <3> QED BY <3>1, <3>2, <3>3, TimerSetTyped
  <2>3. CASE timer' = timer /\ timerOf' = timerOf
    BY <2>3 DEF TypeOK, TimerRecords
  <2>4. CASE Watch(p)
    BY <2>4, WatchSets, TimerSetTyped DEF Watch, TypeOK
  <2> QED
    BY <2>1, <2>2, <2>3, <2>4 DEF ReaderStep, FindActive, FindAsleep, WakeSensor, WakeFails,
                                  NoTimer, Read, Harvested, GiveUp
<1>5. UNCHANGED <<callerVars, loopVars, plugged, unplugged, requestVars, sleeper, fatal>>
  BY DEF ReaderStep
<1>6. SensorsTyped'
  BY <1>2, <1>5 DEF SensorsTyped, TypeOK
<1>7. ReadersTyped'
  BY <1>1, <1>3 DEF ReadersTyped
<1>8. TimersTyped'
  BY <1>4, <1>5 DEF TimersTyped, TypeOK
<1> QED BY <1>5, <1>6, <1>7, <1>8, PartsKept, TypePartsNext

LEMMA HarvestTyped ==
    ASSUME TypeOK, NEW p \in Pairs, NEW m \in Metrics, HarvestStep(p, m)
    PROVE  TypeOK'
<1>0. p[1] \in Requests /\ p[2] \in Sensors
  BY DEF Pairs
<1>1. pipe' \in [Requests -> Channels]
  <2>1. CASE Write(p, m)
    <3>1. pipe[p[1]][m] \cup {p[2]} \in SUBSET Sensors
      BY <1>0 DEF TypeOK, Channels
    <3> QED BY <1>0, <2>1, <3>1, ChannelSetTyped DEF Write, TypeOK
  <2>2. CASE WriteFails
    BY <2>2 DEF WriteFails, TypeOK
  <2> QED BY <2>1, <2>2 DEF HarvestStep
<1>2. unread' \in [Pairs -> (SUBSET Metrics) \cup {Nil}]
  BY DEF HarvestStep, TypeOK
<1>3. UNCHANGED <<callerVars, loopVars, sensorVars, request, results, reader, timerVars, fatal>>
  BY DEF HarvestStep
<1>4. RequestsTyped'
  BY <1>1, <1>3 DEF RequestsTyped, TypeOK
<1>5. ReadersTyped'
  BY <1>2, <1>3 DEF ReadersTyped, TypeOK
<1> QED BY <1>3, <1>4, <1>5, PartsKept, TypePartsNext

LEMMA FireSets ==
    ASSUME TypeOK, NEW t \in Timers, Fire(t)
    PROVE  \E x \in TimerRecords :
              /\ timer' = [timer EXCEPT ![t] = x]
              /\ x.of = timer[t].of /\ ~x.running /\ x.tick /\ x.waiters = timer[t].waiters
<1> DEFINE x == [timer[t] EXCEPT !.running = FALSE, !.tick = TRUE]
<1>1. timer[t] \in TimerRecords
  BY DEF TypeOK, TimerRecords
<1>2. /\ x \in TimerRecords
      /\ x.of = timer[t].of /\ ~x.running /\ x.tick /\ x.waiters = timer[t].waiters
  BY <1>1 DEF TimerRecords
<1>3. timer' = [timer EXCEPT ![t] = x]
  BY DEF Fire
<1> HIDE DEF x
<1> QED BY <1>2, <1>3

LEMMA StandbyOverSets ==
    ASSUME TypeOK, NEW t \in Timers, StandbyOver(t)
    PROVE  \E x \in TimerRecords :
              /\ timer' = [timer EXCEPT ![t] = x]
              /\ x.of = timer[t].of /\ x.running = timer[t].running /\ ~x.tick
              /\ x.waiters = timer[t].waiters - 1
<1> DEFINE x == [timer[t] EXCEPT !.tick = FALSE, !.waiters = @ - 1]
<1>1. timer[t] \in TimerRecords /\ timer[t].waiters > 0
  BY DEF TypeOK, TimerRecords, StandbyOver
<1>1a. timer[t].waiters - 1 \in Nat
  BY <1>1 DEF TimerRecords
<1>2. /\ x \in TimerRecords
      /\ x.of = timer[t].of /\ x.running = timer[t].running /\ ~x.tick
      /\ x.waiters = timer[t].waiters - 1
  BY Zenon, <1>1, <1>1a DEF TimerRecords
<1>3. timer' = [timer EXCEPT ![t] = x]
  BY DEF StandbyOver
<1> HIDE DEF x
<1> QED BY <1>2, <1>3

LEMMA StandbyTyped ==
    ASSUME TypeOK, StandbyStep
    PROVE  TypeOK'
<1>1. timer' \in [Timers -> TimerRecords]
  <2>1. CASE \E t \in Timers : Fire(t)
    BY <2>1, FireSets, TimerSetTyped
  <2>2. CASE \E t \in Timers : StandbyOver(t)
    BY <2>2, StandbyOverSets, TimerSetTyped
  <2>3. CASE \E s \in Sensors : Sleep(s)
    BY <2>3 DEF Sleep, TypeOK, TimerRecords
  <2> QED BY <2>1, <2>2, <2>3 DEF StandbyStep
<1>2. sleeper' \in [Sensors -> Nat] /\ awake' \subseteq Sensors
  <2>1. CASE \E t \in Timers : Fire(t)
    BY <2>1 DEF Fire, TypeOK
  <2>2. CASE \E t \in Timers : StandbyOver(t)
    <3> PICK t \in Timers : StandbyOver(t)
      BY <2>2
    <3>1. sleeper' = [sleeper EXCEPT ![timer[t].of] = @ + 1] /\ awake' = awake
      BY DEF StandbyOver
    <3>2. CASE timer[t].of \in Sensors
      BY <3>1, <3>2 DEF TypeOK
    <3>3. CASE timer[t].of \notin Sensors
      BY <3>1, <3>3 DEF TypeOK
    <3> QED BY <3>2, <3>3
  <2>3. CASE \E s \in Sensors : Sleep(s)
    BY <2>3 DEF Sleep, TypeOK
  <2> QED BY <2>1, <2>2, <2>3 DEF StandbyStep
<1>3. UNCHANGED <<callerVars, loopVars, plugged, unplugged, halfAwake, requestVars, readerVars,
               timerOf, fatal>>
  BY DEF StandbyStep
<1>4. SensorsTyped'
  BY <1>2, <1>3 DEF SensorsTyped, TypeOK
<1>5. TimersTyped'
  BY <1>1, <1>2, <1>3 DEF TimersTyped, TypeOK
<1> QED BY <1>3, <1>4, <1>5, PartsKept, TypePartsNext

LEMMA StepTyped == TypeOK /\ [Next]_vars => TypeOK'
<1> SUFFICES ASSUME TypeOK, [Next]_vars
             PROVE  TypeOK'
  OBVIOUS
<1>1. ASSUME NEW c \in Callers, CallerStep(c)
      PROVE  TypeOK'
  BY <1>1, CallerStepTyped
<1>2. ASSUME NEW c \in Callers, NEW q \in Requests, Take(c, q)
      PROVE  TypeOK'
  BY <1>2, TakeTyped
<1>3. CASE LoopStep
  BY <1>3, LoopTyped
<1>4. CASE SensorsStep
  BY <1>4, SensorsStepTyped
<1>5. CASE StandbyStep
  BY <1>5, StandbyTyped
<1>6. CASE MapRace
  <2>1. FatalTyped'
    BY Zenon, <1>6 DEF MapRace, FatalTyped
  <2>2. UNCHANGED <<callerVars, loopVars, sensorVars, requestVars, readerVars, timerVars>>
    BY <1>6 DEF MapRace
  <2> QED BY <2>1, <2>2, PartsKept, TypePartsNext
<1>7. ASSUME NEW q \in Requests, HandlerStep(q) \/ TimeStep(q)
      PROVE  TypeOK'
  BY <1>7, HandlerTyped, TimeTyped
<1>8. ASSUME NEW p \in Pairs, ReaderStep(p)
      PROVE  TypeOK'
  BY <1>8, ReaderTyped
<1>9. ASSUME NEW p \in Pairs, NEW m \in Metrics, HarvestStep(p, m)
      PROVE  TypeOK'
  BY <1>9, HarvestTyped
<1>10. CASE UNCHANGED vars
  BY <1>10, PartsKept, TypePartsNext DEF vars
<1> QED BY <1>1, <1>2, <1>3, <1>4, <1>5, <1>6, <1>7, <1>8, <1>9, <1>10 DEF Next

\* The engine keeps to its types, whatever sensors, timers and callers it has
\* (sensors_reader.go).
THEOREM TypeCorrect == Spec => []TypeOK
<1> QED BY InitTyped, StepTyped, PTL DEF Spec

--------------------------------------------------------------------------------
(* Whoever is awake will sleep.                                             *)

\* The timer of a sensor was made for it.
TimersOwned ==
    \A s \in Sensors : timerOf[s] # Nil => timer[timerOf[s]].of = s

BeingWatched(s) == \E q \in Requests : reader[<<q, s>>] = "watch"

\* As many goroutines wait for the timer in the map as it has ticks to give, one
\* for the tick in its channel and one for the one that is still to come, but
\* for one, as long as somebody is about to wait for it.
TimersCounted ==
    \A s \in Sensors :
        timerOf[s] # Nil =>
            LET t == timer[timerOf[s]] IN
            /\ t.running /\ t.tick => t.waiters > 0
            /\ \/ BeingWatched(s)
               \/ /\ t.running \/ t.tick => t.waiters > 0
                  /\ t.running /\ t.tick => t.waiters > 1

\* Nobody reads for a request that is not handled yet.
NotReadYet ==
    \A p \in Pairs : request[p[1]].state \in {"free", "taken"} => reader[p] = "none"

\* A sensor that is awake has a standby to come from the timer in the map.
Due(s) == timerOf[s] # Nil /\ (timer[timerOf[s]].running \/ timer[timerOf[s]].tick)

Arming(s) == \E q \in Requests : reader[<<q, s>>] \in {"arm", "make"}

StandbySet == \A s \in awake \ halfAwake : Arming(s) \/ sleeper[s] > 0 \/ Due(s)

SleepInv == TypeOK /\ TimersCounted /\ TimersOwned /\ NotReadYet /\ StandbySet

LEMMA SleepInvSleeps == SleepInv => AwakeWillSleep
<1> SUFFICES ASSUME SleepInv, NEW s \in awake \ halfAwake
             PROVE  Arming(s) \/ sleeper[s] > 0 \/ StandbyDue(s)
  BY DEF AwakeWillSleep, Arming
<1>1. s \in Sensors
  BY DEF SleepInv, TypeOK
<1>2. CASE Due(s)
  <2>1. timerOf[s] \in Timers /\ timer[timerOf[s]].of = s
    BY <1>1, <1>2 DEF SleepInv, TypeOK, TimersOwned, Due
  <2>2. BeingWatched(s) \/ timer[timerOf[s]].waiters > 0
    BY <1>1, <1>2 DEF SleepInv, TimersCounted, Due
  <2> QED BY <1>2, <2>1, <2>2 DEF StandbyDue, Due, BeingWatched
<1> QED BY <1>2 DEF SleepInv, StandbySet

LEMMA InitSleeps == Init => SleepInv
<1> SUFFICES ASSUME Init
             PROVE  SleepInv
  OBVIOUS
<1>1. TypeOK
  BY InitTyped
<1>2. TimersCounted /\ TimersOwned /\ NotReadYet /\ StandbySet
  BY DEF Init, TimersCounted, TimersOwned, NotReadYet, StandbySet, Pairs
<1> QED BY <1>1, <1>2 DEF SleepInv

\* Nobody stops arming a standby or watching a timer, nothing wakes up.
LEMMA SleepKept ==
    ASSUME SleepInv, UNCHANGED <<timer, timerOf, sleeper>>,
           awake' \ halfAwake' \subseteq awake \ halfAwake,
           \A p \in Pairs : reader[p] \in {"arm", "make"} => reader'[p] \in {"arm", "make"},
           \A p \in Pairs : reader[p] = "watch" => reader'[p] = "watch"
    PROVE  TimersCounted' /\ TimersOwned' /\ StandbySet'
<1>0. \A q \in Requests, s \in Sensors : <<q, s>> \in Pairs
  BY DEF Pairs
<1>1. \A s \in Sensors : (Arming(s) => Arming(s)') /\ (BeingWatched(s) => BeingWatched(s)')
  BY <1>0 DEF Arming, BeingWatched
<1>2. \A s \in awake' \ halfAwake' : s \in Sensors /\ s \in awake \ halfAwake
  BY DEF SleepInv, TypeOK
<1>3. TimersCounted' /\ TimersOwned'
  BY <1>1 DEF SleepInv, TimersCounted, TimersOwned
<1>4. StandbySet'
  BY <1>1, <1>2 DEF SleepInv, StandbySet, Due
<1> QED BY <1>3, <1>4

LEMMA NotReadKept ==
    ASSUME SleepInv, UNCHANGED <<request, reader>>
    PROVE  NotReadYet'
BY DEF SleepInv, NotReadYet

LEMMA TakeSleeps ==
    ASSUME SleepInv, NEW c \in Callers, NEW q \in Requests, Take(c, q)
    PROVE  SleepInv'
<1>1. TypeOK'
  BY TakeTyped DEF SleepInv
<1>2. UNCHANGED <<timer, timerOf, sleeper, awake, halfAwake, reader>>
  BY DEF Take, timerVars, sensorVars, readerVars
<1>3. \A r \in Requests : request'[r].state \in {"free", "taken"} => request[r].state \in {"free", "taken"}
  BY DEF Take, SleepInv, TypeOK, RequestRecords
<1>4. NotReadYet'
  BY <1>2, <1>3 DEF SleepInv, NotReadYet, Pairs
<1> QED BY <1>1, <1>2, <1>4, SleepKept DEF SleepInv

LEMMA HandlerSleeps ==
    ASSUME SleepInv, NEW q \in Requests, HandlerStep(q) \/ TimeStep(q)
    PROVE  SleepInv'
<1>1. TypeOK'
  BY HandlerTyped, TimeTyped DEF SleepInv
<1>2. UNCHANGED <<timer, timerOf, sleeper, awake, halfAwake>>
  BY DEF HandlerStep, TimeStep, timerVars, sensorVars
<1>3. CASE Handle(q)
  <2>1. /\ request[q].state = "taken"
        /\ request' = [request EXCEPT ![q].state = "waiting"]
        /\ reader' = [p \in Pairs |-> IF p[1] = q /\ p[2] \in Suitable(q) THEN "init" ELSE reader[p]]
    BY <1>3 DEF Handle, RequestGoes
  <2>2. \A p \in Pairs : p[1] = q => reader[p] = "none"
    BY <2>1 DEF SleepInv, NotReadYet
  <2>3. NotReadYet'
    BY <2>1 DEF SleepInv, NotReadYet, TypeOK, RequestRecords, Pairs
  <2>4. \A p \in Pairs : reader[p] \in {"arm", "make"} => reader'[p] \in {"arm", "make"}
    BY <2>1, <2>2
  <2>5. \A p \in Pairs : reader[p] = "watch" => reader'[p] = "watch"
    BY <2>1, <2>2
  <2> QED BY <1>1, <1>2, <2>3, <2>4, <2>5, SleepKept DEF SleepInv
<1>4. CASE ~Handle(q)
  <2>1. reader' = reader
    BY <1>4 DEF HandlerStep, Gather, Answer, Drain, TimeStep, TimeOut
  <2>2. \A r \in Requests : request'[r].state \in {"free", "taken"} => request[r].state \in {"free", "taken"}
    BY <1>4 DEF HandlerStep, Gather, Answer, Drain, TimeStep, TimeOut, RequestGoes, SleepInv, TypeOK,
                RequestRecords
  <2>3. NotReadYet'
    BY <2>1, <2>2 DEF SleepInv, NotReadYet, Pairs
  <2> QED BY <1>1, <1>2, <2>1, <2>3, SleepKept DEF SleepInv
<1> QED BY <1>3, <1>4

\* The timers of the other sensors, when one timer is set.
LEMMA OtherTimers ==
    ASSUME SleepInv, NEW u \in Timers, NEW x \in TimerRecords, timer' = [timer EXCEPT ![u] = x],
           x.of = timer[u].of, UNCHANGED timerOf
    PROVE  /\ timer'[u] = x
           /\ \A s \in Sensors : timerOf[s] \notin {Nil, u} =>
                  timerOf[s] \in Timers /\ timer'[timerOf[s]] = timer[timerOf[s]]
           /\ \A s \in Sensors : timerOf[s] = u => timer[u].of = s
           /\ TimersOwned'
<1>1. \A s \in Sensors : timerOf[s] # Nil => timerOf[s] \in Timers
  BY DEF SleepInv, TypeOK
<1>2. timer'[u] = x /\ \A t \in Timers : t # u => timer'[t] = timer[t]
  BY DEF SleepInv, TypeOK
<1>3. \A s \in Sensors : timerOf[s] # Nil => timer[timerOf[s]].of = s
  BY DEF SleepInv, TimersOwned
<1>4. u # Nil
  BY SensorsAssumption
<1> QED BY <1>1, <1>2, <1>3, <1>4 DEF TimersOwned

\* A reader that leaves one place, as all other readers see it.
LEMMA ReaderLeft ==
    ASSUME SleepInv, NEW p \in Pairs, NEW from, NEW to, ReaderGoes(p, from, to)
    PROVE  /\ reader[p] = from /\ reader'[p] = to
           /\ \A s \in Sensors : s # p[2] => Arming(s)' = Arming(s) /\ BeingWatched(s)' = BeingWatched(s)
           /\ from # "watch" => (BeingWatched(p[2]) => BeingWatched(p[2])')
           /\ from \notin {"arm", "make"} \/ to \in {"arm", "make"} =>
                  (Arming(p[2]) => Arming(p[2])')
           /\ to = "watch" => BeingWatched(p[2])'
           /\ to \in {"arm", "make"} => Arming(p[2])'
<1>1. p[1] \in Requests /\ p[2] \in Sensors /\ p = <<p[1], p[2]>>
  BY DEF Pairs
<1>2. reader[p] = from /\ reader'[p] = to /\ \A o \in Pairs : o # p => reader'[o] = reader[o]
  BY DEF ReaderGoes, SleepInv, TypeOK
<1>3. \A q \in Requests, s \in Sensors : <<q, s>> \in Pairs /\ (<<q, s>> = p => s = p[2])
  BY DEF Pairs
<1>4. \A s \in Sensors : s # p[2] => \A q \in Requests : reader'[<<q, s>>] = reader[<<q, s>>]
  BY <1>2, <1>3
<1>5. \A s \in Sensors : s # p[2] => Arming(s)' = Arming(s) /\ BeingWatched(s)' = BeingWatched(s)
  BY <1>4 DEF Arming, BeingWatched
<1>6. from # "watch" => (BeingWatched(p[2]) => BeingWatched(p[2])')
  BY <1>1, <1>2, <1>3 DEF BeingWatched
<1>7. from \notin {"arm", "make"} \/ to \in {"arm", "make"} => (Arming(p[2]) => Arming(p[2])')
  BY <1>1, <1>2, <1>3 DEF Arming
<1>8. to = "watch" => BeingWatched(p[2])'
  BY <1>1, <1>2 DEF BeingWatched
<1>9. to \in {"arm", "make"} => Arming(p[2])'
  BY <1>1, <1>2 DEF Arming
<1> QED BY <1>2, <1>5, <1>6, <1>7, <1>8, <1>9

\* A reader that leaves "arm" has armed the standby of its sensor ...
LEMMA RearmSleeps ==
    ASSUME SleepInv, NEW p \in Pairs, Rearm(p), sleeper' = sleeper
    PROVE  TimersCounted' /\ TimersOwned' /\ StandbySet'
<1> DEFINE t == timerOf[p[2]]
           x == Rearmed(t)
<1>0. p[1] \in Requests /\ p[2] \in Sensors /\ TypeOK /\ t # Nil
  BY DEF Pairs, SleepInv, Rearm
<1>1. /\ t \in Timers /\ x \in TimerRecords
      /\ timer' = [timer EXCEPT ![t] = x]
      /\ x.of = timer[t].of /\ x.running /\ x.tick = timer[t].tick
      /\ x.waiters = IF timer[t].running THEN timer[t].waiters ELSE timer[t].waiters + 1
  BY <1>0, RearmSets
<1>2. UNCHANGED <<awake, halfAwake, timerOf>> /\ ReaderGoes(p, "arm", "read")
  BY DEF Rearm
<1>3. /\ \A s \in Sensors : s # p[2] => Arming(s)' = Arming(s) /\ BeingWatched(s)' = BeingWatched(s)
      /\ BeingWatched(p[2]) => BeingWatched(p[2])'
  BY <1>2, ReaderLeft
<1>4. timer[t].waiters \in Nat
  BY <1>0, <1>1 DEF TypeOK, TimerRecords
<1>5. /\ timer'[t] = x
      /\ \A s \in Sensors : timerOf[s] \notin {Nil, t} =>
             timerOf[s] \in Timers /\ timer'[timerOf[s]] = timer[timerOf[s]]
      /\ \A s \in Sensors : timerOf[s] = t => timer[t].of = s
      /\ TimersOwned'
  BY <1>1, <1>2, OtherTimers
<1>6. timerOf[p[2]] = t /\ \A s \in Sensors : timerOf[s] = t => s = p[2]
  BY <1>0, <1>5
<1> HIDE DEF x, t
<1>7. TimersCounted'
  <2> SUFFICES ASSUME NEW s \in Sensors, timerOf[s] # Nil
               PROVE  LET u == timer'[timerOf[s]] IN
                      /\ u.running /\ u.tick => u.waiters > 0
                      /\ \/ BeingWatched(s)'
                         \/ /\ u.running \/ u.tick => u.waiters > 0
                            /\ u.running /\ u.tick => u.waiters > 1
    BY <1>2 DEF TimersCounted
  <2>1. CASE s = p[2]
    BY <1>0, <1>1, <1>3, <1>4, <1>5, <1>6, <2>1 DEF SleepInv, TimersCounted
  <2>2. CASE s # p[2]
    BY <1>3, <1>5, <1>6, <2>2 DEF SleepInv, TimersCounted
  <2> QED BY <2>1, <2>2
<1>8. StandbySet'
  <2> SUFFICES ASSUME NEW s \in awake \ halfAwake
               PROVE  Arming(s)' \/ sleeper'[s] > 0 \/ Due(s)'
    BY <1>2 DEF StandbySet
  <2>0. s \in Sensors
    BY <1>0 DEF TypeOK
  <2>1. CASE s = p[2]
    BY <1>0, <1>1, <1>2, <1>5, <1>6, <2>1 DEF Due
  <2>2. CASE s # p[2]
    BY <1>2, <1>3, <1>5, <1>6, <2>0, <2>2 DEF SleepInv, StandbySet, Due
  <2> QED BY <2>1, <2>2
<1> QED BY <1>5, <1>7, <1>8

\* ... and so has one that makes a timer, which it is about to wait for ...
LEMMA MakeTimerSleeps ==
    ASSUME SleepInv, NEW p \in Pairs, NEW t \in Timers, MakeTimer(p, t), sleeper' = sleeper
    PROVE  TimersCounted' /\ TimersOwned' /\ StandbySet'
<1> DEFINE x == [of |-> p[2], running |-> TRUE, tick |-> FALSE, waiters |-> 0]
<1>0. p[1] \in Requests /\ p[2] \in Sensors /\ TypeOK
  BY DEF Pairs, SleepInv
<1>1. x.of = p[2] /\ x.running /\ ~x.tick
  OBVIOUS
<1>2. /\ timer' = [timer EXCEPT ![t] = x]
      /\ timerOf' = [timerOf EXCEPT ![p[2]] = t]
      /\ UNCHANGED <<awake, halfAwake>>
      /\ ReaderGoes(p, "make", "watch")
      /\ timer[t].of = Nil
  BY DEF MakeTimer
<1> HIDE DEF x
<1>3. timer'[t] = x /\ \A u \in Timers : u # t => timer'[u] = timer[u]
  BY <1>0, <1>2 DEF TypeOK
<1>4. /\ \A s \in Sensors : s # p[2] => Arming(s)' = Arming(s) /\ BeingWatched(s)' = BeingWatched(s)
      /\ BeingWatched(p[2])'
  BY <1>2, ReaderLeft
<1>5. timerOf'[p[2]] = t /\ t # Nil
  BY <1>0, <1>2, SensorsAssumption DEF TypeOK
<1>6. \A s \in Sensors : s # p[2] =>
          /\ timerOf'[s] = timerOf[s]
          /\ timerOf[s] # Nil =>
                 timer'[timerOf[s]] = timer[timerOf[s]] /\ timer[timerOf[s]].of = s
  <2> SUFFICES ASSUME NEW s \in Sensors, s # p[2]
               PROVE  /\ timerOf'[s] = timerOf[s]
                      /\ timerOf[s] # Nil =>
                            timer'[timerOf[s]] = timer[timerOf[s]] /\ timer[timerOf[s]].of = s
    OBVIOUS
  <2>1. timerOf'[s] = timerOf[s]
    BY <1>0, <1>2 DEF TypeOK
  <2>2. timerOf[s] # Nil => timerOf[s] \in Timers /\ timer[timerOf[s]].of = s
    BY <1>0 DEF TypeOK, SleepInv, TimersOwned
  <2>3. timerOf[s] # t
    BY <1>2, <1>5, <2>2, SensorsAssumption
  <2> QED BY <1>3, <2>1, <2>2, <2>3
<1>7. TimersOwned'
  <2> SUFFICES ASSUME NEW s \in Sensors, timerOf'[s] # Nil
               PROVE  timer'[timerOf'[s]].of = s
    BY DEF TimersOwned
  <2>1. CASE s = p[2]
    BY <1>1, <1>3, <1>5, <2>1
  <2>2. CASE s # p[2]
    BY <1>6, <2>2
  <2> QED BY <2>1, <2>2
<1>8. TimersCounted'
  <2> SUFFICES ASSUME NEW s \in Sensors, timerOf'[s] # Nil
               PROVE  LET u == timer'[timerOf'[s]] IN
                      /\ u.running /\ u.tick => u.waiters > 0
                      /\ \/ BeingWatched(s)'
                         \/ /\ u.running \/ u.tick => u.waiters > 0
                            /\ u.running /\ u.tick => u.waiters > 1
    BY DEF TimersCounted
  <2>1. CASE s = p[2]
    BY <1>1, <1>3, <1>4, <1>5, <2>1
  <2>2. CASE s # p[2]
    BY <1>4, <1>6, <2>2 DEF SleepInv, TimersCounted
  <2> QED BY <2>1, <2>2
<1>9. StandbySet'
  <2> SUFFICES ASSUME NEW s \in awake \ halfAwake
               PROVE  Arming(s)' \/ sleeper'[s] > 0 \/ Due(s)'
    BY <1>2 DEF StandbySet
  <2>0. s \in Sensors
    BY <1>0 DEF TypeOK
  <2>1. CASE s = p[2]
    BY <1>1, <1>3, <1>5, <2>1 DEF Due
  <2>2. CASE s # p[2]
    BY <1>4, <1>6, <2>0, <2>2 DEF SleepInv, StandbySet, Due
  <2> QED BY <2>1, <2>2
<1> QED BY <1>7, <1>8, <1>9

\* ... and does: of the timer in the map, be it another's.
LEMMA WatchSleeps ==
    ASSUME SleepInv, NEW p \in Pairs, Watch(p), sleeper' = sleeper
    PROVE  TimersCounted' /\ TimersOwned' /\ StandbySet'
<1> DEFINE t == timerOf[p[2]]
           x == Watched(t)
<1>0. p[1] \in Requests /\ p[2] \in Sensors /\ TypeOK
  BY DEF Pairs, SleepInv
<1>1. \/ t = Nil /\ timer' = timer
      \/ /\ t \in Timers
         /\ timer' = [timer EXCEPT ![t] = x]
         /\ x \in TimerRecords /\ x.of = timer[t].of
         /\ x.running = timer[t].running /\ x.tick = timer[t].tick
         /\ x.waiters = timer[t].waiters + 1
  BY <1>0, WatchSets
<1>2. UNCHANGED <<awake, halfAwake, timerOf>> /\ ReaderGoes(p, "watch", "read")
  BY DEF Watch
<1>3. /\ \A s \in Sensors : s # p[2] => Arming(s)' = Arming(s) /\ BeingWatched(s)' = BeingWatched(s)
      /\ Arming(p[2]) => Arming(p[2])'
  BY <1>2, ReaderLeft
<1>4. timerOf[p[2]] = t
  OBVIOUS
<1> HIDE DEF x, t
<1>5. \A s \in awake \ halfAwake : s \in Sensors /\ (Arming(s) => Arming(s)')
  BY <1>0, <1>3 DEF TypeOK
<1>6. CASE t = Nil /\ timer' = timer
  <2>1. TimersOwned'
    BY <1>2, <1>6 DEF SleepInv, TimersOwned
  <2>2. TimersCounted'
    BY <1>2, <1>3, <1>4, <1>6 DEF SleepInv, TimersCounted
  <2>3. StandbySet'
    BY <1>2, <1>5, <1>6 DEF SleepInv, StandbySet, Due
  <2> QED BY <2>1, <2>2, <2>3
<1>7. CASE t # Nil
  <2>1. /\ timer'[t] = x
        /\ \A s \in Sensors : timerOf[s] \notin {Nil, t} =>
               timerOf[s] \in Timers /\ timer'[timerOf[s]] = timer[timerOf[s]]
        /\ \A s \in Sensors : timerOf[s] = t => timer[t].of = s
        /\ TimersOwned'
    BY <1>1, <1>2, <1>7, OtherTimers
  <2>2. \A s \in Sensors : timerOf[s] = t => s = p[2]
    BY <1>0, <1>4, <2>1
  <2>3. timer[t].waiters \in Nat
    BY <1>0, <1>1, <1>7 DEF TypeOK, TimerRecords
  <2>4. TimersCounted'
    <3> SUFFICES ASSUME NEW s \in Sensors, timerOf[s] # Nil
                 PROVE  LET u == timer'[timerOf[s]] IN
                        /\ u.running /\ u.tick => u.waiters > 0
                        /\ \/ BeingWatched(s)'
                           \/ /\ u.running \/ u.tick => u.waiters > 0
                              /\ u.running /\ u.tick => u.waiters > 1
      BY <1>2 DEF TimersCounted
    <3>1. CASE s = p[2]
      <4>1. timer[t].running /\ timer[t].tick => timer[t].waiters > 0
        BY <1>0, <1>4, <1>7 DEF SleepInv, TimersCounted
      <4> QED BY <1>1, <1>4, <1>7, <2>1, <2>3, <3>1, <4>1
    <3>2. CASE s # p[2]
      BY <1>3, <2>1, <2>2, <3>2 DEF SleepInv, TimersCounted
    <3> QED BY <3>1, <3>2
  <2>5. \A s \in Sensors : Due(s) => Due(s)'
    BY <1>1, <1>2, <1>7, <2>1 DEF Due
  <2>6. StandbySet'
    BY <1>2, <1>5, <2>5 DEF SleepInv, StandbySet
  <2> QED BY <2>1, <2>4, <2>6
<1> QED BY <1>1, <1>6, <1>7, SensorsAssumption

LEMMA ReaderSleeps ==
    ASSUME SleepInv, NEW p \in Pairs, ReaderStep(p)
    PROVE  SleepInv'
<1>0. p[1] \in Requests /\ p[2] \in Sensors /\ p = <<p[1], p[2]>> /\ TypeOK
  BY DEF Pairs, SleepInv
<1>1. TypeOK'
  BY <1>0, ReaderTyped
<1>2. UNCHANGED <<request, sleeper>>
  BY DEF ReaderStep, requestVars
<1>3. NotReadYet'
  <2>1. PICK to : reader[p] # "none" /\ reader' = [reader EXCEPT ![p] = to]
    BY DEF ReaderStep, FindActive, FindAsleep, WakeSensor, WakeFails, Rearm, NoTimer, MakeTimer,
           Watch, Read, Harvested, GiveUp, ReaderGoes
  <2> QED BY <1>0, <1>2, <2>1 DEF SleepInv, NotReadYet, TypeOK
<1>4. CASE FindActive(p) \/ WakeSensor(p)
  <2>1. /\ UNCHANGED <<timerOf, timer>>
        /\ awake' \subseteq awake \cup {p[2]}
        /\ halfAwake' = halfAwake \ {p[2]}
        /\ ReaderGoes(p, "init", "arm") \/ ReaderGoes(p, "open", "arm")
    BY <1>4 DEF FindActive, WakeSensor
  <2>2. /\ \A s \in Sensors : s # p[2] => Arming(s)' = Arming(s) /\ BeingWatched(s)' = BeingWatched(s)
        /\ BeingWatched(p[2]) => BeingWatched(p[2])'
        /\ Arming(p[2])'
    BY <2>1, ReaderLeft
  <2>3. TimersCounted' /\ TimersOwned'
    BY <2>1, <2>2 DEF SleepInv, TimersCounted, TimersOwned
  <2>4. \A s \in awake' \ halfAwake' : s = p[2] \/ (s \in Sensors /\ s \in awake \ halfAwake)
    BY <1>0, <2>1 DEF TypeOK
  <2>5. StandbySet'
    BY <1>2, <2>1, <2>2, <2>4 DEF SleepInv, StandbySet, Due
  <2> QED BY <1>1, <1>3, <2>3, <2>5 DEF SleepInv
<1>5. CASE Rearm(p)
  BY <1>1, <1>2, <1>3, <1>5, RearmSleeps DEF SleepInv
<1>6. CASE \E t \in Timers : MakeTimer(p, t)
  BY <1>1, <1>2, <1>3, <1>6, MakeTimerSleeps DEF SleepInv
<1>7. CASE Watch(p)
  BY <1>1, <1>2, <1>3, <1>7, WatchSleeps DEF SleepInv
<1>8. CASE FindAsleep(p) \/ WakeFails(p) \/ NoTimer(p) \/ Read(p) \/ Harvested(p) \/ GiveUp(p)
  <2>1. UNCHANGED <<timerOf, timer>>
    BY <1>8 DEF FindAsleep, WakeFails, NoTimer, Read, Harvested, GiveUp
  <2>2. awake' \ halfAwake' \subseteq awake \ halfAwake
    BY <1>8 DEF FindAsleep, WakeFails, NoTimer, Read, Harvested, GiveUp
  <2>3. /\ reader[p] \in {"init", "open", "read", "wait", "arm"}
        /\ reader[p] = "arm" => reader'[p] = "make"
        /\ \A r \in Pairs : r # p => reader'[r] = reader[r]
    BY <1>0, <1>8 DEF FindAsleep, WakeFails, NoTimer, Read, Harvested, GiveUp, ReaderGoes, TypeOK
  <2>4. /\ \A r \in Pairs : reader[r] \in {"arm", "make"} => reader'[r] \in {"arm", "make"}
        /\ \A r \in Pairs : reader[r] = "watch" => reader'[r] = "watch"
    BY <2>3
  <2> QED BY <1>1, <1>2, <1>3, <2>1, <2>2, <2>4, SleepKept DEF SleepInv
<1> QED BY <1>4, <1>5, <1>6, <1>7, <1>8 DEF ReaderStep

LEMMA FireSleeps ==
    ASSUME SleepInv, NEW t \in Timers, Fire(t), UNCHANGED <<timerOf, reader, halfAwake>>
    PROVE  TimersCounted' /\ TimersOwned' /\ StandbySet'
<1>0. TypeOK /\ UNCHANGED <<sleeper, awake>> /\ timer[t].running
  BY DEF SleepInv, Fire
<1>1. PICK x \in TimerRecords :
              /\ timer' = [timer EXCEPT ![t] = x]
              /\ x.of = timer[t].of /\ ~x.running /\ x.tick /\ x.waiters = timer[t].waiters
  BY <1>0, FireSets
<1>2. /\ timer'[t] = x
      /\ \A s \in Sensors : timerOf[s] \notin {Nil, t} =>
             timerOf[s] \in Timers /\ timer'[timerOf[s]] = timer[timerOf[s]]
      /\ TimersOwned'
  BY <1>1, OtherTimers
<1>3. \A s \in Sensors : Arming(s)' = Arming(s) /\ BeingWatched(s)' = BeingWatched(s)
  BY DEF Arming, BeingWatched
<1>4. TimersCounted'
  BY <1>0, <1>1, <1>2, <1>3 DEF SleepInv, TimersCounted
<1>5. \A s \in Sensors : Due(s) => Due(s)'
  BY <1>1, <1>2 DEF Due
<1>6. StandbySet'
  BY <1>0, <1>3, <1>5 DEF SleepInv, StandbySet, TypeOK
<1> QED BY <1>2, <1>4, <1>6

LEMMA StandbyOverSleeps ==
    ASSUME SleepInv, NEW t \in Timers, StandbyOver(t), UNCHANGED <<timerOf, reader, halfAwake>>
    PROVE  TimersCounted' /\ TimersOwned' /\ StandbySet'
<1>0. /\ TypeOK /\ timer[t].tick /\ awake' = awake
      /\ sleeper' = [sleeper EXCEPT ![timer[t].of] = @ + 1]
  BY DEF SleepInv, StandbyOver
<1>1. PICK x \in TimerRecords :
              /\ timer' = [timer EXCEPT ![t] = x]
              /\ x.of = timer[t].of /\ x.running = timer[t].running /\ ~x.tick
              /\ x.waiters = timer[t].waiters - 1
  BY <1>0, StandbyOverSets
<1>2. /\ timer'[t] = x
      /\ \A s \in Sensors : timerOf[s] \notin {Nil, t} =>
             timerOf[s] \in Timers /\ timer'[timerOf[s]] = timer[timerOf[s]]
      /\ \A s \in Sensors : timerOf[s] = t => timer[t].of = s
      /\ TimersOwned'
  BY <1>1, OtherTimers
<1>3. timer[t].waiters \in Nat
  BY <1>0 DEF TypeOK, TimerRecords
<1>4. \A s \in Sensors : Arming(s)' = Arming(s) /\ BeingWatched(s)' = BeingWatched(s)
  BY DEF Arming, BeingWatched
<1>5. TimersCounted'
  BY <1>0, <1>1, <1>2, <1>3, <1>4 DEF SleepInv, TimersCounted
<1>6. StandbySet'
  <2> SUFFICES ASSUME NEW s \in awake \ halfAwake
               PROVE  Arming(s)' \/ sleeper'[s] > 0 \/ Due(s)'
    BY <1>0 DEF StandbySet
  <2>0. s \in Sensors /\ sleeper[s] \in Nat
    BY <1>0 DEF TypeOK
  <2>1. CASE s = timer[t].of
    BY <1>0, <2>0, <2>1 DEF TypeOK
  <2>2. CASE s # timer[t].of
    <3>1. sleeper'[s] = sleeper[s]
      BY <1>0, <2>0, <2>2 DEF TypeOK
    <3>2. Due(s) => Due(s)'
      BY <1>2, <2>0, <2>2 DEF Due
    <3> QED BY <1>4, <2>0, <3>1, <3>2 DEF SleepInv, StandbySet
  <2> QED BY <2>1, <2>2
<1> QED BY <1>2, <1>5, <1>6

\* A sensor that is put to sleep is not awake, and the others stay as they are.
LEMMA SleepSleeps ==
    ASSUME SleepInv, NEW s \in Sensors, Sleep(s), UNCHANGED <<timerOf, reader, halfAwake>>
    PROVE  TimersCounted' /\ TimersOwned' /\ StandbySet'
<1>1. /\ timer' = timer /\ awake' = awake \ {s}
      /\ sleeper' = [sleeper EXCEPT ![s] = @ - 1] /\ awake \subseteq Sensors
      /\ sleeper \in [Sensors -> Nat]
  BY DEF Sleep, SleepInv, TypeOK
<1>2. \A u \in awake' : u \in awake /\ sleeper'[u] = sleeper[u]
  BY <1>1
<1>3. \A u \in Sensors : Arming(u)' = Arming(u) /\ BeingWatched(u)' = BeingWatched(u)
  BY DEF Arming, BeingWatched
<1>4. TimersCounted' /\ TimersOwned'
  BY <1>1, <1>3 DEF SleepInv, TimersCounted, TimersOwned
<1>5. StandbySet'
  BY <1>1, <1>2, <1>3 DEF SleepInv, StandbySet, Due
<1> QED BY <1>4, <1>5

LEMMA StandbySleeps ==
    ASSUME SleepInv, StandbyStep
    PROVE  SleepInv'
<1>1. TypeOK'
  BY StandbyTyped DEF SleepInv
<1>2. UNCHANGED <<timerOf, reader, request, halfAwake>>
  BY DEF StandbyStep, readerVars, requestVars
<1>3. NotReadYet'
  BY <1>2, NotReadKept
<1>4. CASE \E t \in Timers : Fire(t)
  BY <1>1, <1>2, <1>3, <1>4, FireSleeps DEF SleepInv
<1>5. CASE \E t \in Timers : StandbyOver(t)
  BY <1>1, <1>2, <1>3, <1>5, StandbyOverSleeps DEF SleepInv
<1>6. CASE \E s \in Sensors : Sleep(s)
  BY <1>1, <1>2, <1>3, <1>6, SleepSleeps DEF SleepInv
<1> QED BY <1>4, <1>5, <1>6 DEF StandbyStep

\* Steps that leave timers, requests and readers alone and wake nothing up.
LEMMA RestSleeps ==
    ASSUME SleepInv, TypeOK', UNCHANGED <<timer, timerOf, sleeper, request, reader>>,
           awake' \ halfAwake' \subseteq awake \ halfAwake
    PROVE  SleepInv'
BY SleepKept, NotReadKept DEF SleepInv

LEMMA StepSleeps == SleepInv /\ [Next]_vars => SleepInv'
<1> SUFFICES ASSUME SleepInv, [Next]_vars
             PROVE  SleepInv'
  OBVIOUS
<1>0. TypeOK'
  BY StepTyped DEF SleepInv
<1>1. ASSUME NEW c \in Callers, CallerStep(c)
      PROVE  SleepInv'
  BY <1>0, <1>1, RestSleeps DEF CallerStep, sensorVars, requestVars, readerVars, timerVars
<1>2. ASSUME NEW c \in Callers, NEW q \in Requests, Take(c, q)
      PROVE  SleepInv'
  BY <1>2, TakeSleeps
<1>3. CASE LoopStep
  BY <1>0, <1>3, RestSleeps DEF LoopStep, sensorVars, requestVars, readerVars, timerVars
<1>4. CASE SensorsStep
  <2>1. awake' \ halfAwake' \subseteq awake \ halfAwake
    BY <1>4 DEF SensorsStep, Close, Register, Unregister
  <2> QED BY <1>0, <1>4, <2>1, RestSleeps DEF SensorsStep, requestVars, readerVars, timerVars
<1>5. CASE StandbyStep
  BY <1>5, StandbySleeps
<1>6. CASE MapRace
  BY <1>0, <1>6, RestSleeps DEF MapRace, sensorVars, requestVars, readerVars, timerVars
<1>7. ASSUME NEW q \in Requests, HandlerStep(q) \/ TimeStep(q)
      PROVE  SleepInv'
  BY <1>7, HandlerSleeps
<1>8. ASSUME NEW p \in Pairs, ReaderStep(p)
      PROVE  SleepInv'
  BY <1>8, ReaderSleeps
<1>9. ASSUME NEW p \in Pairs, NEW m \in Metrics, HarvestStep(p, m)
      PROVE  SleepInv'
  BY <1>0, <1>9, RestSleeps DEF HarvestStep, sensorVars, timerVars
<1>10. CASE UNCHANGED vars
  BY <1>0, <1>10, RestSleeps DEF vars, sensorVars, requestVars, readerVars, timerVars
<1> QED BY <1>1, <1>2, <1>3, <1>4, <1>5, <1>6, <1>7, <1>8, <1>9, <1>10 DEF Next

\* A sensor that is awake is going to be put back to sleep, however many
\* requests wake it up at a time and whatever timers they make for it and
\* replace, unless an Init of it failed half way and no request has found it so
\* since (initSensor and handleStandby of sensors_reader.go).
THEOREM Sleeps == Spec => []AwakeWillSleep
<1> QED BY SleepInvSleeps, InitSleeps, StepSleeps, PTL DEF Spec

--------------------------------------------------------------------------------
(* The variables of ReadingService, as Service of SensorsReader maps them.  *)
Standings == [c \in Callers |-> Standing(c)]
TakenFrom == [q \in Requests |-> request[q].by]
AnswerOf(q) == IF request[q].state = "answered" THEN [m \in Asked(q) |-> results[q][m]] ELSE Nil
Given     == [q \in Requests |-> AnswerOf(q)]

--------------------------------------------------------------------------------
(* The invariant.                                                           *)

\* A request that was taken has its caller, another has none.
RequestsOwned ==
    \A q \in Requests : IF request[q].state = "free" THEN request[q].by = Nil
                                                     ELSE request[q].by \in Callers

\* A harvester writes what its sensor measures.
HarvestsFit == \A p \in Pairs : unread[p] # Nil => unread[p] \subseteq MetricsOf[p[2]]

\* What is in a channel of a metric, or was, is from a sensor that measures it.
Fits(channels) ==
    \A q \in Requests, m \in Metrics : \A s \in channels[q][m] : m \in MetricsOf[s]

ReadingsFit == Fits(pipe) /\ Fits(results)

\* Only a receiver that has subscribed is cancelled.
CancelledAsked == \A c \in cancelled : caller[c] # "idle" /\ c \notin OneShot

ServiceInv == TypeOK /\ RequestsOwned /\ HarvestsFit /\ ReadingsFit /\ CancelledAsked

LEMMA InitServes == Init => ServiceInv
<1> SUFFICES ASSUME Init
             PROVE  ServiceInv
  OBVIOUS
<1>1. RequestsOwned /\ HarvestsFit /\ CancelledAsked
  BY DEF Init, RequestsOwned, HarvestsFit, CancelledAsked
<1>2. ReadingsFit
  BY DEF Init, ReadingsFit, Fits, Nothing
<1> QED BY <1>1, <1>2, InitTyped DEF ServiceInv

\* A channel takes one reading of a sensor that measures its metric, or gives some.
LEMMA FitsSet ==
    ASSUME NEW f \in [Requests -> Channels], NEW q \in Requests, NEW m \in Metrics,
           NEW x \in SUBSET Sensors, Fits(f), \A s \in x : s \in f[q][m] \/ m \in MetricsOf[s]
    PROVE  Fits([f EXCEPT ![q][m] = x])
<1> DEFINE g == [f EXCEPT ![q][m] = x]
<1> SUFFICES ASSUME NEW r \in Requests, NEW n \in Metrics, NEW s \in g[r][n]
             PROVE  n \in MetricsOf[s]
  BY DEF Fits
<1>1. g[r][n] = IF r = q /\ n = m THEN x ELSE f[r][n]
  BY DEF Channels
<1> HIDE DEF g
<1> QED BY <1>1 DEF Fits

LEMMA CallerServes ==
    ASSUME ServiceInv, NEW c \in Callers, CallerStep(c)
    PROVE  CancelledAsked'
<1>1. caller \in [Callers -> CallerStates] /\ cancelled \subseteq Callers /\ CancelledAsked
  BY DEF ServiceInv, TypeOK
<1>2. CASE Cancel(c)
  BY <1>1, <1>2 DEF Cancel, CancelledAsked
<1>3. CASE Ask(c) \/ AfterSend(c) \/ WakeUp(c)
  <2>1. cancelled' = cancelled /\ \A d \in Callers : caller'[d] = caller[d] \/ caller'[d] # "idle"
    BY <1>1, <1>3 DEF Ask, AfterSend, WakeUp, CallerGoes
  <2> QED BY <1>1, <2>1 DEF CancelledAsked
<1> QED BY <1>2, <1>3 DEF CallerStep

LEMMA TakeServes ==
    ASSUME ServiceInv, NEW c \in Callers, NEW q \in Requests, Take(c, q)
    PROVE  RequestsOwned' /\ CancelledAsked'
<1>1. /\ caller \in [Callers -> CallerStates] /\ cancelled \subseteq Callers
      /\ CancelledAsked /\ RequestsOwned /\ request \in [Requests -> RequestRecords]
  BY DEF ServiceInv, TypeOK
<1>2. RequestsOwned'
  <2>1. \A r \in Requests : r # q => request'[r] = request[r]
    BY <1>1 DEF Take
  <2>2. request'[q].state = "taken" /\ request'[q].by = c
    BY <1>1 DEF Take, RequestRecords
  <2> QED BY <1>1, <2>1, <2>2 DEF RequestsOwned
<1>3. CancelledAsked'
  BY <1>1 DEF Take, CallerGoes, CancelledAsked
<1> QED BY <1>2, <1>3

\* A step of a request that was taken keeps its caller.
LEMMA OwnedKept ==
    ASSUME ServiceInv, NEW q \in Requests, request' \in [Requests -> RequestRecords],
           request[q].state # "free", request'[q].state # "free",
           request'[q].by = request[q].by,
           \A r \in Requests : r # q => request'[r] = request[r]
    PROVE  RequestsOwned'
BY DEF ServiceInv, RequestsOwned

LEMMA RequestGoesKeeps ==
    ASSUME TypeOK, NEW q \in Requests, NEW from, NEW to \in RequestStates, RequestGoes(q, from, to)
    PROVE  /\ request[q].state = from /\ request'[q].state = to /\ request'[q].by = request[q].by
           /\ \A r \in Requests : r # q => request'[r] = request[r]
BY DEF TypeOK, RequestGoes, RequestRecords

LEMMA DrainServes ==
    ASSUME ServiceInv, NEW q \in Requests, NEW m \in Metrics, NEW s \in Sensors, Drain(q, m, s)
    PROVE  ReadingsFit'
<1>1. pipe \in [Requests -> Channels] /\ results \in [Requests -> Channels] /\ Fits(pipe) /\ Fits(results)
  BY DEF ServiceInv, TypeOK, ReadingsFit
<1>2. pipe[q][m] \in SUBSET Sensors /\ results[q][m] \in SUBSET Sensors
  BY <1>1 DEF Channels
<1>3. s \in pipe[q][m] /\ m \in MetricsOf[s]
  BY <1>1 DEF Drain, Fits
<1>4. pipe' = [pipe EXCEPT ![q][m] = pipe[q][m] \ {s}]
  BY DEF Drain
<1>5. Fits(pipe)'
  <2>1. Fits([pipe EXCEPT ![q][m] = pipe[q][m] \ {s}])
    BY <1>1, <1>2, FitsSet
  <2> QED BY <1>4, <2>1 DEF Fits
<1>6. results' = [results EXCEPT ![q][m] = results[q][m] \cup {s}]
  BY DEF Drain
<1>7. Fits(results)'
  <2>1. Fits([results EXCEPT ![q][m] = results[q][m] \cup {s}])
    BY <1>1, <1>2, <1>3, FitsSet
  <2> QED BY <1>6, <2>1 DEF Fits
<1> QED BY <1>5, <1>7 DEF ReadingsFit

LEMMA HandlerServes ==
    ASSUME ServiceInv, NEW q \in Requests, HandlerStep(q)
    PROVE  RequestsOwned' /\ ReadingsFit'
<1>0. TypeOK /\ TypeOK'
  BY HandlerTyped DEF ServiceInv
<1>1. CASE \E m \in Metrics, s \in Sensors : Drain(q, m, s)
  BY <1>1, DrainServes DEF Drain, ServiceInv, RequestsOwned
<1>2. CASE Handle(q) \/ Gather(q) \/ Answer(q)
  <2>1. ReadingsFit'
    BY <1>2 DEF Handle, Gather, Answer, ServiceInv, ReadingsFit, Fits
  <2>2. \E from, to \in RequestStates \ {"free"} : RequestGoes(q, from, to)
    BY <1>2 DEF Handle, Gather, Answer, RequestStates
  <2>3. RequestsOwned'
    BY <1>0, <2>2, RequestGoesKeeps, OwnedKept DEF TypeOK
  <2> QED BY <2>1, <2>3
<1> QED BY <1>1, <1>2 DEF HandlerStep

LEMMA TimeServes ==
    ASSUME ServiceInv, NEW q \in Requests, TimeStep(q)
    PROVE  RequestsOwned'
<1>0. TypeOK /\ TypeOK'
  BY TimeTyped DEF ServiceInv
<1>1. /\ request[q].state = "waiting" /\ request'[q].state = "waiting"
      /\ request'[q].by = request[q].by /\ \A r \in Requests : r # q => request'[r] = request[r]
  BY <1>0 DEF TimeStep, TimeOut, TypeOK, RequestRecords
<1> QED BY <1>0, <1>1, OwnedKept DEF TypeOK

LEMMA ReaderServes ==
    ASSUME ServiceInv, NEW p \in Pairs, ReaderStep(p)
    PROVE  HarvestsFit'
<1>0. HarvestsFit /\ unread \in [Pairs -> (SUBSET Metrics) \cup {Nil}]
  BY DEF ServiceInv, TypeOK
<1>1. CASE Read(p)
  <2>1. unread' = unread \/ unread' = [unread EXCEPT ![p] = MetricsOf[p[2]] \cap Asked(p[1])]
    BY <1>1 DEF Read
  <2> QED BY <1>0, <2>1 DEF HarvestsFit
<1>2. CASE Harvested(p)
  BY <1>0, <1>2 DEF Harvested, HarvestsFit
<1>3. CASE UNCHANGED unread
  BY <1>0, <1>3 DEF HarvestsFit
<1> QED BY <1>1, <1>2, <1>3 DEF ReaderStep, FindActive, FindAsleep, WakeSensor, WakeFails, Rearm, NoTimer, MakeTimer, Watch, GiveUp

LEMMA HarvestServes ==
    ASSUME ServiceInv, NEW p \in Pairs, NEW m \in Metrics, HarvestStep(p, m)
    PROVE  HarvestsFit' /\ ReadingsFit'
<1>0. /\ HarvestsFit /\ unread \in [Pairs -> (SUBSET Metrics) \cup {Nil}]
      /\ pipe \in [Requests -> Channels] /\ Fits(pipe) /\ Fits(results)
      /\ p[1] \in Requests /\ p[2] \in Sensors
  BY DEF ServiceInv, TypeOK, ReadingsFit, Pairs
<1>1. m \in MetricsOf[p[2]] /\ unread' = [unread EXCEPT ![p] = unread[p] \ {m}] /\ results' = results
  BY <1>0 DEF HarvestStep, HarvestsFit
<1>2. HarvestsFit'
  BY <1>0, <1>1 DEF HarvestsFit, HarvestStep
<1>3. Fits(pipe)'
  <2>1. CASE Write(p, m)
    <3>1. pipe' = [pipe EXCEPT ![p[1]][m] = pipe[p[1]][m] \cup {p[2]}]
      BY <2>1 DEF Write
    <3>2. pipe[p[1]][m] \cup {p[2]} \in SUBSET Sensors
      BY <1>0 DEF Channels
    <3>3. Fits([pipe EXCEPT ![p[1]][m] = pipe[p[1]][m] \cup {p[2]}])
      BY <1>0, <1>1, <3>2, FitsSet
    <3> QED BY <3>1, <3>3 DEF Fits
  <2>2. CASE WriteFails
    BY <1>0, <2>2 DEF WriteFails, Fits
  <2> QED BY <2>1, <2>2 DEF HarvestStep
<1>4. Fits(results)'
  BY <1>0, <1>1 DEF Fits
<1> QED BY <1>2, <1>3, <1>4 DEF ReadingsFit

LEMMA OwnedSame == RequestsOwned /\ UNCHANGED request => RequestsOwned'
BY DEF RequestsOwned

LEMMA HarvestsSame == HarvestsFit /\ UNCHANGED unread => HarvestsFit'
BY DEF HarvestsFit

LEMMA ReadingsSame == ReadingsFit /\ UNCHANGED <<pipe, results>> => ReadingsFit'
BY DEF ReadingsFit, Fits

LEMMA CancelledSame == CancelledAsked /\ UNCHANGED callerVars => CancelledAsked'
BY DEF CancelledAsked, callerVars

LEMMA StepServes == ServiceInv /\ [Next]_vars => ServiceInv'
<1> SUFFICES ASSUME ServiceInv, [Next]_vars
             PROVE  ServiceInv'
  OBVIOUS
<1> USE OwnedSame, HarvestsSame, ReadingsSame, CancelledSame
<1>0. TypeOK'
  BY StepTyped DEF ServiceInv
<1>1. ASSUME NEW c \in Callers, CallerStep(c)
      PROVE  ServiceInv'
  BY <1>0, <1>1, CallerServes DEF CallerStep, requestVars, readerVars, ServiceInv
<1>2. ASSUME NEW c \in Callers, NEW q \in Requests, Take(c, q)
      PROVE  ServiceInv'
  BY <1>0, <1>2, TakeServes DEF Take, readerVars, ServiceInv
<1>3. CASE LoopStep \/ SensorsStep \/ StandbyStep \/ MapRace
  BY <1>0, <1>3 DEF LoopStep, SensorsStep, StandbyStep, MapRace, requestVars, readerVars, ServiceInv
<1>4. ASSUME NEW q \in Requests, HandlerStep(q)
      PROVE  ServiceInv'
  BY <1>0, <1>4, HandlerServes DEF HandlerStep, ServiceInv
<1>5. ASSUME NEW q \in Requests, TimeStep(q)
      PROVE  ServiceInv'
  BY <1>0, <1>5, TimeServes DEF TimeStep, TimeOut, ServiceInv
<1>6. ASSUME NEW p \in Pairs, ReaderStep(p)
      PROVE  ServiceInv'
  BY <1>0, <1>6, ReaderServes DEF ReaderStep, requestVars, ServiceInv
<1>7. ASSUME NEW p \in Pairs, NEW m \in Metrics, HarvestStep(p, m)
      PROVE  ServiceInv'
  BY <1>0, <1>7, HarvestServes DEF HarvestStep, ServiceInv
<1>8. CASE UNCHANGED vars
  BY <1>0, <1>8 DEF vars, requestVars, readerVars, ServiceInv
<1> QED BY <1>1, <1>2, <1>3, <1>4, <1>5, <1>6, <1>7, <1>8 DEF Next

--------------------------------------------------------------------------------
(* The refinement.                                                          *)

LEMMA InitMaps == Init => Service!Init
<1> SUFFICES ASSUME Init
             PROVE  Service!Init
  OBVIOUS
<1>1. \A c \in Callers : Standing(c) = "none"
  BY DEF Init, Standing
<1>2. \A q \in Requests : request[q].by = Nil /\ request[q].state = "free"
  BY DEF Init
<1> QED BY <1>1, <1>2 DEF Service!Init

\* Where callers stand, from where they are.
LEMMA Stands ==
    ASSUME NEW c \in Callers
    PROVE  /\ caller[c] = "idle" => Standing(c) = "none"
           /\ caller[c] = "over" => Standing(c) = "over"
           /\ caller[c] \in {"sending", "sent", "sleeping"} /\ c \notin cancelled => Standing(c) = "on"
           /\ caller[c] = "sent" /\ c \in cancelled => Standing(c) = "over"
           /\ caller[c] \in {"sending", "sleeping"} /\ c \in cancelled => Standing(c) = "off"
BY DEF Standing

LEMMA StandsNext ==
    ASSUME NEW c \in Callers
    PROVE  /\ caller'[c] = "idle" => Standing(c)' = "none"
           /\ caller'[c] = "over" => Standing(c)' = "over"
           /\ caller'[c] \in {"sending", "sent", "sleeping"} /\ c \notin cancelled' => Standing(c)' = "on"
           /\ caller'[c] = "sent" /\ c \in cancelled' => Standing(c)' = "over"
           /\ caller'[c] \in {"sending", "sleeping"} /\ c \in cancelled' => Standing(c)' = "off"
BY DEF Standing

LEMMA StandsSame ==
    ASSUME NEW c \in Callers, caller'[c] = caller[c], c \in cancelled' <=> c \in cancelled
    PROVE  Standing(c)' = Standing(c)
BY DEF Standing

\* A step of one caller moves where that one stands.
LEMMA OneStands ==
    ASSUME NEW c \in Callers, \A d \in Callers : d # c => Standing(d)' = Standing(d)
    PROVE  Standings' = [Standings EXCEPT ![c] = Standing(c)']
BY DEF Standings

LEMMA StandingsSame == UNCHANGED callerVars => UNCHANGED Standings
BY StandsSame DEF Standings, callerVars

LEMMA GivenSame == UNCHANGED <<request, results>> => UNCHANGED <<TakenFrom, Given>>
BY DEF TakenFrom, Given, AnswerOf, Asked

\* Service!Next, in the names used here.
LEMMA AbstractSteps ==
    /\ \A c \in Callers : Service!Ask(c) <=>
          /\ Standings[c] = "none"
          /\ Standings' = [Standings EXCEPT ![c] = "on"]
          /\ UNCHANGED <<TakenFrom, Given>>
    /\ \A c \in Callers : Service!Cancel(c) <=>
          /\ Standings[c] = "on"
          /\ \E last \in {"off", "over"} : Standings' = [Standings EXCEPT ![c] = last]
          /\ UNCHANGED <<TakenFrom, Given>>
    /\ \A c \in Callers, q \in Requests : Service!Take(c, q) <=>
          /\ Standings[c] \in {"on", "off"}
          /\ TakenFrom[q] = Nil
          /\ TakenFrom' = [TakenFrom EXCEPT ![q] = c]
          /\ \E next \in {"over"} \cup ({"on"} \cap {Standings[c]}) :
                Standings' = [Standings EXCEPT ![c] = next]
          /\ UNCHANGED Given
    /\ \A q \in Requests : Service!Answer(q) <=>
          /\ TakenFrom[q] # Nil
          /\ Given[q] = Nil
          /\ \E a \in Service!Answers(TakenFrom[q]) : Given' = [Given EXCEPT ![q] = a]
          /\ UNCHANGED <<Standings, TakenFrom>>
BY DEF Service!Ask, Service!Cancel, Service!Take, Service!Answer,
       Standings, TakenFrom, Given, AnswerOf

LEMMA NothingSeen == UNCHANGED <<Standings, TakenFrom, Given>> => UNCHANGED Service!vars
BY DEF Service!vars, Standings, TakenFrom, Given, AnswerOf

\* A receiver asks, is cancelled, or goes on as it stands.
LEMMA CallerMaps ==
    ASSUME ServiceInv, NEW c \in Callers, CallerStep(c)
    PROVE  Service!Ask(c) \/ Service!Cancel(c) \/ UNCHANGED Service!vars
<1>0. /\ caller \in [Callers -> CallerStates] /\ CancelledAsked
      /\ UNCHANGED <<TakenFrom, Given>>
  BY GivenSame DEF ServiceInv, TypeOK, CallerStep, requestVars
<1>1. /\ \A d \in Callers : d # c => caller'[d] = caller[d] /\ (d \in cancelled' <=> d \in cancelled)
      /\ caller' \in [Callers -> CallerStates]
  BY <1>0, CallerStepTyped DEF CallerStep, Ask, Cancel, AfterSend, WakeUp, CallerGoes, ServiceInv, TypeOK
<1>2. Standings' = [Standings EXCEPT ![c] = Standing(c)']
  BY <1>1, StandsSame, OneStands
<1>3. Standings[c] = Standing(c)
  BY DEF Standings
<1>4. CASE Ask(c)
  <2>1. caller[c] = "idle" /\ caller'[c] = "sending" /\ c \notin cancelled'
    BY <1>0, <1>4 DEF Ask, CallerGoes, CancelledAsked
  <2>2. Standing(c) = "none" /\ Standing(c)' = "on"
    BY <2>1, Stands, StandsNext
  <2> QED BY <1>0, <1>2, <1>3, <2>2, AbstractSteps
<1>5. CASE Cancel(c)
  <2>1. caller' = caller /\ c \notin cancelled /\ c \in cancelled' /\ caller[c] \in CallerStates \ {"idle"}
    BY <1>0, <1>5 DEF Cancel
  <2>2. CASE caller[c] = "over"
    <3>1. Standing(c)' = Standings[c]
      BY <1>3, <2>1, <2>2, Stands, StandsNext
    <3> QED BY <1>0, <1>2, <3>1, NothingSeen DEF Standings
  <2>3. CASE caller[c] # "over"
    <3>1. Standing(c) = "on" /\ Standing(c)' \in {"off", "over"}
      BY <2>1, <2>3, Stands, StandsNext DEF CallerStates
    <3> QED BY <1>0, <1>2, <1>3, <3>1, AbstractSteps
  <2> QED BY <2>2, <2>3
<1>6. CASE AfterSend(c) \/ WakeUp(c)
  <2>1. cancelled' = cancelled
    BY <1>6 DEF AfterSend, WakeUp
  <2>2. CASE AfterSend(c)
    <3>1. caller[c] = "sent" /\ caller'[c] = IF c \in cancelled THEN "over" ELSE "sleeping"
      BY <1>0, <2>2 DEF AfterSend, CallerGoes
    <3>2. Standing(c)' = Standings[c]
      BY <1>3, <2>1, <3>1, Stands, StandsNext
    <3> QED BY <1>0, <1>2, <3>2, NothingSeen DEF Standings
  <2>3. CASE WakeUp(c)
    <3>1. caller[c] = "sleeping" /\ caller'[c] = "sending"
      BY <1>0, <2>3 DEF WakeUp, CallerGoes
    <3>2. Standing(c)' = Standings[c]
      BY <1>3, <2>1, <3>1, Stands, StandsNext
    <3> QED BY <1>0, <1>2, <3>2, NothingSeen DEF Standings
  <2> QED BY <1>6, <2>2, <2>3
<1> QED BY <1>4, <1>5, <1>6 DEF CallerStep

LEMMA TakeMaps ==
    ASSUME ServiceInv, NEW c \in Callers, NEW q \in Requests, Take(c, q)
    PROVE  Service!Take(c, q)
<1>0. /\ caller \in [Callers -> CallerStates] /\ CancelledAsked /\ RequestsOwned
      /\ request \in [Requests -> RequestRecords]
  BY DEF ServiceInv, TypeOK
<1>1. /\ caller[c] = "sending" /\ caller'[c] = IF c \in OneShot THEN "over" ELSE "sent"
      /\ cancelled' = cancelled /\ results' = results
      /\ \A d \in Callers : d # c => caller'[d] = caller[d]
  BY <1>0 DEF Take, CallerGoes
<1>2. Standings' = [Standings EXCEPT ![c] = Standing(c)']
  BY <1>1, StandsSame, OneStands
<1>3. Standings[c] = Standing(c)
  BY DEF Standings
<1>4. Standing(c) \in {"on", "off"} /\ Standing(c)' \in {"over"} \cup ({"on"} \cap {Standing(c)})
  BY <1>0, <1>1, Stands, StandsNext DEF CancelledAsked
<1>5. /\ request[q].state = "free" /\ request'[q].state = "taken" /\ request'[q].by = c
      /\ \A r \in Requests : r # q => request'[r] = request[r]
  BY <1>0 DEF Take, RequestRecords
<1>6. TakenFrom[q] = Nil /\ TakenFrom' = [TakenFrom EXCEPT ![q] = c]
  BY <1>0, <1>5 DEF RequestsOwned, TakenFrom
<1>7. UNCHANGED Given
  <2>1. \A r \in Requests : AnswerOf(r)' = AnswerOf(r)
    BY <1>1, <1>5 DEF AnswerOf, Asked
  <2> QED BY <2>1 DEF Given
<1> QED BY <1>2, <1>3, <1>4, <1>6, <1>7, AbstractSteps

\* While a request is handled nothing is seen of it.
LEMMA HandledUnseen ==
    ASSUME TypeOK, NEW q \in Requests, UNCHANGED callerVars,
           request[q].state # "answered", request'[q].state # "answered",
           request'[q].by = request[q].by,
           \A r \in Requests : r # q => request'[r] = request[r] /\ results'[r] = results[r]
    PROVE  UNCHANGED Service!vars
<1>1. \A r \in Requests : AnswerOf(r)' = AnswerOf(r) /\ request'[r].by = request[r].by
  BY DEF AnswerOf, Asked
<1> QED BY <1>1, StandingsSame, NothingSeen DEF TakenFrom, Given

LEMMA AnswerMaps ==
    ASSUME ServiceInv, NEW q \in Requests, Answer(q), UNCHANGED callerVars
    PROVE  Service!Answer(q)
<1>0. /\ TypeOK /\ RequestsOwned /\ Fits(results) /\ results \in [Requests -> Channels]
      /\ request \in [Requests -> RequestRecords] /\ results' = results
  BY DEF ServiceInv, TypeOK, ReadingsFit, Answer
<1>1. /\ request[q].state = "draining" /\ request'[q].state = "answered"
      /\ request'[q].by = request[q].by /\ \A r \in Requests : r # q => request'[r] = request[r]
  BY <1>0, RequestGoesKeeps DEF Answer, RequestStates
<1>2. request[q].by \in Callers /\ request[q].by # Nil
  BY <1>0, <1>1, SensorsAssumption DEF RequestsOwned
<1>3. UNCHANGED <<Standings, TakenFrom>> /\ TakenFrom[q] = request[q].by /\ Given[q] = Nil
  BY <1>1, StandingsSame DEF TakenFrom, Given, AnswerOf
<1>4. AnswerOf(q)' \in Service!Answers(request[q].by)
  <2>1. AnswerOf(q)' = [m \in Wanted[request[q].by] |-> results[q][m]]
    BY <1>0, <1>1 DEF AnswerOf, Asked
  <2>2. \A m \in Wanted[request[q].by] : m \in Metrics /\ results[q][m] \in SUBSET Sensors
    BY <1>0, <1>2, SensorsAssumption DEF Channels
  <2> QED BY <1>0, <2>1, <2>2 DEF Service!Answers, Fits
<1>5. Given' = [Given EXCEPT ![q] = AnswerOf(q)']
  <2>1. \A r \in Requests : r # q => AnswerOf(r)' = AnswerOf(r)
    BY <1>0, <1>1 DEF AnswerOf, Asked
  <2> QED BY <2>1 DEF Given
<1> QED BY <1>2, <1>3, <1>4, <1>5, AbstractSteps

LEMMA HandlerMaps ==
    ASSUME ServiceInv, NEW q \in Requests, HandlerStep(q)
    PROVE  Service!Answer(q) \/ UNCHANGED Service!vars
<1>0. TypeOK /\ UNCHANGED callerVars
  BY DEF ServiceInv, HandlerStep
<1>1. CASE Answer(q)
  BY <1>0, <1>1, AnswerMaps
<1>2. CASE Handle(q) \/ Gather(q)
  <2>1. results' = results /\ \E from, to \in RequestStates \ {"answered"} : RequestGoes(q, from, to)
    BY <1>2 DEF Handle, Gather, RequestStates
  <2> QED BY <1>0, <2>1, RequestGoesKeeps, HandledUnseen
<1>3. CASE \E m \in Metrics, s \in Sensors : Drain(q, m, s)
  <2>1. /\ request' = request /\ request[q].state = "draining"
        /\ \A r \in Requests : r # q => results'[r] = results[r]
    BY <1>0, <1>3 DEF Drain, TypeOK
  <2> QED BY <1>0, <2>1, HandledUnseen
<1> QED BY <1>1, <1>2, <1>3 DEF HandlerStep

LEMMA TimeMaps ==
    ASSUME ServiceInv, NEW q \in Requests, TimeStep(q)
    PROVE  UNCHANGED Service!vars
<1>1. /\ TypeOK /\ UNCHANGED callerVars
      /\ request[q].state = "waiting" /\ request'[q].state = "waiting"
      /\ request'[q].by = request[q].by
      /\ \A r \in Requests : r # q => request'[r] = request[r] /\ results'[r] = results[r]
  BY DEF TimeStep, TimeOut, ServiceInv, TypeOK, RequestRecords
<1> QED BY <1>1, HandledUnseen

LEMMA RestMaps == UNCHANGED <<callerVars, request, results>> => UNCHANGED Service!vars
BY StandingsSame, GivenSame, NothingSeen

LEMMA StepMaps == ServiceInv /\ [Next]_vars => [Service!Next]_Service!vars
<1> SUFFICES ASSUME ServiceInv, [Next]_vars
             PROVE  Service!Next \/ UNCHANGED Service!vars
  OBVIOUS
<1>1. ASSUME NEW c \in Callers, CallerStep(c)
      PROVE  Service!Next \/ UNCHANGED Service!vars
  BY <1>1, CallerMaps DEF Service!Next
<1>2. ASSUME NEW c \in Callers, NEW q \in Requests, Take(c, q)
      PROVE  Service!Next
  BY <1>2, TakeMaps DEF Service!Next
<1>3. CASE LoopStep \/ SensorsStep \/ StandbyStep \/ MapRace
  BY <1>3, RestMaps DEF LoopStep, SensorsStep, StandbyStep, MapRace, requestVars
<1>4. ASSUME NEW q \in Requests, HandlerStep(q) \/ TimeStep(q)
      PROVE  Service!Next \/ UNCHANGED Service!vars
  BY <1>4, HandlerMaps, TimeMaps DEF Service!Next
<1>5. ASSUME NEW p \in Pairs, ReaderStep(p) \/ \E m \in Metrics : HarvestStep(p, m)
      PROVE  UNCHANGED Service!vars
  BY <1>5, RestMaps DEF ReaderStep, HarvestStep, requestVars
<1>6. CASE UNCHANGED vars
  BY <1>6, RestMaps DEF vars, requestVars
<1> QED BY <1>1, <1>2, <1>3, <1>4, <1>5, <1>6 DEF Next

\* The engine is a reading service, for any callers, sensors, requests, timers
\* and disturbances: a request is answered at most once, for the metrics it
\* asked for and by sensors that measure them, and a cancelled receiver asks at
\* most once more (SubscribeReceiver, handleRequest and aggregate of
\* sensors_reader.go).
THEOREM Implements == Spec => ServesReadings
<1> QED BY InitServes, StepServes, InitMaps, StepMaps, PTL DEF Spec, ServesReadings, Service!Spec

--------------------------------------------------------------------------------
(* What a request leaves behind.                                            *)

\* A request whose sensors have not been started has no goroutine for any.
NotStarted ==
    \A q \in Requests : request[q].state \in {"free", "taken"} =>
        \A s \in Sensors : reader[<<q, s>>] = "none"

\* One that has stopped waiting has no reader left that does anything.
ReadersOver ==
    \A q \in Requests : request[q].state \in {"draining", "answered"} =>
        \A s \in Sensors : reader[<<q, s>>] \in {"none", "done"}

\* A harvester has a reader that waits for it, or had one that gave up in time.
HarvestersKnown ==
    \A q \in Requests, s \in Sensors : unread[<<q, s>>] # Nil =>
        reader[<<q, s>>] = "wait" \/ (reader[<<q, s>>] = "done" /\ request[q].late)

\* Readings come late only to a request that is late.
ChannelsDrained ==
    \A q \in Requests : request[q].state = "answered" /\ ~request[q].late => pipe[q] = Nothing

\* The inductive invariant.
LeftInv == TypeOK /\ NotStarted /\ ReadersOver /\ HarvestersKnown /\ ChannelsDrained

LEMMA InitLeaves == Init => LeftInv
<1> SUFFICES ASSUME Init
             PROVE  LeftInv
  OBVIOUS
<1>1. \A q \in Requests, s \in Sensors : <<q, s>> \in Pairs
  BY DEF Pairs
<1>2. NotStarted /\ ReadersOver /\ HarvestersKnown /\ ChannelsDrained
  BY <1>1 DEF Init, NotStarted, ReadersOver, HarvestersKnown, ChannelsDrained
<1> QED BY <1>2, InitTyped DEF LeftInv

\* A step that no request, channel, reader or harvester sees.
LEMMA LeftKept ==
    ASSUME LeftInv, TypeOK', UNCHANGED <<request, pipe, reader, unread>>
    PROVE  LeftInv'
BY DEF LeftInv, NotStarted, ReadersOver, HarvestersKnown, ChannelsDrained

LEMMA TakeLeaves ==
    ASSUME LeftInv, NEW c \in Callers, NEW q \in Requests, Take(c, q)
    PROVE  LeftInv'
<1>0. TypeOK /\ TypeOK'
  BY TakeTyped DEF LeftInv
<1>1. UNCHANGED <<pipe, reader, unread>>
  BY DEF Take, readerVars
<1>2. /\ request[q].state = "free" /\ request'[q].state = "taken"
      /\ request'[q].late = request[q].late
      /\ \A r \in Requests : r # q => request'[r] = request[r]
  BY <1>0 DEF Take, TypeOK, RequestRecords
<1>3. \A r \in Requests : request'[r].late = request[r].late
  BY <1>2
<1>4. NotStarted' /\ ReadersOver'
  BY <1>1, <1>2 DEF LeftInv, NotStarted, ReadersOver
<1>5. HarvestersKnown'
  BY <1>1, <1>3 DEF LeftInv, HarvestersKnown
<1>6. ChannelsDrained'
  BY <1>1, <1>2 DEF LeftInv, ChannelsDrained
<1> QED BY <1>0, <1>4, <1>5, <1>6 DEF LeftInv

LEMMA HandlerLeaves ==
    ASSUME LeftInv, NEW q \in Requests, HandlerStep(q)
    PROVE  LeftInv'
<1>0. TypeOK /\ TypeOK'
  BY HandlerTyped DEF LeftInv
<1>1. unread' = unread
  BY DEF HandlerStep
<1>2. \A r \in Requests, s \in Sensors : <<r, s>> \in Pairs /\ <<r, s>>[1] = r /\ <<r, s>>[2] = s
  BY DEF Pairs
<1>3. \A from : \A to \in RequestStates : RequestGoes(q, from, to) =>
          /\ request[q].state = from /\ request'[q].state = to
          /\ request'[q].late = request[q].late
          /\ \A r \in Requests : r # q => request'[r] = request[r]
  BY <1>0 DEF RequestGoes, TypeOK, RequestRecords
<1>4. CASE Handle(q)
  <2>1. /\ request[q].state = "taken" /\ request'[q].state = "waiting"
        /\ \A r \in Requests : r # q => request'[r] = request[r]
        /\ request'[q].late = request[q].late
        /\ pipe' = pipe
    BY <1>3, <1>4 DEF Handle, RequestStates
  <2>2. \A r \in Requests, s \in Sensors : r # q => reader'[<<r, s>>] = reader[<<r, s>>]
    BY <1>2, <1>4 DEF Handle
  <2>3. \A s \in Sensors : unread[<<q, s>>] = Nil
    BY <2>1 DEF LeftInv, NotStarted, HarvestersKnown
  <2>4. NotStarted' /\ ReadersOver'
    BY <2>1, <2>2 DEF LeftInv, NotStarted, ReadersOver
  <2>5. HarvestersKnown'
    BY <1>1, <2>1, <2>2, <2>3 DEF LeftInv, HarvestersKnown
  <2>6. ChannelsDrained'
    BY <2>1 DEF LeftInv, ChannelsDrained
  <2> QED BY <1>0, <2>4, <2>5, <2>6 DEF LeftInv
<1>5. CASE Gather(q)
  <2>1. /\ request[q].state = "waiting" /\ request'[q].state = "draining"
        /\ \A r \in Requests : r # q => request'[r] = request[r]
        /\ request'[q].late = request[q].late
        /\ pipe' = pipe /\ reader' = reader
        /\ \A s \in Sensors : reader[<<q, s>>] \in {"none", "done"}
    BY <1>3, <1>5 DEF Gather, RequestStates
  <2>2. NotStarted' /\ ReadersOver'
    BY <2>1 DEF LeftInv, NotStarted, ReadersOver
  <2>3. HarvestersKnown'
    BY <1>1, <2>1 DEF LeftInv, HarvestersKnown
  <2>4. ChannelsDrained'
    BY <2>1 DEF LeftInv, ChannelsDrained
  <2> QED BY <1>0, <2>2, <2>3, <2>4 DEF LeftInv
<1>6. CASE Answer(q)
  <2>1. /\ request[q].state = "draining" /\ request'[q].state = "answered"
        /\ \A r \in Requests : r # q => request'[r] = request[r]
        /\ request'[q].late = request[q].late
        /\ pipe' = pipe /\ reader' = reader /\ pipe[q] = Nothing
    BY <1>3, <1>6 DEF Answer, RequestStates
  <2>2. NotStarted' /\ ReadersOver'
    BY <2>1 DEF LeftInv, NotStarted, ReadersOver
  <2>3. HarvestersKnown'
    BY <1>1, <2>1 DEF LeftInv, HarvestersKnown
  <2>4. Nothing' = Nothing
    BY DEF Nothing
  <2>5. ChannelsDrained'
    BY <2>1, <2>4 DEF LeftInv, ChannelsDrained
  <2> QED BY <1>0, <2>2, <2>3, <2>5 DEF LeftInv
<1>7. ASSUME NEW m \in Metrics, NEW s \in Sensors, Drain(q, m, s)
      PROVE  LeftInv'
  <2>1. /\ request[q].state = "draining" /\ request' = request /\ reader' = reader
        /\ \A r \in Requests : r # q => pipe'[r] = pipe[r]
    BY <1>0, <1>7 DEF Drain, TypeOK
  <2>2. NotStarted' /\ ReadersOver' /\ HarvestersKnown'
    BY <1>1, <2>1 DEF LeftInv, NotStarted, ReadersOver, HarvestersKnown
  <2>3. ChannelsDrained'
    BY <2>1 DEF LeftInv, ChannelsDrained
  <2> QED BY <1>0, <2>2, <2>3 DEF LeftInv
<1> QED BY <1>4, <1>5, <1>6, <1>7 DEF HandlerStep

LEMMA TimeLeaves ==
    ASSUME LeftInv, NEW q \in Requests, TimeStep(q)
    PROVE  LeftInv'
<1>0. TypeOK /\ TypeOK'
  BY TimeTyped DEF LeftInv
<1>1. UNCHANGED <<pipe, reader, unread>>
  BY DEF TimeStep, TimeOut
<1>2. /\ request'[q].state = request[q].state /\ request'[q].late
      /\ \A r \in Requests : r # q => request'[r] = request[r]
  BY <1>0 DEF TimeStep, TimeOut, TypeOK, RequestRecords
<1>3. NotStarted' /\ ReadersOver'
  BY <1>1, <1>2 DEF LeftInv, NotStarted, ReadersOver
<1>4. HarvestersKnown'
  BY <1>1, <1>2 DEF LeftInv, HarvestersKnown
<1>5. ChannelsDrained'
  BY <1>1, <1>2 DEF LeftInv, ChannelsDrained
<1> QED BY <1>0, <1>3, <1>4, <1>5 DEF LeftInv

LEMMA ReaderLeaves ==
    ASSUME LeftInv, NEW p \in Pairs, ReaderStep(p)
    PROVE  LeftInv'
<1>0. TypeOK /\ TypeOK'
  BY ReaderTyped DEF LeftInv
<1>1. request' = request /\ pipe' = pipe
  BY DEF ReaderStep, requestVars
<1>2. PICK q \in Requests, s \in Sensors : p = <<q, s>>
  BY DEF Pairs
<1>3. \A r \in Requests, t \in Sensors : <<r, t>> \in Pairs
  BY DEF Pairs
<1>4. \A from, to : ReaderGoes(p, from, to) =>
          /\ reader[p] = from /\ reader'[p] = to
          /\ \A o \in Pairs : o # p => reader'[o] = reader[o]
  BY <1>0 DEF ReaderGoes, TypeOK
<1>5. /\ reader[p] \notin {"none", "done"} /\ reader'[p] # "none"
      /\ \A o \in Pairs : o # p => reader'[o] = reader[o]
  BY <1>4 DEF ReaderStep, FindActive, FindAsleep, WakeSensor, WakeFails, Rearm, NoTimer, MakeTimer, Watch, Read, Harvested, GiveUp
<1>6. \A o \in Pairs : o # p => unread'[o] = unread[o]
  BY <1>0 DEF ReaderStep, FindActive, FindAsleep, WakeSensor, WakeFails, Rearm, NoTimer, MakeTimer, Watch, Read, Harvested, GiveUp,
              TypeOK
<1>7. unread'[p] # Nil => reader'[p] = "wait" \/ (reader'[p] = "done" /\ request[q].late)
  <2>1. CASE Read(p)
    <3>1. unread[p] = Nil
      BY <1>2, <2>1 DEF Read, ReaderGoes, LeftInv, HarvestersKnown
    <3> QED BY <1>4, <2>1, <3>1 DEF Read
  <2>2. CASE Harvested(p)
    BY <1>0, <2>2 DEF Harvested, TypeOK
  <2>3. CASE GiveUp(p)
    BY <1>2, <1>4, <2>3 DEF GiveUp
  <2>4. CASE ~Read(p) /\ ~Harvested(p) /\ ~GiveUp(p)
    <3>1. reader[p] \in {"init", "open", "arm", "make", "watch"} /\ unread' = unread
      BY <2>4 DEF ReaderStep, FindActive, FindAsleep, WakeSensor, WakeFails, Rearm, NoTimer, MakeTimer, Watch, ReaderGoes
    <3>2. unread[p] = Nil
      BY <1>2, <3>1 DEF LeftInv, HarvestersKnown
    <3> QED BY <3>1, <3>2
  <2> QED BY <2>1, <2>2, <2>3, <2>4
<1>8. request[q].state \notin {"free", "taken", "draining", "answered"}
  BY <1>2, <1>5 DEF LeftInv, NotStarted, ReadersOver
<1>9. NotStarted' /\ ReadersOver'
  BY <1>1, <1>2, <1>3, <1>5, <1>8 DEF LeftInv, NotStarted, ReadersOver
<1>10. HarvestersKnown'
  BY <1>1, <1>2, <1>3, <1>5, <1>6, <1>7 DEF LeftInv, HarvestersKnown
<1>11. ChannelsDrained'
  BY <1>1 DEF LeftInv, ChannelsDrained
<1> QED BY <1>0, <1>9, <1>10, <1>11 DEF LeftInv

LEMMA HarvestLeaves ==
    ASSUME LeftInv, NEW p \in Pairs, NEW m \in Metrics, HarvestStep(p, m)
    PROVE  LeftInv'
<1>0. TypeOK /\ TypeOK'
  BY HarvestTyped DEF LeftInv
<1>1. request' = request /\ reader' = reader /\ unread[p] # Nil
  BY DEF HarvestStep
<1>2. PICK q \in Requests, s \in Sensors : p = <<q, s>>
  BY DEF Pairs
<1>3. \A r \in Requests, t \in Sensors : <<r, t>> \in Pairs
  BY DEF Pairs
<1>4. \A o \in Pairs : o # p => unread'[o] = unread[o]
  BY <1>0 DEF HarvestStep, TypeOK
<1>5. \A r \in Requests : r # q => pipe'[r] = pipe[r]
  <2>1. CASE Write(p, m)
    BY <1>0, <1>2, <2>1 DEF Write, TypeOK
  <2>2. CASE WriteFails
    BY <2>2 DEF WriteFails
  <2> QED BY <2>1, <2>2 DEF HarvestStep
<1>6. request[q].state = "answered" => request[q].late
  BY <1>1, <1>2 DEF LeftInv, HarvestersKnown, ReadersOver
<1>7. NotStarted' /\ ReadersOver'
  BY <1>1 DEF LeftInv, NotStarted, ReadersOver
<1>8. HarvestersKnown'
  BY <1>1, <1>2, <1>3, <1>4 DEF LeftInv, HarvestersKnown
<1>9. ChannelsDrained'
  BY <1>1, <1>5, <1>6 DEF LeftInv, ChannelsDrained
<1> QED BY <1>0, <1>7, <1>8, <1>9 DEF LeftInv

LEMMA StepLeaves == LeftInv /\ [Next]_vars => LeftInv'
<1> SUFFICES ASSUME LeftInv, [Next]_vars
             PROVE  LeftInv'
  OBVIOUS
<1>0. TypeOK'
  BY StepTyped DEF LeftInv
<1>1. ASSUME NEW c \in Callers, CallerStep(c)
      PROVE  LeftInv'
  BY <1>0, <1>1, LeftKept DEF CallerStep, requestVars, readerVars
<1>2. CASE LoopStep \/ SensorsStep \/ StandbyStep \/ MapRace
  BY <1>0, <1>2, LeftKept DEF LoopStep, SensorsStep, StandbyStep, MapRace, requestVars, readerVars
<1>3. CASE UNCHANGED vars
  BY <1>0, <1>3, LeftKept DEF vars, requestVars, readerVars
<1> QED BY <1>1, <1>2, <1>3, TakeLeaves, HandlerLeaves, TimeLeaves, ReaderLeaves, HarvestLeaves
        DEF Next

\* A request that was answered in time leaves no harvester that nobody waits for
\* and no reading that nobody drains, however many requests and sensors there are
\* and whatever sensors, timers and callers do.
THEOREM LeavesBehind == Spec => []OnlyLateLeavesBehind
<1>1. LeftInv => OnlyLateLeavesBehind
  BY DEF LeftInv, OnlyLateLeavesBehind, HarvestersKnown, ReadersOver, ChannelsDrained
<1> QED BY <1>1, InitLeaves, StepLeaves, PTL DEF Spec

================================================================================
