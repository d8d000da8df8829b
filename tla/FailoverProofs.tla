----------------------------- MODULE FailoverProofs -----------------------------
(***************************************************************************)
(* Failover is well typed, no cached reading is lost when no two readings  *)
(* have one key, and none is stranded: for any number of readings, timers  *)
(* and reposting loops, any outages, crashes and failures.                 *)
(***************************************************************************)
EXTENDS Failover, TLAPS

--------------------------------------------------------------------------------
(* Types.                                                                   *)

LEMMA RestingTyped ==
    Empty \in Snapshots /\ Resting \in ReposterRecords /\ LeftOff \in ReposterRecords
<1>1. Empty \in Snapshots
  BY DEF Empty, Snapshots
<1> QED BY <1>1 DEF Resting, LeftOff, ReposterRecords, ReposterPCs

LEMMA StartedTyped == \A i \in Reposters : Started(i) \in [Reposters -> ReposterRecords]
<1> DEFINE Beginning == [Resting EXCEPT !.pc = "begin"]
<1>1. Beginning \in ReposterRecords
  BY RestingTyped DEF Resting, ReposterRecords, ReposterPCs
<1> HIDE DEF Beginning
<1>2. \A i \in Reposters :
         Started(i) = [j \in Reposters |-> IF j = i THEN Beginning ELSE Resting]
  BY DEF Started, Beginning
<1> QED BY <1>1, <1>2, RestingTyped

LEMMA PingingTyped ==
    \A pc \in PingPCs \cup {"begin"} : [Resting EXCEPT !.pc = pc] \in ReposterRecords
BY RestingTyped DEF Resting, ReposterRecords, ReposterPCs

\* Pinging leaves the timers and those that wait for them well typed.
LEMMA PingTyped ==
    ASSUME TypeOK, NEW pc, NEW next, NEW done, PingStep(pc, next, done)
    PROVE  /\ pingTimer' \in Timers \cup {Nil}
           /\ timer' \in [Timers -> TimerRecords]
           /\ waiters' \in [Timers -> Nat]
<1>1. CASE pc = "ping"
  BY <1>1 DEF PingStep, timerVars, TypeOK
<1>2. CASE pc = "make"
  <2> DEFINE new == [running |-> TRUE, tick |-> FALSE, made |-> TRUE]
  <2>1. PICK x \in Timers : pingTimer' = x /\ timer' = [timer EXCEPT ![x] = new]
    BY <1>2 DEF PingStep
  <2>2. new \in TimerRecords /\ waiters' = waiters
    BY <1>2 DEF TimerRecords, PingStep
  <2> HIDE DEF new
  <2> QED BY <2>1, <2>2 DEF TypeOK
<1>3. CASE pc = "reset"
  <2> DEFINE run == [timer[pingTimer] EXCEPT !.running = TRUE]
  <2>1. /\ timer' = [timer EXCEPT ![pingTimer] = run]
        /\ pingTimer' = pingTimer /\ waiters' = waiters
    BY <1>3 DEF PingStep
  <2>2. CASE pingTimer \in Timers
    <3>1. run \in TimerRecords
      BY <2>2 DEF TypeOK, TimerRecords
    <3> HIDE DEF run
    <3> QED BY <2>1, <3>1 DEF TypeOK
  <2>3. CASE pingTimer \notin Timers
    <3> HIDE DEF run
    <3>1. timer' = timer
      BY <2>1, <2>3 DEF TypeOK
    <3> QED BY <2>1, <3>1 DEF TypeOK
  <2> QED BY <2>2, <2>3
<1>4. CASE pc = "watch"
  <2>1. /\ waiters' = [waiters EXCEPT ![pingTimer] = @ + 1]
        /\ pingTimer' = pingTimer /\ timer' = timer
    BY <1>4 DEF PingStep
  <2>2. CASE pingTimer \in Timers
    <3>1. waiters[pingTimer] + 1 \in Nat
      BY <2>2 DEF TypeOK
    <3> QED BY <2>1, <3>1 DEF TypeOK
  <2>3. CASE pingTimer \notin Timers
    <3>1. waiters' = waiters
      BY <2>1, <2>3 DEF TypeOK
    <3> QED BY <2>1, <3>1 DEF TypeOK
  <2> QED BY <2>2, <2>3
<1>5. pc \in {"ping", "make", "reset", "watch"}
  BY DEF PingStep
<1> QED BY <1>1, <1>2, <1>3, <1>4, <1>5

LEMMA InitTyped == Init => TypeOK
<1> SUFFICES ASSUME Init PROVE TypeOK
  OBVIOUS
<1>1. PICK i \in Reposters : reposter = Started(i)
  BY DEF Init
<1>2. "new" \in HandlerPCs /\ Stopped \in TimerRecords
  BY DEF HandlerPCs, Stopped, TimerRecords
<1> QED BY <1>1, <1>2, RestingTyped, StartedTyped, FailoverAssumption DEF Init, TypeOK

LEMMA HandlerTyped ==
    ASSUME TypeOK, NEW m \in Readings, Handler(m)
    PROVE  TypeOK'
<1> USE DEF networkVars, timerVars
<1>0. \A pc \in HandlerPCs : Step(m, pc) => reading' \in [Readings -> HandlerPCs]
  BY DEF Step, TypeOK
<1>1. CASE PostReadings(m)
  <2>1. PICK pc \in {"gone", "ping"} : Step(m, pc)
    BY <1>1 DEF PostReadings
  <2>2. reading' \in [Readings -> HandlerPCs]
    BY <1>0, <2>1 DEF HandlerPCs, PingPCs
  <2> QED BY <1>1, <2>2 DEF PostReadings, TypeOK
<1>2. CASE HandlerPings(m)
  <2>1. PICK next \in PingPCs \cup {"store"} :
           PingStep(reading[m], next, "store") /\ Step(m, next)
    BY <1>2 DEF HandlerPings
  <2>2. reading' \in [Readings -> HandlerPCs]
    BY <1>0, <2>1 DEF HandlerPCs
  <2>3. /\ pingTimer' \in Timers \cup {Nil}
        /\ timer' \in [Timers -> TimerRecords]
        /\ waiters' \in [Timers -> Nat]
    BY <2>1, PingTyped
  <2> QED BY <1>2, <2>2, <2>3 DEF HandlerPings, TypeOK
<1>3. CASE CacheReadings(m)
  <2>1. PICK pc \in {"cached", "gone"} : Step(m, pc)
    BY <1>3 DEF CacheReadings
  <2>2. reading' \in [Readings -> HandlerPCs]
    BY <1>0, <2>1 DEF HandlerPCs
  <2>3. db' \in Snapshots
    BY <1>3, FailoverAssumption DEF CacheReadings, TypeOK, Snapshots
  <2> QED BY <1>3, <2>2, <2>3 DEF CacheReadings, TypeOK
<1> QED BY <1>1, <1>2, <1>3 DEF Handler

\* Whatever is changed of a loop's record, it stays one.
LEMMA ReposterTyped ==
    ASSUME TypeOK, NEW i \in Reposters,
           NEW q \in ReposterRecords, reposter' = [reposter EXCEPT ![i] = q]
    PROVE  reposter' \in [Reposters -> ReposterRecords]
BY DEF TypeOK

LEMMA RepostingTyped ==
    ASSUME TypeOK, NEW i \in Reposters, Reposting(i)
    PROVE  TypeOK'
<1> USE DEF networkVars, timerVars
<1>0. reposter[i] \in ReposterRecords
  BY DEF TypeOK
<1>1. CASE BeginIteration(i)
  <2> DEFINE q == [Resting EXCEPT !.pc = "next", !.snapshot = db]
  <2>1. q \in ReposterRecords
    BY RestingTyped DEF Resting, ReposterRecords, ReposterPCs, TypeOK
  <2>2. reposter' = [reposter EXCEPT ![i] = q]
    BY <1>1 DEF BeginIteration
  <2> HIDE DEF q
  <2>3. reposter' \in [Reposters -> ReposterRecords]
    BY <2>1, <2>2, ReposterTyped
  <2> QED BY <1>1, <2>3 DEF BeginIteration, TypeOK
<1>2. CASE EndIteration(i)
  <2>1. reposter' \in [Reposters -> ReposterRecords]
    BY <1>2, RestingTyped, ReposterTyped DEF EndIteration
  <2> QED BY <1>2, <2>1 DEF EndIteration, TypeOK
<1>3. CASE Repost(i)
  <2> DEFINE pop(k) == [reposter[i] EXCEPT !.pc = "pop", !.key = k]
             ping   == [Resting EXCEPT !.pc = "ping"]
  <2>1. PICK k \in Left(i) :
           /\ \/ reposter' = [reposter EXCEPT ![i] = pop(k)]
              \/ reposter' = [reposter EXCEPT ![i] = ping]
           /\ posted' = posted \/ posted' = posted \cup {reposter[i].snapshot[k]}
           /\ refused' = refused \/ refused' = refused \cup {reposter[i].snapshot[k]}
    BY <1>3 DEF Repost
  <2>2. k \in Keys /\ reposter[i].snapshot[k] \in Readings
    BY <1>0 DEF Left, ReposterRecords, Snapshots
  <2>3. pop(k) \in ReposterRecords /\ ping \in ReposterRecords
    BY <1>0, <2>2, PingingTyped DEF ReposterRecords, ReposterPCs, PingPCs
  <2> HIDE DEF pop, ping
  <2>4. reposter' \in [Reposters -> ReposterRecords]
    BY <2>1, <2>3, ReposterTyped
  <2>5. posted' \subseteq Readings /\ refused' \subseteq Readings
    BY <2>1, <2>2 DEF TypeOK
  <2> QED BY <1>3, <2>4, <2>5 DEF Repost, TypeOK
<1>4. CASE Pop(i)
  <2> DEFINE k == reposter[i].key
             q == [reposter[i] EXCEPT !.pc = "next", !.key = Nil, !.snapshot[k] = Nil]
  <2>1. q \in ReposterRecords
    BY <1>0 DEF ReposterRecords, ReposterPCs, Snapshots
  <2>2. \/ reposter' = [reposter EXCEPT ![i] = q]
        \/ reposter' = [reposter EXCEPT ![i] = LeftOff]
    BY <1>4 DEF Pop
  <2> HIDE DEF q
  <2>3. reposter' \in [Reposters -> ReposterRecords]
    BY <2>1, <2>2, RestingTyped, ReposterTyped
  <2>4. db' \in Snapshots
    BY <1>4 DEF Pop, TypeOK, Snapshots
  <2> QED BY <1>4, <2>3, <2>4 DEF Pop, TypeOK
<1>5. CASE ReposterPings(i)
  <2>1. PICK next \in PingPCs \cup {"idle"} :
           /\ PingStep(reposter[i].pc, next, "idle")
           /\ reposter' = [reposter EXCEPT ![i] =
                              IF next = "idle" THEN Resting ELSE [@ EXCEPT !.pc = next]]
    BY <1>5 DEF ReposterPings
  <2> DEFINE q == [reposter[i] EXCEPT !.pc = next]
  <2>2. q \in ReposterRecords
    BY <1>0 DEF ReposterRecords, ReposterPCs
  <2>3. reposter' = [reposter EXCEPT ![i] = IF next = "idle" THEN Resting ELSE q]
    BY <2>1
  <2> HIDE DEF q
  <2>4. reposter' \in [Reposters -> ReposterRecords]
    BY <2>2, <2>3, RestingTyped, ReposterTyped
  <2>5. /\ pingTimer' \in Timers \cup {Nil}
        /\ timer' \in [Timers -> TimerRecords]
        /\ waiters' \in [Timers -> Nat]
    BY <2>1, PingTyped
  <2> QED BY <1>5, <2>4, <2>5 DEF ReposterPings, TypeOK
<1> QED BY <1>1, <1>2, <1>3, <1>4, <1>5 DEF Reposting

LEMMA TicksTyped ==
    ASSUME TypeOK, NEW x \in Timers, Ticks(x)
    PROVE  TypeOK'
<1> DEFINE q == [timer[x] EXCEPT !.running = FALSE, !.tick = TRUE]
<1>1. q \in TimerRecords
  BY DEF TypeOK, TimerRecords
<1>2. timer' = [timer EXCEPT ![x] = q]
  BY DEF Ticks
<1> HIDE DEF q
<1> QED BY <1>1, <1>2 DEF Ticks, TypeOK, networkVars

LEMMA PongTyped ==
    ASSUME TypeOK, NEW x \in Timers, NEW i \in Reposters, Pong(x, i)
    PROVE  TypeOK'
<1> DEFINE taken == [timer[x] EXCEPT !.tick = FALSE]
           begun == [Resting EXCEPT !.pc = "begin"]
<1>1. taken \in TimerRecords
  BY DEF TypeOK, TimerRecords
<1>2. begun \in ReposterRecords
  BY RestingTyped DEF Resting, ReposterRecords, ReposterPCs
<1>3. /\ timer' = [timer EXCEPT ![x] = taken]
      /\ reposter' = [reposter EXCEPT ![i] = begun]
  BY DEF Pong
<1>4. waiters' \in [Timers -> Nat]
  BY DEF Pong, TypeOK
<1> HIDE DEF taken, begun
<1>5. reposter' \in [Reposters -> ReposterRecords]
  BY <1>2, <1>3, ReposterTyped
<1> QED BY <1>1, <1>3, <1>4, <1>5 DEF Pong, TypeOK, networkVars

LEMMA RestartTyped ==
    ASSUME TypeOK, Restart
    PROVE  TypeOK'
<1>1. PICK i \in Reposters : reposter' = Started(i)
  BY DEF Restart
<1>2. "gone" \in HandlerPCs /\ Stopped \in TimerRecords
  BY DEF HandlerPCs, Stopped, TimerRecords
<1>3. /\ reading' \in [Readings -> HandlerPCs]
      /\ timer' \in [Timers -> TimerRecords]
      /\ waiters' \in [Timers -> Nat]
  BY <1>2 DEF Restart, TypeOK
<1>4. crashes' \in 0..MaxCrashes
  BY FailoverAssumption DEF Restart, TypeOK
<1> QED BY <1>1, <1>3, <1>4, StartedTyped DEF Restart, TypeOK

LEMMA NextTyped == TypeOK /\ [Next]_vars => TypeOK'
<1> SUFFICES ASSUME TypeOK, [Next]_vars PROVE TypeOK'
  OBVIOUS
<1>1. CASE LoseNetwork
  <2>1. outages' \in 0..MaxOutages
    BY <1>1, FailoverAssumption DEF LoseNetwork, TypeOK
  <2> QED BY <1>1, <2>1 DEF LoseNetwork, TypeOK, timerVars
<1>2. CASE RegainNetwork
  BY <1>2 DEF RegainNetwork, TypeOK, timerVars
<1>3. CASE UNCHANGED vars
  BY <1>3 DEF TypeOK, vars, networkVars, timerVars
<1> QED BY <1>1, <1>2, <1>3, RestartTyped, HandlerTyped, TicksTyped, PongTyped,
           RepostingTyped DEF Next

\* Every reachable state is well typed: a reading or nothing under each key, and
\* never fewer than no waiters on a timer.
THEOREM TypeCorrect == Spec => []TypeOK
BY InitTyped, NextTyped, PTL DEF Spec

--------------------------------------------------------------------------------
(* No cached reading is lost.                                               *)

\* No two readings have one key: their assets or their seconds differ.
KeysDiffer == \A m, n \in Readings : KeyOf[m] = KeyOf[n] => m = n

\* What lies under a key, in the database or in a loop's iterator, is of it.
Filed(d) == \A k \in Keys : d[k] # Nil => KeyOf[d[k]] = k

\* A loop is about to delete the key of a reading the ledger has answered for.
PopsSettled ==
    \A i \in Reposters :
        reposter[i].pc = "pop" =>
            /\ reposter[i].key \in Keys
            /\ reposter[i].snapshot[reposter[i].key] \in posted \cup refused

\* The inductive invariant.
KeepingInv ==
    /\ TypeOK
    /\ Filed(db)
    /\ \A i \in Reposters : Filed(reposter[i].snapshot)
    /\ PopsSettled
    /\ CachedNotLost

LEMMA KeepingInit == Init => KeepingInv
<1> SUFFICES ASSUME Init PROVE KeepingInv
  OBVIOUS
<1>1. PICK i \in Reposters : reposter = Started(i)
  BY DEF Init
<1>2. \A j \in Reposters : /\ reposter[j].pc \in {"idle", "begin"}
                           /\ reposter[j].snapshot = Empty
  BY <1>1 DEF Started, Resting
<1>3. Filed(Empty)
  BY DEF Filed, Empty
<1>4. PopsSettled
  BY <1>2 DEF PopsSettled
<1>5. CachedNotLost
  BY DEF Init, CachedNotLost
<1> QED BY <1>2, <1>3, <1>4, <1>5, InitTyped DEF Init, KeepingInv

\* A step that leaves the database and the loops alone, caches nothing and
\* takes back no answer of the ledger.
LEMMA KeptAside ==
    ASSUME KeepingInv, TypeOK', db' = db, reposter' = reposter,
           posted \subseteq posted', refused \subseteq refused',
           \A m \in Readings : reading'[m] = "cached" => reading[m] = "cached"
    PROVE  KeepingInv'
<1>1. PopsSettled'
  BY DEF KeepingInv, PopsSettled
<1>2. CachedNotLost'
  BY DEF KeepingInv, CachedNotLost, Settled
<1> QED BY <1>1, <1>2 DEF KeepingInv, Filed

\* A step of one loop that does not end at "pop" and keeps its iterator, or
\* takes one of what is filed.
LEMMA KeptLooping ==
    ASSUME KeepingInv, TypeOK', db' = db, reading' = reading,
           posted' = posted, refused' = refused,
           NEW i \in Reposters, NEW q, reposter' = [reposter EXCEPT ![i] = q],
           q.pc # "pop", Filed(q.snapshot)
    PROVE  KeepingInv'
<1>1. \A j \in Reposters : reposter'[j] = IF j = i THEN q ELSE reposter[j]
  BY DEF KeepingInv, TypeOK
<1>2. PopsSettled'
  BY <1>1 DEF KeepingInv, PopsSettled
<1>3. CachedNotLost'
  BY DEF KeepingInv, CachedNotLost, Settled
<1> QED BY <1>1, <1>2, <1>3 DEF KeepingInv, Filed

LEMMA RestingKept ==
    /\ Resting.pc # "pop" /\ Filed(Resting.snapshot)
    /\ LeftOff.pc # "pop" /\ Filed(LeftOff.snapshot)
BY DEF Resting, LeftOff, Filed, Empty

LEMMA HandlerKeeps ==
    ASSUME KeysDiffer, KeepingInv, NEW m \in Readings, Handler(m)
    PROVE  KeepingInv'
<1>0. TypeOK /\ TypeOK'
  BY HandlerTyped DEF KeepingInv
<1>1. \A pc : Step(m, pc) =>
          \A n \in Readings : reading'[n] = IF n = m THEN pc ELSE reading[n]
  BY <1>0 DEF Step, TypeOK
<1>2. CASE PostReadings(m)
  <2>1. \E pc \in {"gone", "ping"} : Step(m, pc)
    BY <1>2 DEF PostReadings
  <2>2. \A n \in Readings : reading'[n] = "cached" => reading[n] = "cached"
    BY <1>1, <2>1
  <2>3. /\ db' = db /\ reposter' = reposter
        /\ posted \subseteq posted' /\ refused \subseteq refused'
    BY <1>2 DEF PostReadings
  <2> QED BY <1>0, <2>2, <2>3, KeptAside
<1>3. CASE HandlerPings(m)
  <2>1. \E next \in PingPCs \cup {"store"} : Step(m, next)
    BY <1>3 DEF HandlerPings
  <2>2. \A n \in Readings : reading'[n] = "cached" => reading[n] = "cached"
    BY <1>1, <2>1 DEF PingPCs
  <2>3. db' = db /\ reposter' = reposter /\ posted' = posted /\ refused' = refused
    BY <1>3 DEF HandlerPings
  <2> QED BY <1>0, <2>2, <2>3, KeptAside
<1>4. CASE CacheReadings(m)
  <2>1. reposter' = reposter /\ posted' = posted /\ refused' = refused
    BY <1>4 DEF CacheReadings
  <2>2. CASE db' = db /\ Step(m, "gone")
    <3>1. \A n \in Readings : reading'[n] = "cached" => reading[n] = "cached"
      BY <1>1, <2>2
    <3> QED BY <1>0, <2>1, <2>2, <3>1, KeptAside
  <2>3. CASE db' = [db EXCEPT ![KeyOf[m]] = m] /\ Step(m, "cached")
    <3>1. KeyOf[m] \in Keys
      BY FailoverAssumption
    <3>2. \A k \in Keys : db'[k] = IF k = KeyOf[m] THEN m ELSE db[k]
      BY <1>0, <2>3, <3>1 DEF TypeOK, Snapshots
    <3>3. Filed(db')
      BY <3>2 DEF KeepingInv, Filed
    <3>4. CachedNotLost'
      <4> SUFFICES ASSUME NEW n \in Readings, reading'[n] = "cached"
                   PROVE  db'[KeyOf[n]] = n \/ Settled(n)'
        BY DEF CachedNotLost
      <4>1. KeyOf[n] \in Keys
        BY FailoverAssumption
      <4>2. CASE n = m
        BY <3>1, <3>2, <4>2
      <4>3. CASE n # m
        <5>1. KeyOf[n] # KeyOf[m]
          BY <4>3 DEF KeysDiffer
        <5>2. reading[n] = "cached"
          BY <1>1, <2>3, <4>3
        <5> QED BY <2>1, <3>2, <4>1, <5>1, <5>2 DEF KeepingInv, CachedNotLost, Settled
      <4> QED BY <4>2, <4>3
    <3>5. PopsSettled'
      BY <2>1 DEF KeepingInv, PopsSettled
    <3> QED BY <1>0, <2>1, <3>3, <3>4, <3>5 DEF KeepingInv, Filed
  <2> QED BY <1>4, <2>2, <2>3 DEF CacheReadings
<1> QED BY <1>2, <1>3, <1>4 DEF Handler

LEMMA RepostKeeps ==
    ASSUME KeepingInv, NEW i \in Reposters, Repost(i)
    PROVE  KeepingInv'
<1>0. TypeOK /\ TypeOK'
  BY RepostingTyped DEF KeepingInv, Reposting
<1>1. db' = db /\ reading' = reading
  BY DEF Repost
<1>2. PICK k \in Left(i) :
         \/ /\ reposter' = [reposter EXCEPT ![i].pc = "pop", ![i].key = k]
            /\ reposter[i].snapshot[k] \in posted' \cup refused'
         \/ /\ reposter' = [reposter EXCEPT ![i] = [Resting EXCEPT !.pc = "ping"]]
            /\ UNCHANGED <<posted, refused>>
  BY DEF Repost
<1>3. posted \subseteq posted' /\ refused \subseteq refused'
  BY DEF Repost
<1>4. reposter[i] \in ReposterRecords /\ k \in Keys
  BY <1>0 DEF TypeOK, Left
<1>5. CASE reposter' = [reposter EXCEPT ![i] = [Resting EXCEPT !.pc = "ping"]]
           /\ UNCHANGED <<posted, refused>>
  <2> DEFINE q == [Resting EXCEPT !.pc = "ping"]
  <2>1. q.pc # "pop" /\ Filed(q.snapshot)
    BY RestingKept DEF Resting
  <2>2. reposter' = [reposter EXCEPT ![i] = q]
    BY <1>5
  <2> HIDE DEF q
  <2> QED BY <1>0, <1>1, <1>5, <2>1, <2>2, KeptLooping
<1>6. CASE reposter' = [reposter EXCEPT ![i].pc = "pop", ![i].key = k]
           /\ reposter[i].snapshot[k] \in posted' \cup refused'
  <2>1. \A j \in Reposters : reposter'[j].snapshot = reposter[j].snapshot
    BY <1>0, <1>4, <1>6 DEF TypeOK, ReposterRecords
  <2>2. CachedNotLost'
    BY <1>1, <1>3 DEF KeepingInv, CachedNotLost, Settled
  <2>3. PopsSettled'
    <3> SUFFICES ASSUME NEW j \in Reposters, reposter'[j].pc = "pop"
                 PROVE  /\ reposter'[j].key \in Keys
                        /\ reposter'[j].snapshot[reposter'[j].key] \in posted' \cup refused'
      BY DEF PopsSettled
    <3>1. CASE j # i
      <4>1. reposter'[j] = reposter[j]
        BY <1>0, <1>6, <3>1 DEF TypeOK
      <4> QED BY <1>3, <4>1 DEF KeepingInv, PopsSettled
    <3>2. CASE j = i
      <4>1. reposter'[i].key = k
        BY <1>0, <1>4, <1>6 DEF TypeOK, ReposterRecords
      <4> QED BY <1>4, <1>6, <2>1, <3>2, <4>1
    <3> QED BY <3>1, <3>2
  <2> QED BY <1>0, <1>1, <2>1, <2>2, <2>3 DEF KeepingInv, Filed
<1> QED BY <1>2, <1>5, <1>6

LEMMA PopKeeps ==
    ASSUME KeysDiffer, KeepingInv, NEW i \in Reposters, Pop(i)
    PROVE  KeepingInv'
<1>0. TypeOK /\ TypeOK'
  BY RepostingTyped DEF KeepingInv, Reposting
<1>1. reading' = reading /\ posted' = posted /\ refused' = refused
  BY DEF Pop
<1>2. CASE db' = db /\ reposter' = [reposter EXCEPT ![i] = LeftOff]
  BY <1>0, <1>1, <1>2, RestingKept, KeptLooping
<1>3. ASSUME db' # db \/ reposter' # [reposter EXCEPT ![i] = LeftOff]
      PROVE  KeepingInv'
  <2> DEFINE key == reposter[i].key
             q == [reposter[i] EXCEPT !.pc = "next", !.key = Nil, !.snapshot[key] = Nil]
  <2>1. db' = [db EXCEPT ![key] = Nil] /\ reposter' = [reposter EXCEPT ![i] = q]
    BY <1>3 DEF Pop
  <2>2. key \in Keys /\ reposter[i].snapshot[key] \in posted \cup refused
    BY DEF KeepingInv, PopsSettled, Pop
  <2>3. reposter[i] \in ReposterRecords
    BY <1>0 DEF TypeOK
  <2>4. q.pc = "next" /\ q.snapshot = [reposter[i].snapshot EXCEPT ![key] = Nil]
    BY <2>3 DEF ReposterRecords
  <2> HIDE DEF q
  <2>5. \A j \in Reposters : reposter'[j] = IF j = i THEN q ELSE reposter[j]
    BY <1>0, <2>1 DEF TypeOK
  <2>6. \A k \in Keys : db'[k] = IF k = key THEN Nil ELSE db[k]
    BY <1>0, <2>1, <2>2 DEF TypeOK, Snapshots
  <2>7. \A k \in Keys : q.snapshot[k] = IF k = key THEN Nil ELSE reposter[i].snapshot[k]
    BY <2>2, <2>3, <2>4 DEF ReposterRecords, Snapshots
  <2>8. Filed(db') /\ Filed(q.snapshot)
    BY <2>6, <2>7 DEF KeepingInv, Filed
  <2>9. PopsSettled'
    BY <1>1, <2>4, <2>5 DEF KeepingInv, PopsSettled
  <2>10. CachedNotLost'
    <3> SUFFICES ASSUME NEW n \in Readings, reading[n] = "cached"
                 PROVE  db'[KeyOf[n]] = n \/ n \in posted \cup refused
      BY <1>1 DEF CachedNotLost, Settled
    <3>1. KeyOf[n] \in Keys
      BY FailoverAssumption
    <3>2. CASE KeyOf[n] = key
      <4> DEFINE m == reposter[i].snapshot[key]
      <4>1. m \in Readings
        BY <1>0, <2>2 DEF TypeOK
      <4>2. KeyOf[m] = key
        BY <2>2, <4>1, FailoverAssumption DEF KeepingInv, Filed
      <4> QED BY <2>2, <3>2, <4>1, <4>2 DEF KeysDiffer
    <3>3. CASE KeyOf[n] # key
      BY <2>6, <3>1, <3>3 DEF KeepingInv, CachedNotLost, Settled
    <3> QED BY <3>2, <3>3
  <2>11. \A j \in Reposters : Filed(reposter'[j].snapshot)
    BY <2>5, <2>8 DEF KeepingInv
  <2> QED BY <1>0, <2>8, <2>9, <2>10, <2>11 DEF KeepingInv, Filed
<1> QED BY <1>2, <1>3

LEMMA RepostingKeeps ==
    ASSUME KeysDiffer, KeepingInv, NEW i \in Reposters, Reposting(i)
    PROVE  KeepingInv'
<1>0. TypeOK /\ TypeOK' /\ reposter[i] \in ReposterRecords
  BY RepostingTyped DEF KeepingInv, TypeOK
<1>1. CASE BeginIteration(i)
  <2> DEFINE q == [Resting EXCEPT !.pc = "next", !.snapshot = db]
  <2>1. q.pc # "pop" /\ Filed(q.snapshot)
    BY DEF Resting, KeepingInv
  <2>2. reposter' = [reposter EXCEPT ![i] = q]
    BY <1>1 DEF BeginIteration
  <2> HIDE DEF q
  <2> QED BY <1>0, <1>1, <2>1, <2>2, KeptLooping DEF BeginIteration
<1>2. CASE EndIteration(i)
  BY <1>0, <1>2, RestingKept, KeptLooping DEF EndIteration
<1>3. CASE ReposterPings(i)
  <2>1. PICK next \in PingPCs \cup {"idle"} :
           reposter' = [reposter EXCEPT ![i] =
                          IF next = "idle" THEN Resting ELSE [@ EXCEPT !.pc = next]]
    BY <1>3 DEF ReposterPings
  <2> DEFINE q == IF next = "idle" THEN Resting ELSE [reposter[i] EXCEPT !.pc = next]
  <2>2. q.pc # "pop" /\ Filed(q.snapshot)
    BY <1>0, RestingKept DEF ReposterRecords, PingPCs, KeepingInv
  <2>3. reposter' = [reposter EXCEPT ![i] = q]
    BY <2>1
  <2> HIDE DEF q
  <2> QED BY <1>0, <1>3, <2>2, <2>3, KeptLooping DEF ReposterPings
<1> QED BY <1>1, <1>2, <1>3, RepostKeeps, PopKeeps DEF Reposting

LEMMA RestartKeeps ==
    ASSUME KeepingInv, Restart
    PROVE  KeepingInv'
<1>0. TypeOK /\ TypeOK'
  BY RestartTyped DEF KeepingInv
<1>1. PICK i \in Reposters : reposter' = Started(i)
  BY DEF Restart
<1>2. \A j \in Reposters : /\ reposter'[j].pc \in {"idle", "begin"}
                           /\ reposter'[j].snapshot = Empty
  BY <1>1 DEF Started, Resting
<1>3. \A m \in Readings : reading'[m] = "cached" => reading[m] = "cached"
  BY DEF Restart
<1>4. db' = db /\ posted' = posted /\ refused' = refused
  BY DEF Restart
<1>5. PopsSettled'
  BY <1>2 DEF PopsSettled
<1>6. CachedNotLost'
  BY <1>3, <1>4 DEF KeepingInv, CachedNotLost, Settled
<1>7. \A j \in Reposters : Filed(reposter'[j].snapshot)
  BY <1>2 DEF Filed, Empty
<1> QED BY <1>0, <1>4, <1>5, <1>6, <1>7 DEF KeepingInv, Filed

LEMMA KeepingNext == KeysDiffer /\ KeepingInv /\ [Next]_vars => KeepingInv'
<1> SUFFICES ASSUME KeysDiffer, KeepingInv, [Next]_vars PROVE KeepingInv'
  OBVIOUS
<1>0. TypeOK /\ TypeOK'
  BY NextTyped DEF KeepingInv
<1>1. CASE LoseNetwork \/ RegainNetwork
  BY <1>0, <1>1, KeptAside DEF LoseNetwork, RegainNetwork
<1>2. CASE UNCHANGED vars
  BY <1>0, <1>2, KeptAside DEF vars
<1>3. ASSUME NEW x \in Timers, Ticks(x) PROVE KeepingInv'
  BY <1>0, <1>3, KeptAside DEF Ticks
<1>4. ASSUME NEW x \in Timers, NEW i \in Reposters, Pong(x, i) PROVE KeepingInv'
  <2> DEFINE q == [Resting EXCEPT !.pc = "begin"]
  <2>1. q.pc # "pop" /\ Filed(q.snapshot)
    BY RestingKept DEF Resting
  <2>2. reposter' = [reposter EXCEPT ![i] = q]
    BY <1>4 DEF Pong
  <2> HIDE DEF q
  <2> QED BY <1>0, <1>4, <2>1, <2>2, KeptLooping DEF Pong
<1> QED BY <1>1, <1>2, <1>3, <1>4, RestartKeeps, HandlerKeeps, RepostingKeeps DEF Next

\* When no two readings have one key, a reading that was cached stays in the
\* database until the ledger has it or posting it met an error taken for a
\* refusal: through any crashes, outages and concurrent loops, whatever fails.
THEOREM NothingLost ==
    ASSUME KeysDiffer
    PROVE  Spec => []CachedNotLost
<1>1. KeepingInv /\ [Next]_vars => KeepingInv'
  BY KeepingNext
<1>2. KeepingInv => CachedNotLost
  BY DEF KeepingInv
<1> QED BY <1>1, <1>2, KeepingInit, PTL DEF Spec

--------------------------------------------------------------------------------
(* No cached reading is stranded.                                           *)

\* Those that have armed the timer and are about to wait for it.
Watchers ==
    {<<"handler", m>> : m \in {n \in Readings : reading[n] = "watch"}}
    \cup {<<"loop", i>> : i \in {j \in Reposters : reposter[j].pc = "watch"}}

\* A timer that runs, and a tick that nobody took, have one each of those that
\* wait for them (n) or are about to (W).
Awaited(t, n, W) ==
    /\ t.running \/ t.tick => n > 0 \/ W # {}
    /\ t.running /\ t.tick => n > 1 \/ (n > 0 /\ W # {}) \/ \E a, b \in W : a # b

\* A timer that another has replaced need not be waited for.
TicksAwaited == pingTimer # Nil => Awaited(timer[pingTimer], waiters[pingTimer], Watchers)

\* Once someone has found or made the timer there is one.
PingHeld ==
    /\ \A m \in Readings : reading[m] \in {"reset", "watch", "store"} => pingTimer # Nil
    /\ \A i \in Reposters : reposter[i].pc \in {"reset", "watch"} => pingTimer # Nil

\* The ping that a handler has armed is still to come when it writes its reading.
ArmedBeforeStored ==
    \A m \in Readings : reading[m] \in {"watch", "store"} => timer[pingTimer].running

\* A loop that pings has left its iterator.
LeftEmpty ==
    \A i \in Reposters : reposter[i].pc \in PingPCs => reposter[i].snapshot = Empty

\* The inductive invariant.
WatchInv ==
    TypeOK /\ TicksAwaited /\ PingHeld /\ ArmedBeforeStored /\ LeftEmpty /\ NoneStranded

LEMMA WatchersAre ==
    \A a : a \in Watchers <=>
              \/ \E m \in Readings : a = <<"handler", m>> /\ reading[m] = "watch"
              \/ \E i \in Reposters : a = <<"loop", i>> /\ reposter[i].pc = "watch"
BY DEF Watchers

LEMMA WatchersNext ==
    \A a : a \in Watchers' <=>
              \/ \E m \in Readings : a = <<"handler", m>> /\ reading'[m] = "watch"
              \/ \E i \in Reposters : a = <<"loop", i>> /\ reposter'[i].pc = "watch"
BY DEF Watchers

LEMMA JoiningAre == (Joining <=> Watchers # {}) /\ (Joining' <=> Watchers' # {})
<1>1. Joining <=> Watchers # {}
  BY WatchersAre DEF Joining
<1>2. Joining' <=> Watchers' # {}
  BY WatchersNext DEF Joining
<1> QED BY <1>1, <1>2

LEMMA WatchInit == Init => WatchInv
<1> SUFFICES ASSUME Init PROVE WatchInv
  OBVIOUS
<1>1. PICK i \in Reposters : reposter = Started(i)
  BY DEF Init
<1>2. \A j \in Reposters : reposter[j].pc \in {"idle", "begin"}
  BY <1>1 DEF Started, Resting
<1>3. TicksAwaited /\ PingHeld /\ ArmedBeforeStored /\ LeftEmpty
  BY <1>2 DEF Init, TicksAwaited, PingHeld, ArmedBeforeStored, LeftEmpty, PingPCs
<1>4. NoneStranded
  BY DEF Init, NoneStranded, Empty
<1> QED BY <1>3, <1>4, InitTyped DEF WatchInv

\* Somebody watches when the ping timer runs or has ticked, or a loop has its
\* look at the database before it.
LEMMA WatchedNext ==
    ASSUME TypeOK', TicksAwaited',
           \/ /\ pingTimer' # Nil
              /\ timer'[pingTimer'].running \/ timer'[pingTimer'].tick
           \/ \E i \in Reposters : reposter'[i].pc \in {"begin", "ping", "make", "reset"}
    PROVE  NoneStranded'
<1>1. CASE \E i \in Reposters : reposter'[i].pc \in {"begin", "ping", "make", "reset"}
  BY <1>1 DEF NoneStranded, Watched
<1>2. CASE pingTimer' # Nil /\ (timer'[pingTimer'].running \/ timer'[pingTimer'].tick)
  <2>1. pingTimer' \in Timers
    BY <1>2 DEF TypeOK
  <2>2. waiters'[pingTimer'] > 0 \/ Watchers' # {}
    BY <1>2 DEF TicksAwaited, Awaited
  <2>3. waiters'[pingTimer'] > 0 \/ Joining'
    BY <2>2, JoiningAre
  <2> QED BY <1>2, <2>1, <2>3 DEF NoneStranded, Watched
<1> QED BY <1>1, <1>2

\* What a step of pingNetworkConnection does to the timer, to those that wait for
\* it and to those that are about to, a being the one that takes the step.
LEMMA PingWatches ==
    ASSUME TypeOK, TicksAwaited, NEW pc, NEW next, NEW done, PingStep(pc, next, done),
           done # "watch", NEW a, a \in Watchers <=> pc = "watch",
           a \in Watchers' <=> next = "watch",
           \A b : b # a => (b \in Watchers' <=> b \in Watchers),
           pc \in {"reset", "watch"} => pingTimer # Nil
    PROVE  /\ TicksAwaited'
           /\ pingTimer # Nil => pingTimer' # Nil
           /\ next # "make" => pingTimer' # Nil
           /\ pc \in {"make", "reset"} => timer'[pingTimer'].running
           /\ pingTimer # Nil /\ timer[pingTimer].running => timer'[pingTimer'].running
<1>0. Nil \notin Timers
  BY FailoverAssumption
<1>1. CASE pc = "ping"
  <2>1. /\ next = IF pingTimer = Nil THEN "make" ELSE "reset"
        /\ pingTimer' = pingTimer /\ timer' = timer /\ waiters' = waiters
    BY <1>1 DEF PingStep, timerVars
  <2>2. \A b : b \in Watchers' <=> b \in Watchers
    BY <1>1, <2>1
  <2>3. Watchers' = Watchers
    BY <2>2
  <2>4. TicksAwaited'
    BY <2>1, <2>3 DEF TicksAwaited
  <2> QED BY <1>1, <2>1, <2>4
<1>2. CASE pc = "make"
  <2> DEFINE new == [running |-> TRUE, tick |-> FALSE, made |-> TRUE]
  <2>1. PICK x \in Timers :
           /\ next = "watch" /\ pingTimer' = x
           /\ timer' = [timer EXCEPT ![x] = new]
    BY <1>2 DEF PingStep
  <2>2. new.running /\ ~new.tick
    OBVIOUS
  <2> HIDE DEF new
  <2>3. timer'[x] = new
    BY <2>1 DEF TypeOK
  <2>4. Watchers' # {}
    BY <2>1
  <2>5. TicksAwaited'
    BY <2>1, <2>2, <2>3, <2>4 DEF TicksAwaited, Awaited
  <2> QED BY <1>0, <2>1, <2>2, <2>3, <2>5
<1>3. CASE pc = "reset"
  <2>0. pingTimer \in Timers
    BY <1>3 DEF TypeOK
  <2> DEFINE run == [timer[pingTimer] EXCEPT !.running = TRUE]
  <2>1. /\ next = IF timer[pingTimer].running THEN done ELSE "watch"
        /\ timer' = [timer EXCEPT ![pingTimer] = run]
        /\ pingTimer' = pingTimer /\ waiters' = waiters
    BY <1>3 DEF PingStep
  <2>2. run.running /\ run.tick = timer[pingTimer].tick
    BY <2>0 DEF TypeOK, TimerRecords
  <2> HIDE DEF run
  <2>3. timer'[pingTimer] = run
    BY <2>0, <2>1 DEF TypeOK
  <2>4. CASE timer[pingTimer].running
    <3>1. \A b : b \in Watchers' <=> b \in Watchers
      BY <1>3, <2>1, <2>4
    <3>2. Watchers' = Watchers
      BY <3>1
    <3>3. TicksAwaited'
      BY <1>3, <2>1, <2>2, <2>3, <2>4, <3>2 DEF TicksAwaited, Awaited
    <3> QED BY <1>3, <2>1, <2>2, <2>3, <3>3
  <2>5. CASE ~timer[pingTimer].running
    <3>1. /\ a \in Watchers' /\ a \notin Watchers
          /\ \A b \in Watchers : b \in Watchers'
      BY <1>3, <2>1, <2>5
    <3>2. \A b \in Watchers : b # a
      BY <3>1
    <3>3. timer[pingTimer].tick => waiters[pingTimer] > 0 \/ Watchers # {}
      BY <1>3 DEF TicksAwaited, Awaited
    <3>4. timer[pingTimer].tick =>
             (waiters[pingTimer] > 0 /\ Watchers' # {}) \/ \E b, c \in Watchers' : b # c
      BY <3>1, <3>2, <3>3
    <3>5. TicksAwaited'
      BY <2>1, <2>2, <2>3, <3>1, <3>4 DEF TicksAwaited, Awaited
    <3> QED BY <1>3, <2>1, <2>2, <2>3, <3>5
  <2> QED BY <2>4, <2>5
<1>4. CASE pc = "watch"
  <2>0. pingTimer \in Timers
    BY <1>4 DEF TypeOK
  <2>1. /\ next = done /\ waiters' = [waiters EXCEPT ![pingTimer] = @ + 1]
        /\ pingTimer' = pingTimer /\ timer' = timer
    BY <1>4 DEF PingStep
  <2>2. waiters'[pingTimer] = waiters[pingTimer] + 1 /\ waiters[pingTimer] \in Nat
    BY <2>0, <2>1 DEF TypeOK
  <2>3. \A b \in Watchers : b # a => b \in Watchers'
    OBVIOUS
  <2>4. (\E b, c \in Watchers : b # c) => Watchers' # {}
    BY <2>3
  <2>5. timer[pingTimer].running /\ timer[pingTimer].tick =>
           waiters[pingTimer] > 0 \/ Watchers' # {}
    BY <1>4, <2>2, <2>4 DEF TicksAwaited, Awaited
  <2>6. TicksAwaited'
    BY <2>1, <2>2, <2>5 DEF TicksAwaited, Awaited
  <2> QED BY <1>4, <2>1, <2>6
<1> QED BY <1>1, <1>2, <1>3, <1>4 DEF PingStep

\* A step that leaves the timers and the loops as they are and brings no handler
\* into the ping or to the database.
LEMMA WatchKept ==
    ASSUME WatchInv, TypeOK', UNCHANGED timerVars, db' = db, reposter' = reposter,
           \A m \in Readings : \/ reading'[m] = reading[m]
                               \/ /\ reading[m] # "watch"
                                  /\ reading'[m] \notin {"reset", "watch", "store"}
    PROVE  WatchInv'
<1>0. pingTimer' = pingTimer /\ timer' = timer /\ waiters' = waiters
  BY DEF timerVars
<1>1. \A a : a \in Watchers' <=> a \in Watchers
  BY WatchersAre, WatchersNext
<1>2. Watchers' = Watchers
  BY <1>1
<1>3. TicksAwaited'
  BY <1>0, <1>2 DEF WatchInv, TicksAwaited
<1>4. PingHeld' /\ ArmedBeforeStored' /\ LeftEmpty'
  BY <1>0 DEF WatchInv, PingHeld, ArmedBeforeStored, LeftEmpty
<1>5. Joining' <=> Joining
  BY <1>2, JoiningAre
<1>6. Watched => Watched'
  BY <1>0, <1>5 DEF Watched
<1>7. NoneStranded'
  BY <1>6 DEF WatchInv, NoneStranded, GivenUp
<1> QED BY <1>3, <1>4, <1>7 DEF WatchInv

LEMMA HandlerPingsWatched ==
    ASSUME WatchInv, NEW m \in Readings, HandlerPings(m)
    PROVE  WatchInv'
<1>0. TypeOK /\ TypeOK'
  BY HandlerTyped DEF WatchInv, Handler
<1>1. PICK next \in PingPCs \cup {"store"} :
         PingStep(reading[m], next, "store") /\ Step(m, next)
  BY DEF HandlerPings
<1>2. reposter' = reposter /\ db' = db
  BY DEF HandlerPings
<1>3. \A n \in Readings : reading'[n] = IF n = m THEN next ELSE reading[n]
  BY <1>0, <1>1 DEF Step, TypeOK
<1> DEFINE a == <<"handler", m>>
<1>4. /\ a \in Watchers <=> reading[m] = "watch"
      /\ a \in Watchers' <=> next = "watch"
      /\ \A b : b # a => (b \in Watchers' <=> b \in Watchers)
  BY <1>2, <1>3, WatchersAre, WatchersNext
<1>5. reading[m] \in {"reset", "watch"} => pingTimer # Nil
  BY DEF WatchInv, PingHeld
<1> HIDE DEF a
<1>6. /\ TicksAwaited'
      /\ pingTimer # Nil => pingTimer' # Nil
      /\ next # "make" => pingTimer' # Nil
      /\ reading[m] \in {"make", "reset"} => timer'[pingTimer'].running
      /\ pingTimer # Nil /\ timer[pingTimer].running => timer'[pingTimer'].running
  BY <1>0, <1>1, <1>4, <1>5, PingWatches DEF WatchInv
<1>7. reading[m] \in PingPCs
  BY <1>1 DEF PingStep, PingPCs
<1>8. PingHeld'
  BY <1>2, <1>3, <1>6 DEF WatchInv, PingHeld
<1>9. reading[m] # "ping" => pingTimer' # Nil /\ timer'[pingTimer'].running
  <2>1. CASE reading[m] = "watch"
    BY <1>5, <1>6, <2>1 DEF WatchInv, ArmedBeforeStored
  <2>2. CASE reading[m] \in {"make", "reset"}
    <3>1. next # "make"
      BY <1>1, <2>2 DEF PingStep
    <3> QED BY <1>6, <2>2, <3>1
  <2> QED BY <1>7, <2>1, <2>2 DEF PingPCs
<1>10. ArmedBeforeStored'
  <2> SUFFICES ASSUME NEW n \in Readings, reading'[n] \in {"watch", "store"}
               PROVE  timer'[pingTimer'].running
    BY DEF ArmedBeforeStored
  <2>1. CASE n = m
    <3>1. reading[m] # "ping"
      BY <1>1, <1>3, <2>1 DEF PingStep
    <3> QED BY <1>9, <3>1
  <2>2. CASE n # m
    BY <1>3, <1>6, <2>2 DEF WatchInv, ArmedBeforeStored, PingHeld
  <2> QED BY <2>1, <2>2
<1>11. LeftEmpty'
  BY <1>2 DEF WatchInv, LeftEmpty
<1>12. NoneStranded'
  <2>1. CASE reading[m] = "ping"
    <3>1. /\ pingTimer' = pingTimer /\ timer' = timer /\ waiters' = waiters
          /\ next # "watch"
      BY <1>1, <2>1 DEF PingStep, timerVars
    <3>2. Joining' <=> Joining
      BY <1>2, <1>3, <2>1, <3>1 DEF Joining
    <3>3. Watched => Watched'
      BY <1>2, <3>1, <3>2 DEF Watched
    <3> QED BY <1>2, <3>3 DEF WatchInv, NoneStranded, GivenUp
  <2>2. CASE reading[m] # "ping"
    BY <1>0, <1>6, <1>9, <2>2, WatchedNext
  <2> QED BY <2>1, <2>2
<1> QED BY <1>0, <1>6, <1>8, <1>10, <1>11, <1>12 DEF WatchInv

LEMMA HandlerWatched ==
    ASSUME WatchInv, NEW m \in Readings, Handler(m)
    PROVE  WatchInv'
<1>0. TypeOK /\ TypeOK'
  BY HandlerTyped DEF WatchInv
<1>1. \A pc : Step(m, pc) =>
          \A n \in Readings : reading'[n] = IF n = m THEN pc ELSE reading[n]
  BY <1>0 DEF Step, TypeOK
<1>2. CASE PostReadings(m)
  <2>1. PICK pc \in {"gone", "ping"} : Step(m, pc)
    BY <1>2 DEF PostReadings
  <2>2. reading[m] = "new"
    BY <1>2 DEF PostReadings
  <2>3. \A n \in Readings : \/ reading'[n] = reading[n]
                            \/ /\ reading[n] # "watch"
                               /\ reading'[n] \notin {"reset", "watch", "store"}
    BY <1>1, <2>1, <2>2
  <2> QED BY <1>0, <1>2, <2>3, WatchKept DEF PostReadings, timerVars
<1>3. CASE CacheReadings(m)
  <2>1. PICK pc \in {"cached", "gone"} : Step(m, pc)
    BY <1>3 DEF CacheReadings
  <2>2. /\ reading[m] = "store" /\ reposter' = reposter
        /\ pingTimer' = pingTimer /\ timer' = timer /\ waiters' = waiters
    BY <1>3 DEF CacheReadings, timerVars
  <2>3. \A n \in Readings : reading'[n] = IF n = m THEN pc ELSE reading[n]
    BY <1>1, <2>1
  <2>4. \A a : a \in Watchers' <=> a \in Watchers
    BY <2>2, <2>3, WatchersAre, WatchersNext
  <2>5. Watchers' = Watchers
    BY <2>4
  <2>6. TicksAwaited'
    BY <2>2, <2>5 DEF WatchInv, TicksAwaited
  <2>7. PingHeld' /\ ArmedBeforeStored' /\ LeftEmpty'
    BY <2>2, <2>3 DEF WatchInv, PingHeld, ArmedBeforeStored, LeftEmpty
  <2>8. pingTimer' # Nil /\ timer'[pingTimer'].running
    BY <2>2 DEF WatchInv, PingHeld, ArmedBeforeStored
  <2>9. NoneStranded'
    BY <1>0, <2>6, <2>8, WatchedNext
  <2> QED BY <1>0, <2>6, <2>7, <2>9 DEF WatchInv
<1> QED BY <1>2, <1>3, HandlerPingsWatched DEF Handler

LEMMA ReposterPingsWatched ==
    ASSUME WatchInv, NEW i \in Reposters, ReposterPings(i)
    PROVE  WatchInv'
<1>0. TypeOK /\ TypeOK' /\ reposter[i] \in ReposterRecords
  BY RepostingTyped DEF WatchInv, TypeOK, Reposting
<1>1. PICK next \in PingPCs \cup {"idle"} :
         /\ PingStep(reposter[i].pc, next, "idle")
         /\ reposter' = [reposter EXCEPT ![i] =
                            IF next = "idle" THEN Resting ELSE [@ EXCEPT !.pc = next]]
  BY DEF ReposterPings
<1> DEFINE q == IF next = "idle" THEN Resting ELSE [reposter[i] EXCEPT !.pc = next]
<1>2. reading' = reading /\ db' = db
  BY DEF ReposterPings
<1>3. reposter[i].pc \in PingPCs
  BY <1>1 DEF PingStep, PingPCs
<1>4. q.pc = next /\ q.snapshot = Empty
  BY <1>0, <1>3 DEF ReposterRecords, Resting, WatchInv, LeftEmpty
<1>5. \A j \in Reposters : reposter'[j] = IF j = i THEN q ELSE reposter[j]
  BY <1>0, <1>1 DEF TypeOK
<1> HIDE DEF q
<1> DEFINE a == <<"loop", i>>
<1>6. /\ a \in Watchers <=> reposter[i].pc = "watch"
      /\ a \in Watchers' <=> next = "watch"
      /\ \A b : b # a => (b \in Watchers' <=> b \in Watchers)
  BY <1>2, <1>4, <1>5, WatchersAre, WatchersNext
<1>7. reposter[i].pc \in {"reset", "watch"} => pingTimer # Nil
  BY DEF WatchInv, PingHeld
<1> HIDE DEF a
<1>8. /\ TicksAwaited'
      /\ pingTimer # Nil => pingTimer' # Nil
      /\ next # "make" => pingTimer' # Nil
      /\ reposter[i].pc \in {"make", "reset"} => timer'[pingTimer'].running
      /\ pingTimer # Nil /\ timer[pingTimer].running => timer'[pingTimer'].running
  BY <1>0, <1>1, <1>6, <1>7, PingWatches DEF WatchInv
<1>9. PingHeld'
  BY <1>2, <1>4, <1>5, <1>8 DEF WatchInv, PingHeld
<1>10. ArmedBeforeStored'
  BY <1>2, <1>8 DEF WatchInv, ArmedBeforeStored, PingHeld
<1>11. LeftEmpty'
  BY <1>4, <1>5 DEF WatchInv, LeftEmpty
<1>12. NoneStranded'
  <2>1. CASE reposter[i].pc = "ping"
    <3>1. next \in {"make", "reset"}
      BY <1>1, <2>1 DEF PingStep
    <3>2. \E j \in Reposters : reposter'[j].pc \in {"begin", "ping", "make", "reset"}
      BY <1>4, <1>5, <3>1
    <3> QED BY <1>0, <1>8, <3>2, WatchedNext
  <2>2. CASE reposter[i].pc \in {"make", "reset"}
    <3>1. next # "make"
      BY <1>1, <2>2 DEF PingStep
    <3> QED BY <1>0, <1>8, <2>2, <3>1, WatchedNext
  <2>3. CASE reposter[i].pc = "watch"
    <3>1. /\ waiters' = [waiters EXCEPT ![pingTimer] = @ + 1]
          /\ pingTimer' = pingTimer /\ timer' = timer
      BY <1>1, <2>3 DEF PingStep
    <3>2. pingTimer \in Timers
      BY <1>0, <1>7, <2>3 DEF TypeOK
    <3>3. /\ waiters'[pingTimer] > 0
          /\ \A x \in Timers : waiters[x] > 0 => waiters'[x] > 0
      BY <1>0, <3>1, <3>2 DEF TypeOK
    <3>4. Watched => Watched'
      <4>1. CASE \E x \in Timers : /\ timer[x].running \/ timer[x].tick
                                   /\ waiters[x] > 0 \/ (x = pingTimer /\ Joining)
        BY <3>1, <3>3, <4>1 DEF Watched
      <4>2. CASE \E j \in Reposters : reposter[j].pc \in {"begin", "ping", "make", "reset"}
        BY <1>5, <2>3, <4>2 DEF Watched
      <4> QED BY <4>1, <4>2 DEF Watched
    <3>5. \A k \in Keys : reposter[i].snapshot[k] = Nil
      BY <1>3 DEF WatchInv, LeftEmpty, Empty
    <3>6. GivenUp => GivenUp'
      BY <1>5, <2>3 DEF GivenUp
    <3> QED BY <1>2, <1>5, <3>4, <3>5, <3>6 DEF WatchInv, NoneStranded
  <2> QED BY <1>3, <2>1, <2>2, <2>3 DEF PingPCs
<1> QED BY <1>0, <1>8, <1>9, <1>10, <1>11, <1>12 DEF WatchInv

\* A step of one loop outside the ping changes nothing but that loop for those
\* that watch.
LEMMA LoopKept ==
    ASSUME WatchInv, UNCHANGED timerVars, reading' = reading,
           NEW i \in Reposters, reposter[i].pc \notin PingPCs,
           NEW q, reposter' = [reposter EXCEPT ![i] = q],
           q.pc \notin PingPCs \/ (q.pc = "ping" /\ q.snapshot = Empty)
    PROVE  /\ TicksAwaited' /\ PingHeld' /\ ArmedBeforeStored' /\ LeftEmpty'
           /\ reposter[i].pc # "begin" => (Watched => Watched')
<1>0. pingTimer' = pingTimer /\ timer' = timer /\ waiters' = waiters
  BY DEF timerVars
<1>1. \A j \in Reposters : reposter'[j] = IF j = i THEN q ELSE reposter[j]
  BY DEF WatchInv, TypeOK
<1>2. \A a : a \in Watchers' <=> a \in Watchers
  BY <1>1, WatchersAre, WatchersNext DEF PingPCs
<1>3. Watchers' = Watchers
  BY <1>2
<1>4. TicksAwaited'
  BY <1>0, <1>3 DEF WatchInv, TicksAwaited
<1>5. PingHeld' /\ ArmedBeforeStored' /\ LeftEmpty'
  BY <1>0, <1>1 DEF WatchInv, PingHeld, ArmedBeforeStored, LeftEmpty, PingPCs
<1>6. Joining' <=> Joining
  BY <1>3, JoiningAre
<1>7. ASSUME reposter[i].pc # "begin", Watched PROVE Watched'
  BY <1>0, <1>1, <1>6, <1>7 DEF Watched, PingPCs
<1> QED BY <1>4, <1>5, <1>7

LEMMA RepostingWatched ==
    ASSUME WatchInv, NEW i \in Reposters, Reposting(i)
    PROVE  WatchInv'
<1>0. TypeOK /\ TypeOK' /\ reposter[i] \in ReposterRecords
  BY RepostingTyped DEF WatchInv, TypeOK
<1>1. \A q : reposter' = [reposter EXCEPT ![i] = q] =>
          \A j \in Reposters : reposter'[j] = IF j = i THEN q ELSE reposter[j]
  BY <1>0 DEF TypeOK
<1>2. CASE BeginIteration(i)
  <2> DEFINE q == [Resting EXCEPT !.pc = "next", !.snapshot = db]
  <2>1. /\ reposter' = [reposter EXCEPT ![i] = q] /\ db' = db /\ reading' = reading
        /\ UNCHANGED timerVars /\ reposter[i].pc = "begin"
    BY <1>2 DEF BeginIteration
  <2>2. q.snapshot = db /\ q.pc = "next"
    BY DEF Resting
  <2> HIDE DEF q
  <2>3. q.pc \notin PingPCs /\ reposter[i].pc \notin PingPCs
    BY <2>1, <2>2 DEF PingPCs
  <2>4. TicksAwaited' /\ PingHeld' /\ ArmedBeforeStored' /\ LeftEmpty'
    BY <2>1, <2>3, LoopKept
  <2>5. NoneStranded'
    BY <1>1, <2>1, <2>2 DEF NoneStranded
  <2> QED BY <1>0, <2>4, <2>5 DEF WatchInv
<1>3. CASE EndIteration(i)
  <2>1. /\ reposter' = [reposter EXCEPT ![i] = Resting] /\ db' = db /\ reading' = reading
        /\ UNCHANGED timerVars /\ reposter[i].pc = "next"
    BY <1>3 DEF EndIteration
  <2>2. Resting.pc \notin PingPCs /\ reposter[i].pc \notin PingPCs
    BY <2>1 DEF Resting, PingPCs
  <2>3. /\ TicksAwaited' /\ PingHeld' /\ ArmedBeforeStored' /\ LeftEmpty'
        /\ Watched => Watched'
    BY <2>1, <2>2, LoopKept
  <2>4. \A k \in Keys : reposter[i].snapshot[k] = Nil
    BY <1>3 DEF EndIteration, Left
  <2>5. NoneStranded'
    BY <1>1, <2>1, <2>3, <2>4 DEF WatchInv, NoneStranded, GivenUp
  <2> QED BY <1>0, <2>3, <2>5 DEF WatchInv
<1>4. CASE Repost(i)
  <2>1. /\ db' = db /\ reading' = reading /\ UNCHANGED timerVars /\ reposter[i].pc = "next"
    BY <1>4 DEF Repost
  <2>2. CASE reposter' = [reposter EXCEPT ![i] = [Resting EXCEPT !.pc = "ping"]]
    <3> DEFINE q == [Resting EXCEPT !.pc = "ping"]
    <3>1. q.pc = "ping" /\ q.snapshot = Empty
      BY DEF Resting
    <3>2. reposter' = [reposter EXCEPT ![i] = q]
      BY <2>2
    <3> HIDE DEF q
    <3>3. TicksAwaited' /\ PingHeld' /\ ArmedBeforeStored' /\ LeftEmpty'
      BY <2>1, <3>1, <3>2, LoopKept DEF PingPCs
    <3>4. reposter'[i].pc = "ping"
      BY <1>1, <3>1, <3>2
    <3>5. NoneStranded'
      BY <1>0, <3>3, <3>4, WatchedNext
    <3> QED BY <1>0, <3>3, <3>5 DEF WatchInv
  <2>3. ASSUME NEW k \in Left(i),
               reposter' = [reposter EXCEPT ![i].pc = "pop", ![i].key = k]
        PROVE  WatchInv'
    <3> DEFINE q == [reposter[i] EXCEPT !.pc = "pop", !.key = k]
    <3>1. reposter' = [reposter EXCEPT ![i] = q]
      BY <2>3
    <3>2. q.pc = "pop" /\ q.snapshot = reposter[i].snapshot
      BY <1>0 DEF ReposterRecords
    <3> HIDE DEF q
    <3>3. q.pc \notin PingPCs /\ reposter[i].pc \notin PingPCs
      BY <2>1, <3>2 DEF PingPCs
    <3>4. /\ TicksAwaited' /\ PingHeld' /\ ArmedBeforeStored' /\ LeftEmpty'
          /\ Watched => Watched'
      BY <2>1, <3>1, <3>3, LoopKept
    <3>5. NoneStranded'
      BY <1>1, <2>1, <3>1, <3>2, <3>4 DEF WatchInv, NoneStranded, GivenUp
    <3> QED BY <1>0, <3>4, <3>5 DEF WatchInv
  <2> QED BY <1>4, <2>2, <2>3 DEF Repost
<1>5. CASE Pop(i)
  <2>1. reposter[i].pc = "pop" /\ reading' = reading /\ UNCHANGED timerVars
    BY <1>5 DEF Pop
  <2>2. reposter[i].pc \notin PingPCs /\ LeftOff.pc \notin PingPCs
    BY <2>1 DEF PingPCs, LeftOff
  <2>3. CASE reposter' = [reposter EXCEPT ![i] = LeftOff]
    <3>1. TicksAwaited' /\ PingHeld' /\ ArmedBeforeStored' /\ LeftEmpty'
      BY <2>1, <2>2, <2>3, LoopKept
    <3>2. GivenUp'
      BY <1>1, <2>3 DEF GivenUp, LeftOff
    <3>3. NoneStranded'
      BY <3>2 DEF NoneStranded
    <3> QED BY <1>0, <3>1, <3>3 DEF WatchInv
  <2>4. ASSUME reposter' # [reposter EXCEPT ![i] = LeftOff] PROVE WatchInv'
    <3> DEFINE key == reposter[i].key
               q == [reposter[i] EXCEPT !.pc = "next", !.key = Nil, !.snapshot[key] = Nil]
    <3>1. db' = [db EXCEPT ![key] = Nil] /\ reposter' = [reposter EXCEPT ![i] = q]
      BY <1>5, <2>4 DEF Pop
    <3>2. q.snapshot = [reposter[i].snapshot EXCEPT ![key] = Nil] /\ q.pc = "next"
      BY <1>0 DEF ReposterRecords
    <3> HIDE DEF q
    <3>3. q.pc \notin PingPCs
      BY <3>2 DEF PingPCs
    <3>4. /\ TicksAwaited' /\ PingHeld' /\ ArmedBeforeStored' /\ LeftEmpty'
          /\ Watched => Watched'
      BY <2>1, <2>2, <3>1, <3>3, LoopKept
    <3>5. \A k \in Keys : db'[k] = IF k = key THEN Nil ELSE db[k]
      BY <1>0, <3>1 DEF TypeOK, Snapshots
    <3>6. \A k \in Keys : k # key => q.snapshot[k] = reposter[i].snapshot[k]
      BY <1>0, <3>2 DEF ReposterRecords, Snapshots
    <3>7. NoneStranded'
      BY <1>1, <2>1, <3>1, <3>4, <3>5, <3>6 DEF WatchInv, NoneStranded, GivenUp
    <3> QED BY <1>0, <3>4, <3>7 DEF WatchInv
  <2> QED BY <2>3, <2>4
<1> QED BY <1>2, <1>3, <1>4, <1>5, ReposterPingsWatched DEF Reposting

LEMMA TicksWatched ==
    ASSUME WatchInv, NEW x \in Timers, Ticks(x)
    PROVE  WatchInv'
<1>0. TypeOK /\ TypeOK'
  BY TicksTyped DEF WatchInv
<1> DEFINE q == [timer[x] EXCEPT !.running = FALSE, !.tick = TRUE]
<1>1. ~q.running /\ q.tick
  BY <1>0 DEF TypeOK, TimerRecords
<1>2. timer' = [timer EXCEPT ![x] = q]
  BY DEF Ticks
<1> HIDE DEF q
<1>3. \A y \in Timers : timer'[y] = IF y = x THEN q ELSE timer[y]
  BY <1>0, <1>2 DEF TypeOK
<1>4. /\ timer[x].running /\ waiters' = waiters /\ reading' = reading
      /\ pingTimer' = pingTimer /\ reposter' = reposter /\ db' = db
      /\ x = pingTimer => \A m \in Readings : reading[m] \notin {"watch", "store"}
  BY DEF Ticks
<1>5. \A a : a \in Watchers' <=> a \in Watchers
  BY <1>4, WatchersAre, WatchersNext
<1>6. Watchers' = Watchers
  BY <1>5
<1>7. pingTimer # Nil => pingTimer \in Timers
  BY <1>0 DEF TypeOK
<1>8. TicksAwaited'
  BY <1>1, <1>3, <1>4, <1>6, <1>7 DEF WatchInv, TicksAwaited, Awaited
<1>9. PingHeld' /\ LeftEmpty'
  BY <1>4 DEF WatchInv, PingHeld, LeftEmpty
<1>10. ArmedBeforeStored'
  BY <1>3, <1>4, <1>7 DEF WatchInv, PingHeld, ArmedBeforeStored
<1>11. Joining' <=> Joining
  BY <1>6, JoiningAre
<1>12. Watched => Watched'
  BY <1>1, <1>3, <1>4, <1>11 DEF Watched
<1>13. NoneStranded'
  BY <1>4, <1>12 DEF WatchInv, NoneStranded, GivenUp
<1> QED BY <1>0, <1>8, <1>9, <1>10, <1>13 DEF WatchInv

LEMMA PongWatched ==
    ASSUME WatchInv, NEW x \in Timers, NEW i \in Reposters, Pong(x, i)
    PROVE  WatchInv'
<1>0. TypeOK /\ TypeOK'
  BY PongTyped DEF WatchInv
<1> DEFINE taken == [timer[x] EXCEPT !.tick = FALSE]
           begun == [Resting EXCEPT !.pc = "begin"]
<1>1. ~taken.tick /\ taken.running = timer[x].running /\ begun.pc = "begin"
  BY <1>0 DEF TypeOK, TimerRecords, Resting
<1>2. /\ timer[x].tick /\ waiters[x] > 0 /\ reposter[i].pc \in {"idle", "left"}
      /\ timer' = [timer EXCEPT ![x] = taken]
      /\ waiters' = [waiters EXCEPT ![x] = @ - 1]
      /\ reposter' = [reposter EXCEPT ![i] = begun]
      /\ reading' = reading /\ pingTimer' = pingTimer
  BY DEF Pong
<1> HIDE DEF taken, begun
<1>3. /\ \A y \in Timers : timer'[y] = IF y = x THEN taken ELSE timer[y]
      /\ \A y \in Timers : waiters'[y] = IF y = x THEN waiters[x] - 1 ELSE waiters[y]
      /\ \A j \in Reposters : reposter'[j] = IF j = i THEN begun ELSE reposter[j]
  BY <1>0, <1>2 DEF TypeOK
<1>4. waiters[x] \in Nat
  BY <1>0 DEF TypeOK
<1>5. \A a : a \in Watchers' <=> a \in Watchers
  BY <1>1, <1>2, <1>3, WatchersAre, WatchersNext
<1>6. Watchers' = Watchers
  BY <1>5
<1>7. pingTimer # Nil => pingTimer \in Timers
  BY <1>0 DEF TypeOK
<1>8. TicksAwaited'
  <2>1. CASE x = pingTimer
    <3>1. (\E a, b \in Watchers : a # b) => Watchers # {}
      OBVIOUS
    <3>2. timer[x].running => waiters[x] > 1 \/ Watchers # {}
      BY <1>2, <1>7, <2>1, <3>1, FailoverAssumption DEF WatchInv, TicksAwaited, Awaited
    <3> QED BY <1>1, <1>2, <1>3, <1>4, <1>6, <2>1, <3>2 DEF TicksAwaited, Awaited
  <2>2. CASE x # pingTimer
    BY <1>2, <1>3, <1>6, <1>7, <2>2 DEF WatchInv, TicksAwaited
  <2> QED BY <2>1, <2>2
<1>9. PingHeld' /\ LeftEmpty'
  BY <1>1, <1>2, <1>3 DEF WatchInv, PingHeld, LeftEmpty, PingPCs
<1>10. ArmedBeforeStored'
  BY <1>1, <1>2, <1>3, <1>7 DEF WatchInv, PingHeld, ArmedBeforeStored
<1>11. NoneStranded'
  BY <1>0, <1>1, <1>3, <1>8, WatchedNext
<1> QED BY <1>0, <1>8, <1>9, <1>10, <1>11 DEF WatchInv

LEMMA RestartWatched ==
    ASSUME TypeOK, Restart
    PROVE  WatchInv'
<1>0. TypeOK'
  BY RestartTyped
<1>1. PICK i \in Reposters : reposter' = Started(i)
  BY DEF Restart
<1>2. /\ \A j \in Reposters : reposter'[j].pc \in {"idle", "begin"}
      /\ reposter'[i].pc = "begin"
  BY <1>1 DEF Started, Resting
<1>3. \A m \in Readings : reading'[m] \notin PingPCs \cup {"store"}
  <2>1. "gone" \notin PingPCs \cup {"store"}
    BY DEF PingPCs
  <2> QED BY <2>1 DEF Restart
<1>4. pingTimer' = Nil
  BY DEF Restart
<1>5. PingHeld' /\ ArmedBeforeStored' /\ LeftEmpty'
  BY <1>2, <1>3 DEF PingHeld, ArmedBeforeStored, LeftEmpty, PingPCs
<1>6. TicksAwaited'
  BY <1>4 DEF TicksAwaited
<1>7. NoneStranded'
  BY <1>0, <1>2, <1>6, WatchedNext
<1> QED BY <1>0, <1>5, <1>6, <1>7 DEF WatchInv

LEMMA WatchNext == WatchInv /\ [Next]_vars => WatchInv'
<1> SUFFICES ASSUME WatchInv, [Next]_vars PROVE WatchInv'
  OBVIOUS
<1>0. TypeOK /\ TypeOK'
  BY NextTyped DEF WatchInv
<1>1. CASE LoseNetwork \/ RegainNetwork
  BY <1>0, <1>1, WatchKept DEF LoseNetwork, RegainNetwork
<1>2. CASE UNCHANGED vars
  BY <1>0, <1>2, WatchKept DEF vars
<1> QED BY <1>0, <1>1, <1>2, HandlerWatched, TicksWatched, PongWatched, RestartWatched,
           RepostingWatched DEF Next

\* While a reading is in the database the device is going to look there again:
\* no tick of the ping timer is lost between those that arm or replace it, those
\* that wait for it and the loops, through any outages, crashes and failures,
\* except for what a loop leaves that could not delete a record.
THEOREM NobodyStranded == Spec => []NoneStranded
<1>1. WatchInv => NoneStranded
  BY DEF WatchInv
<1> QED BY <1>1, WatchInit, WatchNext, PTL DEF Spec

================================================================================
