-------------------------------- MODULE Failover --------------------------------
(***************************************************************************)
(* Readings that cannot be posted for want of a network are kept in        *)
(* LevelDB and posted later: EngineOperator.postReadings, FailoverHandler  *)
(* and storage/failover_cache.go.  Several failure handlers, waiters of    *)
(* the ping timer and reposting loops run at once; the device may stop at  *)
(* any moment and start again with nothing but the database.               *)
(***************************************************************************)
EXTENDS Naturals, FiniteSets

CONSTANTS
    Readings, Keys, Nil,
    KeyOf,           \* the key a reading is cached under: its asset and second
    Timers,          \* bound on the timers made between two starts
    Reposters,       \* bound on the reposting loops running at once
    Disturbances,    \* which of the failures below happen
    MaxOutages,      \* bound on the losses of the network
    MaxCrashes       \* bound on the restarts of the device

Failures == {"refusal", "storeFailure", "deleteFailure"}

ASSUME FailoverAssumption ==
    /\ KeyOf \in [Readings -> Keys]
    /\ Nil \notin Readings \cup Keys \cup Timers
    /\ Disturbances \subseteq Failures
    /\ MaxOutages \in Nat
    /\ MaxCrashes \in Nat

VARIABLES
    up,         \* the ledger can be reached
    outages, crashes,
    db,         \* the "reading" keys of LevelDB; Nil: absent
    posted,     \* readings the ledger has
    refused,    \* readings whose posting met an error taken for the ledger's own
    reading,    \* how far postReadings and the handler of its failure are
    pingTimer,  \* FailoverHandler.pingTimer
    timer,      \* the runtime's timers: running, and with a tick in the channel
    waiters,    \* goroutines of ping() on a timer's channel
    reposter    \* goroutines of tryRepostCachedReadings

networkVars == <<up, outages, crashes>>
timerVars   == <<pingTimer, timer, waiters>>
vars == <<networkVars, db, posted, refused, reading, timerVars, reposter>>

\* Both a failure handler and a reposting loop go through pingNetworkConnection.
PingPCs     == {"ping", "make", "reset", "watch"}
HandlerPCs  == PingPCs \cup {"new", "store", "cached", "gone"}
ReposterPCs == PingPCs \cup {"idle", "left", "begin", "next", "pop"}

Empty   == [k \in Keys |-> Nil]
Stopped == [running |-> FALSE, tick |-> FALSE, made |-> FALSE]
Resting == [pc |-> "idle", snapshot |-> Empty, key |-> Nil]

\* A loop that has left records behind, until another takes its place.
LeftOff == [pc |-> "left", snapshot |-> Empty, key |-> Nil]

Snapshots       == [Keys -> Readings \cup {Nil}]
TimerRecords    == [running : BOOLEAN, tick : BOOLEAN, made : BOOLEAN]
ReposterRecords == [pc : ReposterPCs, snapshot : Snapshots, key : Keys \cup {Nil}]

TypeOK ==
    /\ up \in BOOLEAN
    /\ outages \in 0..MaxOutages
    /\ crashes \in 0..MaxCrashes
    /\ db \in Snapshots
    /\ posted \subseteq Readings
    /\ refused \subseteq Readings
    /\ reading \in [Readings -> HandlerPCs]
    /\ pingTimer \in Timers \cup {Nil}
    /\ timer \in [Timers -> TimerRecords]
    /\ waiters \in [Timers -> Nat]
    /\ reposter \in [Reposters -> ReposterRecords]

\* The device has just started: Start subscribes to MetricReadingsPostFailed,
\* then tries the readings an earlier run has left behind.
Started(i) == [j \in Reposters |-> IF j = i THEN [Resting EXCEPT !.pc = "begin"] ELSE Resting]

Init ==
    /\ up \in BOOLEAN
    /\ outages = 0
    /\ crashes = 0
    /\ db = Empty
    /\ posted = {}
    /\ refused = {}
    /\ reading = [m \in Readings |-> "new"]
    /\ pingTimer = Nil
    /\ timer = [x \in Timers |-> Stopped]
    /\ waiters = [x \in Timers |-> 0]
    /\ \E i \in Reposters : reposter = Started(i)

--------------------------------------------------------------------------------
(* The network and the device.                                              *)

LoseNetwork ==
    /\ up
    /\ outages < MaxOutages
    /\ up' = FALSE
    /\ outages' = outages + 1
    /\ UNCHANGED <<crashes, db, posted, refused, reading, timerVars, reposter>>

RegainNetwork ==
    /\ ~up
    /\ up' = TRUE
    /\ UNCHANGED <<outages, crashes, db, posted, refused, reading, timerVars, reposter>>

\* Everything but the database is lost, and the device starts again.
Restart ==
    /\ crashes < MaxCrashes
    /\ crashes' = crashes + 1
    /\ reading' = [m \in Readings |->
                      IF reading[m] \in PingPCs \cup {"store"} THEN "gone" ELSE reading[m]]
    /\ pingTimer' = Nil
    /\ timer' = [x \in Timers |-> Stopped]
    /\ waiters' = [x \in Timers |-> 0]
    /\ \E i \in Reposters : reposter' = Started(i)
    /\ UNCHANGED <<up, outages, db, posted, refused>>

--------------------------------------------------------------------------------
(* pingNetworkConnection: every line reads m.pingTimer anew.                *)

\* Timers are made one after another, and it does not matter by which name.
NewTimer == CHOOSE x \in Timers : ~timer[x].made

\* (mutant: what Reset returns is ignored)
PingUnheard(pc, next, done) ==
    \/ /\ pc = "ping"
       /\ next = IF pingTimer = Nil THEN "make" ELSE "reset"
       /\ UNCHANGED timerVars
    \/ /\ pc = "make"
       /\ next = "watch"
       /\ \E x \in Timers :
             /\ ~timer[x].made /\ x = NewTimer
             /\ pingTimer' = x
             /\ timer' = [timer EXCEPT ![x] = [running |-> TRUE, tick |-> FALSE, made |-> TRUE]]
       /\ UNCHANGED waiters
    \/ /\ pc = "reset"
       /\ next = done
       /\ timer' = [timer EXCEPT ![pingTimer].running = TRUE]
       /\ UNCHANGED <<pingTimer, waiters>>
    \/ /\ pc = "watch"
       /\ next = done
       /\ waiters' = [waiters EXCEPT ![pingTimer] = @ + 1]
       /\ UNCHANGED <<pingTimer, timer>>

\* The look for nil; the new timer; Reset, which tells whether the timer was
\* running; the goroutine that waits on whatever timer is in pingTimer by then.
PingStep(pc, next, done) ==
    \/ /\ pc = "ping"
       /\ next = IF pingTimer = Nil THEN "make" ELSE "reset"
       /\ UNCHANGED timerVars
    \/ /\ pc = "make"
       /\ next = "watch"
       /\ \E x \in Timers :
             /\ ~timer[x].made /\ x = NewTimer
             /\ pingTimer' = x
             /\ timer' = [timer EXCEPT ![x] = [running |-> TRUE, tick |-> FALSE, made |-> TRUE]]
       /\ UNCHANGED waiters
    \/ /\ pc = "reset"
       /\ next = IF timer[pingTimer].running THEN done ELSE "watch"
       /\ timer' = [timer EXCEPT ![pingTimer].running = TRUE]
       /\ UNCHANGED <<pingTimer, waiters>>
    \/ /\ pc = "watch"
       /\ next = done
       /\ waiters' = [waiters EXCEPT ![pingTimer] = @ + 1]
       /\ UNCHANGED <<pingTimer, timer>>

--------------------------------------------------------------------------------
(* postReadings, and the handler of MetricReadingsPostFailed.               *)

Step(m, pc) == reading' = [reading EXCEPT ![m] = pc]

\* Only DiscoveryServerStatus counts as a network that is absent; whatever else
\* Post returns, a time-out on the way included, is logged and forgotten.
PostReadings(m) ==
    /\ reading[m] = "new"
    /\ \/ /\ up
          /\ posted' = posted \cup {m}
          /\ Step(m, "gone")
          /\ UNCHANGED refused
       \/ /\ "refusal" \in Disturbances
          /\ refused' = refused \cup {m}
          /\ Step(m, "gone")
          /\ UNCHANGED posted
       \/ /\ ~up
          /\ Step(m, "ping")
          /\ UNCHANGED <<posted, refused>>
    /\ UNCHANGED <<networkVars, db, timerVars, reposter>>

\* handleFailedToPostReadings: the ping first, ...
HandlerPings(m) ==
    /\ \E next \in PingPCs \cup {"store"} :
          PingStep(reading[m], next, "store") /\ Step(m, next)
    /\ UNCHANGED <<networkVars, db, posted, refused, reposter>>

\* (mutant: Put takes its key for its value)
CacheKeys(m) ==
    /\ reading[m] = "store"
    /\ db' = [db EXCEPT ![KeyOf[m]] = KeyOf[m]]
    /\ Step(m, "cached")
    /\ UNCHANGED <<networkVars, posted, refused, timerVars, reposter>>

\* ... then CacheReadings.
CacheReadings(m) ==
    /\ reading[m] = "store"
    /\ \/ /\ db' = [db EXCEPT ![KeyOf[m]] = m]
          /\ Step(m, "cached")
       \/ /\ "storeFailure" \in Disturbances
          /\ Step(m, "gone")
          /\ UNCHANGED db
    /\ UNCHANGED <<networkVars, posted, refused, timerVars, reposter>>

--------------------------------------------------------------------------------
(* The ping timer.                                                          *)

\* The ping interval (a minute) outlasts a handler's steps from arming the timer
\* to writing the reading.
Ticks(x) ==
    /\ timer[x].running
    /\ x = pingTimer => \A m \in Readings : reading[m] \notin {"watch", "store"}
    /\ timer' = [timer EXCEPT ![x].running = FALSE, ![x].tick = TRUE]
    /\ UNCHANGED <<networkVars, db, posted, refused, reading, pingTimer, waiters, reposter>>

\* (mutant: what a waiter calls is the ping)
PongPings(x, i) ==
    /\ timer[x].tick
    /\ waiters[x] > 0
    /\ reposter[i].pc \in {"idle", "left"}
    /\ timer' = [timer EXCEPT ![x].tick = FALSE]
    /\ waiters' = [waiters EXCEPT ![x] = @ - 1]
    /\ reposter' = [reposter EXCEPT ![i] = [Resting EXCEPT !.pc = "ping"]]
    /\ UNCHANGED <<networkVars, db, posted, refused, reading, pingTimer>>

\* ping: a waiter takes the tick and tries to repost.
Pong(x, i) ==
    /\ timer[x].tick
    /\ waiters[x] > 0
    /\ reposter[i].pc \in {"idle", "left"}
    /\ timer' = [timer EXCEPT ![x].tick = FALSE]
    /\ waiters' = [waiters EXCEPT ![x] = @ - 1]
    /\ reposter' = [reposter EXCEPT ![i] = [Resting EXCEPT !.pc = "begin"]]
    /\ UNCHANGED <<networkVars, db, posted, refused, reading, pingTimer>>

--------------------------------------------------------------------------------
(* tryRepostCachedReadings and IterateOverCachedReadings.                   *)

Left(i) == {k \in Keys : reposter[i].snapshot[k] # Nil}

\* NewIterator: the loop sees the database as it is now.
BeginIteration(i) ==
    /\ reposter[i].pc = "begin"
    /\ reposter' = [reposter EXCEPT ![i] = [Resting EXCEPT !.pc = "next", !.snapshot = db]]
    /\ UNCHANGED <<networkVars, db, posted, refused, reading, timerVars>>

EndIteration(i) ==
    /\ reposter[i].pc = "next"
    /\ Left(i) = {}
    /\ reposter' = [reposter EXCEPT ![i] = Resting]
    /\ UNCHANGED <<networkVars, db, posted, refused, reading, timerVars>>

\* (mutant: without a network the iteration is not left)
RepostOn(i) ==
    /\ reposter[i].pc = "next"
    /\ \E k \in Left(i) :
          /\ posted' = IF up THEN posted \cup {reposter[i].snapshot[k]} ELSE posted
          /\ reposter' = [reposter EXCEPT ![i].pc = "pop", ![i].key = k]
    /\ UNCHANGED <<networkVars, db, refused, reading, timerVars>>

\* The next record is posted.  An error that is not an absent network is logged,
\* and the record is popped like one that was posted.
Repost(i) ==
    /\ reposter[i].pc = "next"
    /\ \E k \in Left(i) :
          \/ /\ up
             /\ posted' = posted \cup {reposter[i].snapshot[k]}
             /\ reposter' = [reposter EXCEPT ![i].pc = "pop", ![i].key = k]
             /\ UNCHANGED refused
          \/ /\ "refusal" \in Disturbances
             /\ refused' = refused \cup {reposter[i].snapshot[k]}
             /\ reposter' = [reposter EXCEPT ![i].pc = "pop", ![i].key = k]
             /\ UNCHANGED posted
          \/ /\ ~up
             /\ reposter' = [reposter EXCEPT ![i] = [Resting EXCEPT !.pc = "ping"]]
             /\ UNCHANGED <<posted, refused>>
    /\ UNCHANGED <<networkVars, db, reading, timerVars>>

\* The record's key is deleted, whatever is under it by now.  An error ends the
\* loop, and nothing is to ping again.
Pop(i) ==
    /\ reposter[i].pc = "pop"
    /\ \/ /\ db' = [db EXCEPT ![reposter[i].key] = Nil]
          /\ reposter' = [reposter EXCEPT ![i] = [@ EXCEPT !.pc = "next", !.key = Nil,
                                                  !.snapshot[reposter[i].key] = Nil]]
       \/ /\ "deleteFailure" \in Disturbances
          /\ reposter' = [reposter EXCEPT ![i] = LeftOff]
          /\ UNCHANGED db
    /\ UNCHANGED <<networkVars, posted, refused, reading, timerVars>>

\* The network is still down: the ping, and the loop is left.
ReposterPings(i) ==
    /\ \E next \in PingPCs \cup {"idle"} :
          /\ PingStep(reposter[i].pc, next, "idle")
          /\ reposter' = [reposter EXCEPT ![i] =
                             IF next = "idle" THEN Resting ELSE [@ EXCEPT !.pc = next]]
    /\ UNCHANGED <<networkVars, db, posted, refused, reading>>

--------------------------------------------------------------------------------

Handler(m) == PostReadings(m) \/ HandlerPings(m) \/ CacheReadings(m)

Reposting(i) ==
    BeginIteration(i) \/ EndIteration(i) \/ Repost(i) \/ Pop(i) \/ ReposterPings(i)

Next ==
    \/ LoseNetwork \/ RegainNetwork \/ Restart
    \/ \E m \in Readings : Handler(m)
    \/ \E x \in Timers : Ticks(x) \/ \E i \in Reposters : Pong(x, i)
    \/ \E i \in Reposters : Reposting(i)

Spec == Init /\ [][Next]_vars

\* Go runs what can run and the runtime fires what is due; the network comes
\* back in the end (its losses are bounded).
FairSpec ==
    /\ Spec
    /\ WF_vars(RegainNetwork)
    /\ \A m \in Readings : WF_vars(HandlerPings(m) \/ CacheReadings(m))
    /\ \A x \in Timers : WF_vars(Ticks(x)) /\ WF_vars(\E i \in Reposters : Pong(x, i))
    /\ \A i \in Reposters : WF_vars(Reposting(i))

--------------------------------------------------------------------------------
(* Properties.                                                              *)

Settled(m) == m \in posted \cup refused

\* "cached readings for %s to post later" (failover_handler.go:71): a reading
\* that was cached stays in the database until the ledger has it or posting it met
\* an error taken for a refusal, through restarts and concurrent reposting loops.
CachedNotLost ==
    \A m \in Readings : reading[m] = "cached" => db[KeyOf[m]] = m \/ Settled(m)

\* Someone has armed the timer and is about to wait for it.
Joining ==
    \/ \E m \in Readings : reading[m] = "watch"
    \/ \E i \in Reposters : reposter[i].pc = "watch"

\* Some goroutine will look at the database: a ping is due and someone waits for
\* it or is about to, or a loop is yet to open its iterator or to arm the ping.
Watched ==
    \/ \E x \in Timers :
          /\ timer[x].running \/ timer[x].tick
          /\ waiters[x] > 0 \/ (x = pingTimer /\ Joining)
    \/ \E i \in Reposters : reposter[i].pc \in {"begin", "ping", "make", "reset"}

\* A loop has failed to delete a record and has left the others.
GivenUp == \E i \in Reposters : reposter[i].pc = "left"

\* No reading is stranded but by a failing delete: while one is in the database
\* the device is going to look there again, or a loop has it before it.  A lost
\* wake-up of the timer would leave it there until the next failure or restart.
NoneStranded ==
    \A k \in Keys :
        db[k] # Nil =>
            Watched \/ GivenUp \/ \E i \in Reposters : reposter[i].snapshot[k] = db[k]

\* What was cached is posted, or met an error taken for a refusal, when the network
\* stays, unless a loop has given up before its end.
PostedLater == \A m \in Readings : (reading[m] = "cached") ~> Settled(m) \/ GivenUp

================================================================================
