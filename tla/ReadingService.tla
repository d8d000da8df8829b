---------------------------- MODULE ReadingService ----------------------------
(***************************************************************************)
(* What the sensors engine promises to those who ask it for readings,      *)
(* whatever its goroutines, timers and sensors do: a request is answered   *)
(* at most once, for the metrics it asked for, from sensors that measure   *)
(* them; a receiver asks while it is subscribed and at most once more      *)
(* after it was cancelled.  SensorsReader is shown to implement it.        *)
(***************************************************************************)
EXTENDS Naturals

CONSTANTS
    Callers,      \* those who subscribe a receiver or send one request
    Requests,     \* requests the engine takes
    Sensors, Metrics,
    Wanted,       \* the metrics a caller asks for
    MetricsOf,    \* the metrics a sensor measures
    Nil

VARIABLES
    standing,     \* of a caller: none, on, off (cancelled, may ask once more), over
    takenFrom,    \* the caller a request was taken from, Nil: not taken
    answer        \* what its handler was called with, Nil: not called

vars == <<standing, takenFrom, answer>>

\* An answer has some sensors for every metric that was asked for.
Answers(c) == {a \in [Wanted[c] -> SUBSET Sensors] :
                  \A m \in Wanted[c] : \A s \in a[m] : m \in MetricsOf[s]}

Init ==
    /\ standing = [c \in Callers |-> "none"]
    /\ takenFrom = [q \in Requests |-> Nil]
    /\ answer = [q \in Requests |-> Nil]

Ask(c) ==
    /\ standing[c] = "none"
    /\ standing' = [standing EXCEPT ![c] = "on"]
    /\ UNCHANGED <<takenFrom, answer>>

Cancel(c) ==
    /\ standing[c] = "on"
    /\ \E last \in {"off", "over"} : standing' = [standing EXCEPT ![c] = last]
    /\ UNCHANGED <<takenFrom, answer>>

\* A caller who sends a single request is over with it.
Take(c, q) ==
    /\ standing[c] \in {"on", "off"}
    /\ takenFrom[q] = Nil
    /\ takenFrom' = [takenFrom EXCEPT ![q] = c]
    /\ \E next \in {"over"} \cup ({"on"} \cap {standing[c]}) :
          standing' = [standing EXCEPT ![c] = next]
    /\ UNCHANGED answer

Answer(q) ==
    /\ takenFrom[q] # Nil
    /\ answer[q] = Nil
    /\ \E a \in Answers(takenFrom[q]) : answer' = [answer EXCEPT ![q] = a]
    /\ UNCHANGED <<standing, takenFrom>>

Next ==
    \/ \E c \in Callers : Ask(c) \/ Cancel(c) \/ \E q \in Requests : Take(c, q)
    \/ \E q \in Requests : Answer(q)

Spec == Init /\ [][Next]_vars

\* Every request that was taken is answered.
FairSpec == Spec /\ \A q \in Requests : WF_vars(Answer(q))
================================================================================
