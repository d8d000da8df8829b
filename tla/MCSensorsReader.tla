--------------------------- MODULE MCSensorsReader ---------------------------
(* The constants of the SensorsReader runs that a cfg cannot write.         *)
EXTENDS SensorsReader, TLC

CONSTANTS thermometer, weather, temperature, humidity, receiver, single

\* Two sensors of one metric, one of which measures another metric as well.
TwoSensors ==
    [s \in Sensors |-> Metrics \cap IF s = weather THEN {temperature, humidity} ELSE {temperature}]

Everything == [c \in Callers |-> Metrics]

Same == Permutations(Requests) \cup Permutations(Timers)
================================================================================
