-------------------------------- MODULE MCDisplay --------------------------------
(* A panel of two rows: a frame is mixed when its rows differ.              *)
EXTENDS Display

MCLastRow == 1

\* A device that is registered, and one that is shut down.
Either == {{"registration", "failure"}, {"shutdown", "failure"}}
================================================================================
