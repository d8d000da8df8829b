-------------------------- MODULE MCLocationChannel --------------------------
(* LocationChannel for TLC: phones and locations are model values.          *)
EXTENDS LocationChannel
================================================================================
