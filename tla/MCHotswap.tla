------------------------------ MODULE MCHotswap ------------------------------
(* Two sensors on a bus each, which have a metric in common, and one each.  *)
EXTENDS Hotswap

CONSTANTS s1, s2, air, light, both, b1, b2

Shared == [s \in Sensors |-> IF s = s1 THEN {air, both} ELSE {light, both}]
Apart  == [s \in Sensors |-> IF s = s1 THEN b1 ELSE b2]
================================================================================
