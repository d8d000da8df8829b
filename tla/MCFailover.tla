------------------------------- MODULE MCFailover -------------------------------
(* A small instance of Failover: readings of different seconds.              *)
EXTENDS Failover, TLC

CONSTANTS m1, m2, k1, k2, t1, t2, i1, i2

OwnKeys == (m1 :> k1) @@ (m2 :> k2)
================================================================================
