----------------------------- MODULE LocationTether ----------------------------
(***************************************************************************)
(* What tethering a location promises whoever writes it: three parts make  *)
(* a place, no written part is in two places, only a newer one of its kind *)
(* replaces it, and as long as the channel is open three parts of the      *)
(* three kinds become a place that is settled.                             *)
(***************************************************************************)
CONSTANTS Parts, Locations

VARIABLES
    open,      \* is the channel served
    fresh,     \* parts that are written and not yet settled
    settled    \* places that the ledger was asked for, or that were refused

Places == [Parts -> Locations]

Init ==
    /\ open = TRUE
    /\ fresh = {}
    /\ settled = {}

Write(part, l) ==
    /\ fresh' = fresh \cup {<<part, l>>}
    /\ UNCHANGED <<open, settled>>

\* One part gives way to another of its kind.
Replace(part, l) ==
    /\ \E m \in Locations \ {l} : <<part, m>> \in fresh
    /\ fresh' = fresh \ {<<part, l>>}
    /\ UNCHANGED <<open, settled>>

Of(place) == {<<part, place[part]>> : part \in Parts}

Settle(place) ==
    /\ Of(place) \subseteq fresh
    /\ fresh' = fresh \ Of(place)
    /\ settled' = settled \cup {place}
    /\ UNCHANGED open

Close ==
    /\ open' = FALSE
    /\ UNCHANGED <<fresh, settled>>

SettleSome == \E place \in Places : Settle(place)

Next ==
    \/ \E part \in Parts, l \in Locations : Write(part, l) \/ Replace(part, l)
    \/ SettleSome
    \/ Close

vars == <<open, fresh, settled>>

Spec == Init /\ [][Next]_vars

FairSpec == Spec /\ WF_vars(open /\ SettleSome)
================================================================================
