---------------------------- MODULE LocationChannel ----------------------------
(***************************************************************************)
(* Tethering the device's location over Bluetooth.  While the device is    *)
(* advertised, phones come near and write the parts of a location, each in *)
(* a request of its own.  One goroutine aggregates the parts, another      *)
(* takes the places that are complete and has each set in a goroutine of   *)
(* its own.  The device is advertised when it registers and when it is     *)
(* commanded to.                                                           *)
(*                                                                         *)
(* Go's channels: a write of receive (unbuffered) waits for the            *)
(* aggregator, a write of release (one place) for room.                    *)
(***************************************************************************)
EXTENDS Naturals, Sequences, FiniteSets

CONSTANTS
    Phones,
    Locations,     \* what the phones write
    Pairings,      \* calls of localnet.Pair
    Registration,  \* the one of them that no command asked for
    Bluetooth,     \* is it enabled
    Zero,          \* locations with a coordinate that is 0
    Disturbances,  \* what may happen besides
    Nil

Parts == {"east", "north", "name"}

ASSUME LocationAssumption ==
    /\ Registration \in Pairings
    /\ Bluetooth \in BOOLEAN
    /\ Zero \subseteq Locations
    /\ Disturbances \subseteq {"disconnect", "failure", "shutdown"}
    /\ Nil \notin Locations \cup Parts

Places == [Parts -> Locations]

VARIABLES
    power,    \* on, closing (localnet is closed), off (the context is done)
    logged,   \* is the device logged in
    pairing,  \* the calls of localnet.Pair
    phone,    \* the location a phone writes, the parts to come, and the one in hand
    broken,   \* has a location been broken off or into by another: history
    unsent,   \* locations no phone has begun to write
    payload,  \* geoPayload
    full,     \* is the aggregator at its write of release
    release,  \* the channel
    setting,  \* the handler of each place that was released: a sequence
    ledger, copy

phoneVars  == <<phone, broken, unsent>>
deviceVars == <<logged, ledger, copy>>
vars == <<power, pairing, phoneVars, payload, full, release, setting, deviceVars>>

Away  == [writes |-> Nil, left |-> {}, hand |-> Nil, near |-> FALSE]
Empty == [part \in Parts |-> Nil]

TypeOK ==
    /\ power \in {"on", "closing", "off"}
    /\ logged \in BOOLEAN
    /\ pairing \in [Pairings -> {"none", "advertised", "over"}]
    /\ phone \in [Phones -> [writes : Locations \cup {Nil}, left : SUBSET Parts,
                             hand : Parts \cup {Nil}, near : BOOLEAN]]
    /\ broken \in BOOLEAN
    /\ unsent \subseteq Locations
    /\ payload \in [Parts -> Locations \cup {Nil}]
    /\ full \in BOOLEAN
    /\ release \in Seq(Places) /\ Len(release) <= 1
    /\ setting \in Seq([place : Places, pc : {"check", "update", "copy", "done"}])
    /\ ledger \in Places \cup {Nil}
    /\ copy \in Places \cup {Nil}

Init ==
    /\ power = "on"
    /\ logged = FALSE
    /\ pairing = [p \in Pairings |-> "none"]
    /\ phone = [p \in Phones |-> Away]
    /\ broken = FALSE
    /\ unsent = Locations
    /\ payload = Empty
    /\ full = FALSE
    /\ release = <<>>
    /\ setting = <<>>
    /\ ledger = Nil
    /\ copy = Nil

--------------------------------------------------------------------------------
(* localnet.Pair, by LifecycleManager and by RemoteController.              *)

PairingGoes(p, from, to) ==
    /\ pairing[p] = from
    /\ pairing' = [pairing EXCEPT ![p] = to]

\* A command is listened for once the device is logged in, a registration is
\* what comes before that.  Without Bluetooth the call fails.
Pair(p) ==
    /\ power = "on"
    /\ logged = (p # Registration)
    /\ PairingGoes(p, "none", IF Bluetooth THEN "advertised" ELSE "over")

\* The advertisement is over in time, which is no error, or fails;
\* handleBluetoothPairingCmd submits which it was, and tries that once.
PairEnds(p) == PairingGoes(p, "advertised", "over")

PairingStep(p) ==
    /\ power # "off"
    /\ Pair(p) \/ PairEnds(p)
    /\ UNCHANGED <<power, phoneVars, payload, full, release, setting, deviceVars>>

--------------------------------------------------------------------------------
(* The phones.                                                              *)

Come(p) ==
    /\ \E c \in Pairings : pairing[c] = "advertised"
    /\ ~phone[p].near
    /\ phone' = [phone EXCEPT ![p].near = TRUE]
    /\ UNCHANGED <<broken, unsent>>

Busy(p) == phone[p].left # {} \/ phone[p].hand # Nil

Begin(p) ==
    /\ phone[p].near /\ ~Busy(p)
    /\ broken' = (broken \/ \E q \in Phones : Busy(q))
    /\ \E l \in unsent :
           /\ unsent' = unsent \ {l}
           /\ phone' = [phone EXCEPT ![p].writes = l, ![p].left = Parts]

\* HandleWrite: the handler of the request is at its write of receive.
Write(p) ==
    /\ phone[p].near /\ phone[p].hand = Nil
    /\ \E part \in phone[p].left :
           phone' = [phone EXCEPT ![p].hand = part, ![p].left = @ \ {part}]
    /\ UNCHANGED <<broken, unsent>>

\* Whatever else the phone was to write is not written.
Leave(p) ==
    /\ "disconnect" \in Disturbances
    /\ phone[p].near
    /\ phone' = [phone EXCEPT ![p].near = FALSE, ![p].left = {}]
    /\ broken' = (broken \/ phone[p].left # {})
    /\ UNCHANGED unsent

PhoneStep(p) ==
    /\ power # "off"
    /\ Come(p) \/ Begin(p) \/ Write(p) \/ Leave(p)
    /\ UNCHANGED <<power, pairing, payload, full, release, setting, deviceVars>>

--------------------------------------------------------------------------------
(* GeoLocationChannel.Subscribe                                             *)

\* (mutant: the name is not waited for)
CompleteUnnamed(gp) == gp["east"] # Nil /\ gp["north"] # Nil

Complete(gp) == \A part \in Parts : gp[part] # Nil

\* The aggregator takes a setter and runs it; then tryRelease, which may wait.
Receive(p) ==
    /\ power # "off"
    /\ ~full
    /\ phone[p].hand # Nil
    /\ payload' = [payload EXCEPT ![phone[p].hand] = phone[p].writes]
    /\ full' = Complete(payload')
    /\ phone' = [phone EXCEPT ![p].hand = Nil]
    /\ UNCHANGED <<power, pairing, broken, unsent, release, setting, deviceVars>>

\* (mutant: the payload is kept after its release)
ReleaseKept ==
    /\ full /\ release = <<>>
    /\ release' = <<payload>>
    /\ full' = FALSE
    /\ UNCHANGED <<power, pairing, phoneVars, payload, setting, deviceVars>>

\* (mutant: the payload is dropped when nobody is ready to take it)
ReleaseOrDrop ==
    /\ full
    /\ release' = IF release = <<>> THEN <<payload>> ELSE release
    /\ payload' = Empty
    /\ full' = FALSE
    /\ UNCHANGED <<power, pairing, phoneVars, setting, deviceVars>>

\* The write of release, and the payload begins anew; no done context ends the wait.
Release ==
    /\ full /\ release = <<>>
    /\ release' = <<payload>>
    /\ payload' = Empty
    /\ full' = FALSE
    /\ UNCHANGED <<power, pairing, phoneVars, setting, deviceVars>>

\* The subscriber has the place handled in a goroutine of its own.
Take ==
    /\ power # "off"
    /\ release # <<>>
    /\ setting' = Append(setting, [place |-> Head(release), pc |-> "check"])
    /\ release' = <<>>
    /\ UNCHANGED <<power, pairing, phoneVars, payload, full, deviceVars>>

--------------------------------------------------------------------------------
(* Device.SetLocation, by the handler of the n-th place.                    *)

SettingGoes(n, from, to) ==
    /\ n \in DOMAIN setting
    /\ setting[n].pc = from
    /\ setting' = [setting EXCEPT ![n].pc = to]

HasZero(place) == place["east"] \in Zero \/ place["north"] \in Zero

CheckLocation(n) ==
    /\ SettingGoes(n, "check", IF ~logged \/ copy = setting[n].place \/ HasZero(setting[n].place)
                               THEN "done" ELSE "update")
    /\ UNCHANGED <<ledger, copy>>

UpdateLocation(n) ==
    /\ \/ /\ SettingGoes(n, "update", "copy")
          /\ ledger' = setting[n].place
       \/ /\ "failure" \in Disturbances
          /\ SettingGoes(n, "update", "done")
          /\ UNCHANGED ledger
    /\ UNCHANGED copy

CopyLocation(n) ==
    /\ SettingGoes(n, "copy", "done")
    /\ copy' = setting[n].place
    /\ UNCHANGED ledger

SettingStep(n) ==
    /\ CheckLocation(n) \/ UpdateLocation(n) \/ CopyLocation(n)
    /\ UNCHANGED <<power, pairing, phoneVars, payload, full, release, logged>>

--------------------------------------------------------------------------------
LogIn ==
    /\ ~logged
    /\ logged' = TRUE
    /\ UNCHANGED <<power, pairing, phoneVars, payload, full, release, setting, ledger, copy>>

\* main's shutdown: localnet.Close, then Device.Close, whose context is done.
Shutdown ==
    /\ "shutdown" \in Disturbances
    /\ power' = IF power = "on" THEN "closing" ELSE "off"
    /\ power # "off"
    /\ UNCHANGED <<pairing, phoneVars, payload, full, release, setting, deviceVars>>

\* A Pair between the two has no client: the program panics.
PairPanics ==
    /\ power = "closing" /\ Bluetooth
    /\ \E p \in Pairings : pairing[p] = "none" /\ logged = (p # Registration)
    /\ power' = "off"
    /\ UNCHANGED <<pairing, phoneVars, payload, full, release, setting, deviceVars>>

Next ==
    \/ \E p \in Pairings : PairingStep(p)
    \/ \E p \in Phones : PhoneStep(p) \/ Receive(p)
    \/ Release \/ Take
    \/ \E n \in DOMAIN setting : SettingStep(n)
    \/ LogIn \/ Shutdown \/ PairPanics

Spec == Init /\ [][Next]_vars

\* Goroutines of the device run, and calls return; nothing makes a phone write.
FairSpec ==
    /\ Spec
    /\ WF_vars(Release) /\ WF_vars(Take)
    /\ \A p \in Phones : SF_vars(Receive(p))
    /\ \A n \in 1..Cardinality(Locations) : WF_vars(SettingStep(n))
    /\ \A p \in Pairings : WF_vars(PairingStep(p) /\ pairing[p] # "none")

--------------------------------------------------------------------------------
\* No part is in two of the places that were released.
NoPartTwice ==
    \A m, n \in DOMAIN setting :
        m # n => \A part \in Parts : setting[m].place[part] # setting[n].place[part]

\* As long as phones write one after the other and to the end, the device is
\* where one of them says, whatever order the parts arrive in.
PlacesAreWhole ==
    ~broken /\ ledger # Nil => \E l \in Locations : ledger = [part \in Parts |-> l]

Pending  == {n \in DOMAIN setting : setting[n].pc \in {"check", "update"}}
Released == {release[n] : n \in DOMAIN release} \cup {setting[n].place : n \in Pending}

Fresh ==
    {<<phone[p].hand, phone[p].writes>> : p \in {q \in Phones : phone[q].hand # Nil}}
      \cup {<<part, payload[part]>> : part \in {q \in Parts : payload[q] # Nil}}
      \cup UNION {{<<part, place[part]>> : part \in Parts} : place \in Released}

Tether == INSTANCE LocationTether WITH
    open    <- power # "off",
    fresh   <- Fresh,
    settled <- {setting[n].place : n \in DOMAIN setting \ Pending}

\* The channel keeps what LocationTether promises: writes, the aggregator, the
\* channels and the handlers are one register of parts that settles places.
SettlesPlaces == Tether!FairSpec
================================================================================
