----------------------------- MODULE LocationProofs ----------------------------
(***************************************************************************)
(* Theorems about LocationChannel, for every set of phones, locations and  *)
(* pairings: type correctness, that no part of a location is in two        *)
(* places, that it implements LocationTether, without fairness, and that   *)
(* places are whole when phones do not write at once.                      *)
(***************************************************************************)
EXTENDS LocationChannel, SequenceTheorems, TLAPS

PhoneRecords == [writes : Locations \cup {Nil}, left : SUBSET Parts,
                 hand : Parts \cup {Nil}, near : BOOLEAN]
Handlers     == [place : Places, pc : {"check", "update", "copy", "done"}]

\* What the aggregator releases is complete.
FullIsComplete == full => payload \in Places

TypeInv == TypeOK /\ FullIsComplete

--------------------------------------------------------------------------------
(* What the actions do, with the records they set taken apart.              *)

\* The phone p becomes the record r, and the others stay.
Becomes(p, r) ==
    /\ r \in PhoneRecords
    /\ phone' \in [Phones -> PhoneRecords]
    /\ phone'[p] = r
    /\ \A q \in Phones \ {p} : phone'[q] = phone[q]

LEMMA PhoneSet ==
    ASSUME TypeOK, NEW p \in Phones, NEW r \in PhoneRecords, phone' = [phone EXCEPT ![p] = r]
    PROVE  Becomes(p, r)
BY DEF TypeOK, Becomes, PhoneRecords

LEMMA PhoneIs ==
    ASSUME TypeOK, NEW p \in Phones
    PROVE  /\ phone[p] \in PhoneRecords
           /\ phone[p].writes \in Locations \cup {Nil} /\ phone[p].left \subseteq Parts
           /\ phone[p].hand \in Parts \cup {Nil} /\ phone[p].near \in BOOLEAN
BY DEF TypeOK, PhoneRecords

LEMMA ComeShape ==
    ASSUME TypeOK, NEW p \in Phones, Come(p)
    PROVE  \E r : /\ Becomes(p, r) /\ r.writes = phone[p].writes
                  /\ r.left = phone[p].left /\ r.hand = phone[p].hand
<1> DEFINE r == [phone[p] EXCEPT !.near = TRUE]
<1>1. /\ r \in PhoneRecords /\ r.writes = phone[p].writes
      /\ r.left = phone[p].left /\ r.hand = phone[p].hand
  BY PhoneIs DEF PhoneRecords
<1>2. phone' = [phone EXCEPT ![p] = r]
  BY DEF Come
<1> HIDE DEF r
<1> QED BY <1>1, <1>2, PhoneSet

LEMMA BeginShape ==
    ASSUME TypeOK, NEW p \in Phones, Begin(p)
    PROVE  /\ phone[p].hand = Nil
           /\ \E r : /\ Becomes(p, r) /\ r.writes \in unsent /\ unsent' = unsent \ {r.writes}
                     /\ r.left = Parts /\ r.hand = Nil
<1> PICK l \in unsent : /\ unsent' = unsent \ {l}
                        /\ phone' = [phone EXCEPT ![p].writes = l, ![p].left = Parts]
  BY DEF Begin
<1> DEFINE r == [phone[p] EXCEPT !.writes = l, !.left = Parts]
<1>0. phone[p].hand = Nil
  BY DEF Begin, Busy
<1>1. r \in PhoneRecords /\ r.writes = l /\ r.left = Parts /\ r.hand = phone[p].hand
  BY PhoneIs DEF PhoneRecords, TypeOK
<1>2. phone' = [phone EXCEPT ![p] = r]
  OBVIOUS
<1> HIDE DEF r
<1> QED BY <1>0, <1>1, <1>2, PhoneSet

LEMMA WriteShape ==
    ASSUME TypeOK, NEW p \in Phones, Write(p)
    PROVE  /\ phone[p].hand = Nil
           /\ \E r : /\ Becomes(p, r) /\ r.writes = phone[p].writes
                     /\ r.hand \in phone[p].left /\ r.left = phone[p].left \ {r.hand}
<1> PICK part \in phone[p].left :
             phone' = [phone EXCEPT ![p].hand = part, ![p].left = @ \ {part}]
  BY DEF Write
<1> DEFINE r == [phone[p] EXCEPT !.hand = part, !.left = phone[p].left \ {part}]
<1>1. /\ r \in PhoneRecords /\ r.writes = phone[p].writes
      /\ r.left = phone[p].left \ {part} /\ r.hand = part
  BY PhoneIs DEF PhoneRecords
<1>2. phone' = [phone EXCEPT ![p] = r]
  OBVIOUS
<1> HIDE DEF r
<1> QED BY <1>1, <1>2, PhoneSet DEF Write

LEMMA LeaveShape ==
    ASSUME TypeOK, NEW p \in Phones, Leave(p)
    PROVE  \E r : /\ Becomes(p, r) /\ r.writes = phone[p].writes
                  /\ r.left = {} /\ r.hand = phone[p].hand
<1> DEFINE r == [phone[p] EXCEPT !.near = FALSE, !.left = {}]
<1>1. r \in PhoneRecords /\ r.writes = phone[p].writes /\ r.left = {} /\ r.hand = phone[p].hand
  BY PhoneIs DEF PhoneRecords
<1>2. phone' = [phone EXCEPT ![p] = r]
  BY DEF Leave
<1> HIDE DEF r
<1> QED BY <1>1, <1>2, PhoneSet

LEMMA ReceiveShape ==
    ASSUME TypeOK, NEW p \in Phones, Receive(p)
    PROVE  /\ phone[p].hand \in Parts /\ ~full
           /\ \E r : /\ Becomes(p, r) /\ r.writes = phone[p].writes
                     /\ r.left = phone[p].left /\ r.hand = Nil
           /\ payload' = [payload EXCEPT ![phone[p].hand] = phone[p].writes]
           /\ payload' \in [Parts -> Locations \cup {Nil}]
           /\ FullIsComplete' /\ full' \in BOOLEAN
<1> DEFINE r == [phone[p] EXCEPT !.hand = Nil]
<1>1. /\ r \in PhoneRecords /\ r.writes = phone[p].writes
      /\ r.left = phone[p].left /\ r.hand = Nil
  BY PhoneIs DEF PhoneRecords
<1>2. phone' = [phone EXCEPT ![p] = r]
  BY DEF Receive
<1> HIDE DEF r
<1>3. payload' \in [Parts -> Locations \cup {Nil}]
  BY PhoneIs DEF Receive, TypeOK
<1>4. full' \in BOOLEAN
  BY Zenon DEF Receive, Complete
<1>5. FullIsComplete'
  BY <1>3, LocationAssumption DEF Receive, Complete, FullIsComplete, Places
<1> QED BY <1>1, <1>2, <1>3, <1>4, <1>5, PhoneIs, PhoneSet DEF Receive

\* The handler n goes on with its place, and the others stay.
LEMMA SettingShape ==
    ASSUME setting \in Seq(Handlers), NEW n, NEW from,
           NEW to \in {"check", "update", "copy", "done"}, SettingGoes(n, from, to)
    PROVE  /\ setting' \in Seq(Handlers) /\ n \in DOMAIN setting
           /\ DOMAIN setting' = DOMAIN setting
           /\ setting[n].pc = from /\ setting'[n].pc = to
           /\ \A m \in DOMAIN setting : /\ setting'[m].place = setting[m].place
                                        /\ setting[m].place \in Places
                                        /\ m # n => setting'[m] = setting[m]
<1> DEFINE h == [setting[n] EXCEPT !.pc = to]
<1>1. n \in DOMAIN setting /\ DOMAIN setting = 1..Len(setting)
  BY LenProperties DEF SettingGoes
<1>2. \A m \in DOMAIN setting : setting[m] \in Handlers
  BY <1>1, ElementOfSeq
<1>3. h \in Handlers /\ h.place = setting[n].place /\ h.pc = to
  BY <1>1, <1>2 DEF Handlers
<1>4. setting' = [setting EXCEPT ![n] = h]
  BY <1>1 DEF SettingGoes
<1> HIDE DEF h
<1>5. /\ setting' \in Seq(Handlers) /\ Len(setting') = Len(setting)
      /\ \A m \in 1..Len(setting) : setting'[m] = IF m = n THEN h ELSE setting[m]
  BY <1>1, <1>3, <1>4, ExceptSeq
<1>6. DOMAIN setting' = DOMAIN setting
  BY <1>1, <1>5, LenProperties
<1>7. \A m \in DOMAIN setting : setting[m].place \in Places
  BY <1>2 DEF Handlers
<1> QED BY <1>1, <1>3, <1>5, <1>6, <1>7 DEF SettingGoes

\* A place that is taken gets a handler of its own.
LEMMA TakeShape ==
    ASSUME TypeOK, Take
    PROVE  /\ release # <<>> /\ release[1] \in Places /\ release' = <<>>
           /\ setting' \in Seq(Handlers)
           /\ DOMAIN setting' = DOMAIN setting \cup {Len(setting) + 1}
           /\ Len(setting) + 1 \notin DOMAIN setting
           /\ \A m \in DOMAIN setting : setting'[m] = setting[m]
           /\ setting'[Len(setting) + 1] = [place |-> release[1], pc |-> "check"]
<1>1. release # <<>> /\ release \in Seq(Places) /\ release[1] \in Places /\ Head(release) = release[1]
  BY EmptySeq, ElementOfSeq DEF Take, TypeOK
<1>2. [place |-> release[1], pc |-> "check"] \in Handlers
  BY <1>1 DEF Handlers
<1>3. setting' = Append(setting, [place |-> release[1], pc |-> "check"]) /\ release' = <<>>
  BY <1>1 DEF Take
<1>4. setting \in Seq(Handlers)
  BY DEF TypeOK, Handlers
<1>5. DOMAIN setting = 1..Len(setting) /\ Len(setting) \in Nat
  BY <1>4, LenProperties
<1>6. /\ setting' \in Seq(Handlers) /\ Len(setting') = Len(setting) + 1
      /\ \A m \in 1..Len(setting) : setting'[m] = setting[m]
      /\ setting'[Len(setting) + 1] = [place |-> release[1], pc |-> "check"]
  BY <1>2, <1>3, <1>4, <1>5
<1>7. DOMAIN setting' = 1..Len(setting')
  BY <1>6, LenProperties
<1> QED BY <1>1, <1>3, <1>5, <1>6, <1>7

--------------------------------------------------------------------------------
(* Types.                                                                   *)

PhonesTyped   == phone \in [Phones -> PhoneRecords] /\ broken \in BOOLEAN /\ unsent \subseteq Locations
PairingTyped  == pairing \in [Pairings -> {"none", "advertised", "over"}]
PayloadTyped  == payload \in [Parts -> Locations \cup {Nil}] /\ full \in BOOLEAN
ReleaseTyped  == release \in Seq(Places) /\ Len(release) <= 1
SettingTyped  == setting \in Seq(Handlers)
DeviceTyped   == logged \in BOOLEAN /\ ledger \in Places \cup {Nil} /\ copy \in Places \cup {Nil}
PowerTyped    == power \in {"on", "closing", "off"}

LEMMA TypeParts ==
    TypeOK <=> /\ PhonesTyped /\ PairingTyped /\ PayloadTyped /\ ReleaseTyped
               /\ SettingTyped /\ DeviceTyped /\ PowerTyped
BY Zenon DEF TypeOK, PhonesTyped, PairingTyped, PayloadTyped, ReleaseTyped, SettingTyped, DeviceTyped,
             PowerTyped, PhoneRecords, Handlers

LEMMA TypePartsNext ==
    TypeOK' <=> /\ PhonesTyped' /\ PairingTyped' /\ PayloadTyped' /\ ReleaseTyped'
                /\ SettingTyped' /\ DeviceTyped' /\ PowerTyped'
BY Zenon DEF TypeOK, PhonesTyped, PairingTyped, PayloadTyped, ReleaseTyped, SettingTyped, DeviceTyped,
             PowerTyped, PhoneRecords, Handlers

\* A step that leaves a part alone leaves it typed.
LEMMA PartsKept ==
    ASSUME TypeInv
    PROVE  /\ UNCHANGED phoneVars => PhonesTyped'
           /\ UNCHANGED pairing => PairingTyped'
           /\ UNCHANGED <<payload, full>> => PayloadTyped' /\ FullIsComplete'
           /\ UNCHANGED release => ReleaseTyped'
           /\ UNCHANGED setting => SettingTyped'
           /\ UNCHANGED deviceVars => DeviceTyped'
           /\ UNCHANGED power => PowerTyped'
<1> USE TypeParts DEF TypeInv
<1>1. UNCHANGED phoneVars => PhonesTyped'
  BY Zenon DEF phoneVars, PhonesTyped
<1>2. UNCHANGED pairing => PairingTyped'
  BY Zenon DEF PairingTyped
<1>3. UNCHANGED <<payload, full>> => PayloadTyped' /\ FullIsComplete'
  <2>1. UNCHANGED <<payload, full>> => PayloadTyped'
    BY Zenon DEF PayloadTyped
  <2>2. UNCHANGED <<payload, full>> => FullIsComplete'
    BY DEF FullIsComplete
  <2> QED BY <2>1, <2>2
<1>4. UNCHANGED release => ReleaseTyped'
  BY Zenon DEF ReleaseTyped
<1>5. UNCHANGED setting => SettingTyped'
  BY Zenon DEF SettingTyped
<1>6. UNCHANGED deviceVars => DeviceTyped'
  BY Zenon DEF deviceVars, DeviceTyped
<1>7. UNCHANGED power => PowerTyped'
  BY Zenon DEF PowerTyped
<1> QED BY <1>1, <1>2, <1>3, <1>4, <1>5, <1>6, <1>7

LEMMA InitTyped == Init => TypeInv
<1> SUFFICES ASSUME Init
             PROVE  TypeInv
  OBVIOUS
<1>1. PhonesTyped
  BY DEF Init, PhonesTyped, PhoneRecords, Away
<1>2. PairingTyped /\ PowerTyped
  BY DEF Init, PairingTyped, PowerTyped
<1>3. PayloadTyped /\ DeviceTyped /\ FullIsComplete
  BY DEF Init, PayloadTyped, DeviceTyped, FullIsComplete, Empty
<1>4. ReleaseTyped /\ SettingTyped
  BY EmptySeq DEF Init, ReleaseTyped, SettingTyped
<1> QED BY <1>1, <1>2, <1>3, <1>4, TypeParts DEF TypeInv

LEMMA PhoneTyped ==
    ASSUME TypeInv, NEW p \in Phones, PhoneStep(p)
    PROVE  TypeInv'
<1>0. TypeOK
  BY DEF TypeInv
<1>1. phone' \in [Phones -> PhoneRecords]
  BY <1>0, ComeShape, BeginShape, WriteShape, LeaveShape DEF PhoneStep, Becomes
<1>2. unsent' \subseteq Locations
  BY <1>0 DEF PhoneStep, Come, Begin, Write, Leave, TypeOK
<1>3. broken' \in BOOLEAN
  BY Zenon, <1>0 DEF PhoneStep, Come, Begin, Write, Leave, TypeOK
<1>4. PhonesTyped'
  BY Zenon, <1>1, <1>2, <1>3 DEF PhonesTyped
<1>5. UNCHANGED <<power, pairing, payload, full, release, setting, deviceVars>>
  BY DEF PhoneStep
<1> QED BY <1>4, <1>5, PartsKept, TypePartsNext DEF TypeInv

LEMMA ReceiveTyped ==
    ASSUME TypeInv, NEW p \in Phones, Receive(p)
    PROVE  TypeInv'
<1>0. TypeOK
  BY DEF TypeInv
<1>1. phone' \in [Phones -> PhoneRecords]
  BY <1>0, ReceiveShape DEF Becomes
<1>2. UNCHANGED <<power, pairing, broken, unsent, release, setting, deviceVars>>
  BY DEF Receive
<1>3. PhonesTyped'
  BY Zenon, <1>0, <1>1, <1>2 DEF PhonesTyped, TypeOK
<1>4. PayloadTyped' /\ FullIsComplete'
  BY Zenon, <1>0, ReceiveShape DEF PayloadTyped
<1> QED BY <1>2, <1>3, <1>4, PartsKept, TypePartsNext DEF TypeInv

LEMMA ReleaseShape ==
    ASSUME TypeInv, Release
    PROVE  /\ payload \in Places /\ release = <<>>
           /\ release' = <<payload>> /\ payload' = Empty
           /\ ReleaseTyped' /\ PayloadTyped' /\ FullIsComplete'
<1>1. payload \in Places /\ release' = <<payload>> /\ payload' = Empty /\ full' = FALSE /\ release = <<>>
  BY DEF Release, TypeInv, FullIsComplete
<1>2. ReleaseTyped'
  BY <1>1 DEF ReleaseTyped
<1>3. PayloadTyped' /\ FullIsComplete'
  BY <1>1 DEF PayloadTyped, FullIsComplete, Empty
<1> QED BY <1>1, <1>2, <1>3

LEMMA SettingStepTyped ==
    ASSUME TypeInv, NEW n \in DOMAIN setting, SettingStep(n)
    PROVE  TypeInv'
<1>0. setting \in Seq(Handlers) /\ TypeOK
  BY DEF TypeInv, TypeOK, Handlers
<1>1. SettingTyped'
  BY <1>0, SettingShape DEF SettingStep, CheckLocation, UpdateLocation, CopyLocation, SettingTyped
<1>2. setting[n].place \in Places
  <2>1. n \in 1..Len(setting)
    BY <1>0, LenProperties
  <2>2. setting[n] \in Handlers
    BY <1>0, <2>1, ElementOfSeq
  <2> QED BY <2>2 DEF Handlers
<1>3. UNCHANGED <<power, pairing, phoneVars, payload, full, release, logged>>
  BY DEF SettingStep
<1>4. ledger' \in Places \cup {Nil} /\ copy' \in Places \cup {Nil}
  BY <1>0, <1>2 DEF SettingStep, CheckLocation, UpdateLocation, CopyLocation, TypeOK
<1>5. DeviceTyped'
  BY Zenon, <1>0, <1>3, <1>4 DEF DeviceTyped, TypeOK
<1> QED BY <1>1, <1>3, <1>5, PartsKept, TypePartsNext DEF TypeInv

LEMMA StepTyped == TypeInv /\ [Next]_vars => TypeInv'
<1> SUFFICES ASSUME TypeInv, [Next]_vars
             PROVE  TypeInv'
  OBVIOUS
<1>0. TypeOK
  BY DEF TypeInv
<1>1. ASSUME NEW p \in Pairings, PairingStep(p)
      PROVE  TypeInv'
  <2>1. PairingTyped'
    BY <1>0, <1>1 DEF PairingStep, Pair, PairEnds, PairingGoes, PairingTyped, TypeOK
  <2> QED BY <1>1, <2>1, PartsKept, TypePartsNext DEF PairingStep, TypeInv
<1>2. ASSUME NEW p \in Phones, PhoneStep(p) \/ Receive(p)
      PROVE  TypeInv'
  BY <1>2, PhoneTyped, ReceiveTyped
<1>3. CASE Release
  <2>1. UNCHANGED <<power, pairing, phoneVars, setting, deviceVars>>
    BY <1>3 DEF Release
  <2> QED BY <1>3, <2>1, ReleaseShape, PartsKept, TypePartsNext DEF TypeInv
<1>4. CASE Take
  <2>1. UNCHANGED <<power, pairing, phoneVars, payload, full, deviceVars>>
    BY <1>4 DEF Take
  <2>2. ReleaseTyped'
    BY <1>0, <1>4, TakeShape, EmptySeq DEF ReleaseTyped
  <2>3. SettingTyped'
    BY <1>0, <1>4, TakeShape DEF SettingTyped
  <2> QED BY <2>1, <2>2, <2>3, PartsKept, TypePartsNext DEF TypeInv
<1>5. ASSUME NEW n \in DOMAIN setting, SettingStep(n)
      PROVE  TypeInv'
  BY <1>5, SettingStepTyped
<1>6. CASE LogIn
  <2>1. DeviceTyped'
    BY Zenon, <1>0, <1>6 DEF LogIn, DeviceTyped, TypeOK
  <2> QED BY <1>6, <2>1, PartsKept, TypePartsNext DEF LogIn, TypeInv
<1>7. CASE Shutdown \/ PairPanics
  <2>1. PowerTyped'
    BY <1>7 DEF Shutdown, PairPanics, PowerTyped
  <2> QED BY <1>7, <2>1, PartsKept, TypePartsNext DEF Shutdown, PairPanics, TypeInv
<1>8. CASE UNCHANGED vars
  BY <1>8, PartsKept, TypePartsNext DEF vars, phoneVars, deviceVars, TypeInv
<1> QED BY <1>1, <1>2, <1>3, <1>4, <1>5, <1>6, <1>7, <1>8 DEF Next

\* Phones, the aggregator's payload, the channel and the handlers of its places
\* stay within their types (localnet/geo.go and location_manager.go): nothing
\* incomplete is released, and the channel holds one place at most.
THEOREM TypeCorrect == Spec => []TypeOK
<1>1. TypeInv => TypeOK
  BY DEF TypeInv
<1> QED BY <1>1, InitTyped, StepTyped, PTL DEF Spec

--------------------------------------------------------------------------------
(* Every part of every location is in one place at a time.                  *)

\* A phone has the location it writes to itself, and a part is written once.
PhonesApart ==
    /\ \A p \in Phones : /\ phone[p].left # {} \/ phone[p].hand # Nil => phone[p].writes # Nil
                         /\ phone[p].hand \notin phone[p].left
                         /\ phone[p].writes \notin unsent
    /\ \A p, q \in Phones : p # q /\ phone[p].writes = phone[q].writes => phone[p].writes = Nil

\* A part the aggregator has not received yet ...
ToCome(part, l) ==
    \/ l \in unsent
    \/ \E p \in Phones : phone[p].writes = l /\ part \in phone[p].left \cup {phone[p].hand}

\* ... and one that it has released.
Gone(part, l) ==
    \/ release # <<>> /\ release[1][part] = l
    \/ \E n \in DOMAIN setting : setting[n].place[part] = l

PartsApart ==
    /\ \A part \in Parts, l \in Locations :
          /\ ToCome(part, l) => payload[part] # l /\ ~Gone(part, l)
          /\ payload[part] = l => ~Gone(part, l)
    /\ release # <<>> =>
          \A n \in DOMAIN setting : \A part \in Parts : setting[n].place[part] # release[1][part]

ApartInv == TypeInv /\ PhonesApart /\ PartsApart /\ NoPartTwice

LEMMA InitApart == Init => ApartInv
<1> SUFFICES ASSUME Init
             PROVE  ApartInv
  OBVIOUS
<1>1. PhonesApart
  BY LocationAssumption DEF Init, PhonesApart, Away
<1>2. PartsApart /\ NoPartTwice
  BY LocationAssumption DEF Init, PartsApart, Gone, NoPartTwice, Empty
<1> QED BY <1>1, <1>2, InitTyped DEF ApartInv

\* Less to come, and the same received and released: the parts stay apart.
LEMMA LessToCome ==
    ASSUME ApartInv, UNCHANGED <<payload, release, setting>>,
           \A part \in Parts, l \in Locations : ToCome(part, l)' => ToCome(part, l)
    PROVE  PartsApart' /\ NoPartTwice'
BY DEF ApartInv, PartsApart, Gone, NoPartTwice

LEMMA PhoneApart ==
    ASSUME ApartInv, NEW p \in Phones, PhoneStep(p)
    PROVE  PhonesApart' /\ PartsApart' /\ NoPartTwice'
<1>0. TypeOK /\ PhonesApart /\ UNCHANGED <<payload, release, setting>>
  BY DEF ApartInv, TypeInv, PhoneStep
<1> USE LocationAssumption
<1>1. CASE Begin(p)
  <2> PICK r : /\ Becomes(p, r) /\ r.writes \in unsent /\ unsent' = unsent \ {r.writes}
               /\ r.left = Parts /\ r.hand = Nil
    BY <1>0, <1>1, BeginShape
  <2>0. r.writes \in Locations /\ Nil \notin Parts
    BY <1>0 DEF TypeOK
  <2>1. PhonesApart'
    BY <1>0, <2>0 DEF PhonesApart, Becomes
  <2>2. \A part \in Parts, l \in Locations : ToCome(part, l)' => ToCome(part, l)
    BY <2>0 DEF ToCome, Becomes
  <2> QED BY <1>0, <2>1, <2>2, LessToCome
<1>2. CASE Come(p) \/ Write(p) \/ Leave(p)
  <2>1. unsent' = unsent
    BY <1>2 DEF Come, Write, Leave
  <2>2. PICK r : /\ Becomes(p, r) /\ r.writes = phone[p].writes
                 /\ r.left \subseteq phone[p].left /\ r.hand \notin r.left
                 /\ r.hand = phone[p].hand \/ r.hand \in phone[p].left
    <3>1. CASE Come(p)
      BY <1>0, <3>1, ComeShape DEF PhonesApart
    <3>2. CASE Write(p)
      BY <1>0, <3>2, WriteShape
    <3>3. CASE Leave(p)
      BY <1>0, <3>3, LeaveShape
    <3> QED BY <1>2, <3>1, <3>2, <3>3
  <2>3. PhonesApart'
    BY <1>0, <2>1, <2>2 DEF PhonesApart, Becomes
  <2>4. \A part \in Parts, l \in Locations : ToCome(part, l)' => ToCome(part, l)
    BY <2>1, <2>2 DEF ToCome, Becomes
  <2> QED BY <1>0, <2>3, <2>4, LessToCome
<1> QED BY <1>1, <1>2 DEF PhoneStep

LEMMA ReceiveApart ==
    ASSUME ApartInv, NEW p \in Phones, Receive(p)
    PROVE  PhonesApart' /\ PartsApart' /\ NoPartTwice'
<1>0. /\ TypeOK /\ PhonesApart /\ PartsApart /\ UNCHANGED <<unsent, release, setting>>
      /\ payload \in [Parts -> Locations \cup {Nil}]
  BY DEF ApartInv, TypeInv, Receive, TypeOK
<1> PICK r : /\ Becomes(p, r) /\ r.writes = phone[p].writes
             /\ r.left = phone[p].left /\ r.hand = Nil
  BY <1>0, ReceiveShape
<1> DEFINE part == phone[p].hand
           l == phone[p].writes
<1>1. /\ part \in Parts /\ part # Nil /\ l \in Locations /\ part \notin phone[p].left /\ l \notin unsent
      /\ payload' = [payload EXCEPT ![part] = l]
  BY <1>0, ReceiveShape, PhoneIs, LocationAssumption DEF PhonesApart
<1>2. Nil \notin Parts
  BY LocationAssumption
<1>3. PhonesApart'
  BY <1>0, <1>2, PhoneIs DEF PhonesApart, Becomes
<1>4. \A x \in Parts, y \in Locations : ToCome(x, y)' => ToCome(x, y) /\ ~(x = part /\ y = l)
  <2> SUFFICES ASSUME NEW x \in Parts, NEW y \in Locations, ToCome(x, y)'
               PROVE  ToCome(x, y) /\ ~(x = part /\ y = l)
    OBVIOUS
  <2>1. CASE y \in unsent
    BY <1>1, <2>1 DEF ToCome
  <2>2. CASE y \notin unsent
    <3> PICK q \in Phones : phone'[q].writes = y /\ x \in phone'[q].left \cup {phone'[q].hand}
      BY <1>0, <2>2 DEF ToCome
    <3>1. CASE q = p
      BY <1>1, <1>2, <3>1 DEF ToCome, Becomes
    <3>2. CASE q # p
      BY <1>0, <1>1, <3>2, LocationAssumption DEF ToCome, Becomes, PhonesApart
    <3> QED BY <3>1, <3>2
  <2> QED BY <2>1, <2>2
<1>5. ~Gone(part, l)
  BY <1>0, <1>1 DEF PartsApart, ToCome
<1>6. \A x \in Parts, y \in Locations : Gone(x, y)' <=> Gone(x, y)
  BY <1>0 DEF Gone
<1>7. \A x \in Parts : payload'[x] = IF x = part THEN l ELSE payload[x]
  BY <1>0, <1>1
<1> HIDE DEF part, l
<1>8. PartsApart'
  BY <1>0, <1>1, <1>4, <1>5, <1>6, <1>7 DEF PartsApart
<1>9. NoPartTwice'
  BY <1>0 DEF ApartInv, NoPartTwice
<1> QED BY <1>3, <1>8, <1>9

LEMMA ReleaseApart ==
    ASSUME ApartInv, Release
    PROVE  PhonesApart' /\ PartsApart' /\ NoPartTwice'
<1>0. /\ PhonesApart /\ PartsApart /\ NoPartTwice /\ UNCHANGED <<phone, unsent, setting>>
      /\ payload \in Places /\ release = <<>> /\ release' = <<payload>> /\ payload' = Empty
  BY ReleaseShape DEF ApartInv, Release, phoneVars
<1>1. PhonesApart' /\ NoPartTwice'
  BY <1>0 DEF PhonesApart, NoPartTwice
<1>2. \A part \in Parts, l \in Locations : ToCome(part, l)' <=> ToCome(part, l)
  BY <1>0 DEF ToCome
<1>3. \A part \in Parts, l \in Locations : Gone(part, l)' <=> Gone(part, l) \/ payload[part] = l
  BY <1>0 DEF Gone
<1>4. \A part \in Parts : payload'[part] = Nil /\ payload[part] \in Locations
  BY <1>0 DEF Empty, Places
<1>5. release'[1] = payload /\ \A n \in DOMAIN setting : \A part \in Parts : setting[n].place[part] # payload[part]
  BY <1>0, <1>4 DEF PartsApart, Gone
<1>6. PartsApart'
  BY <1>0, <1>2, <1>3, <1>4, <1>5, LocationAssumption DEF PartsApart
<1> QED BY <1>1, <1>6

LEMMA TakeApart ==
    ASSUME ApartInv, Take
    PROVE  PhonesApart' /\ PartsApart' /\ NoPartTwice'
<1>0. PhonesApart /\ PartsApart /\ NoPartTwice /\ TypeOK /\ UNCHANGED <<phone, unsent, payload>>
  BY DEF ApartInv, TypeInv, Take, phoneVars
<1> DEFINE new == Len(setting) + 1
<1>1. /\ release # <<>> /\ release' = <<>>
      /\ DOMAIN setting' = DOMAIN setting \cup {new} /\ new \notin DOMAIN setting
      /\ \A m \in DOMAIN setting : setting'[m] = setting[m]
      /\ setting'[new].place = release[1]
  BY <1>0, TakeShape
<1> HIDE DEF new
<1>2. PhonesApart'
  BY <1>0 DEF PhonesApart
<1>3. \A part \in Parts, l \in Locations : ToCome(part, l)' <=> ToCome(part, l)
  BY <1>0 DEF ToCome
<1>4. \A part \in Parts, l \in Locations : Gone(part, l)' <=> Gone(part, l)
  BY <1>1 DEF Gone
<1>5. PartsApart'
  BY <1>0, <1>1, <1>3, <1>4 DEF PartsApart
<1>6. NoPartTwice'
  BY <1>0, <1>1 DEF PartsApart, NoPartTwice
<1> QED BY <1>2, <1>5, <1>6

\* A handler that goes on leaves its place as it is.
LEMMA SettingApart ==
    ASSUME ApartInv, NEW n \in DOMAIN setting, SettingStep(n)
    PROVE  PhonesApart' /\ PartsApart' /\ NoPartTwice'
<1>0. /\ PhonesApart /\ PartsApart /\ NoPartTwice /\ setting \in Seq(Handlers)
      /\ UNCHANGED <<phone, unsent, payload, release>>
  BY DEF ApartInv, TypeInv, TypeOK, Handlers, SettingStep, phoneVars
<1>1. /\ DOMAIN setting' = DOMAIN setting
      /\ \A m \in DOMAIN setting : setting'[m].place = setting[m].place
  BY <1>0, SettingShape DEF SettingStep, CheckLocation, UpdateLocation, CopyLocation
<1>2. PhonesApart'
  BY <1>0 DEF PhonesApart
<1>3. /\ \A part \in Parts, l \in Locations : ToCome(part, l)' <=> ToCome(part, l)
      /\ \A part \in Parts, l \in Locations : Gone(part, l)' <=> Gone(part, l)
  BY <1>0, <1>1 DEF ToCome, Gone
<1>4. PartsApart' /\ NoPartTwice'
  BY <1>0, <1>1, <1>3 DEF PartsApart, NoPartTwice
<1> QED BY <1>2, <1>4

LEMMA StepApart == ApartInv /\ [Next]_vars => ApartInv'
<1> SUFFICES ASSUME ApartInv, [Next]_vars
             PROVE  PhonesApart' /\ PartsApart' /\ NoPartTwice'
  BY StepTyped DEF ApartInv
<1>1. ASSUME UNCHANGED <<phoneVars, payload, release, setting>>
      PROVE  PhonesApart' /\ PartsApart' /\ NoPartTwice'
  BY <1>1 DEF ApartInv, phoneVars, PhonesApart, PartsApart, ToCome, Gone, NoPartTwice
<1>2. ASSUME NEW p \in Phones, PhoneStep(p) \/ Receive(p)
      PROVE  PhonesApart' /\ PartsApart' /\ NoPartTwice'
  BY <1>2, PhoneApart, ReceiveApart
<1>3. CASE Release \/ Take
  BY <1>3, ReleaseApart, TakeApart
<1>4. ASSUME NEW n \in DOMAIN setting, SettingStep(n)
      PROVE  PhonesApart' /\ PartsApart' /\ NoPartTwice'
  BY <1>4, SettingApart
<1>5. CASE (\E p \in Pairings : PairingStep(p)) \/ LogIn \/ Shutdown \/ PairPanics \/ UNCHANGED vars
  BY <1>1, <1>5 DEF PairingStep, LogIn, Shutdown, PairPanics, vars
<1> QED BY <1>2, <1>3, <1>4, <1>5 DEF Next

\* No part that a phone wrote is in two places that the device is set to,
\* however many phones write at a time and in whatever order (Subscribe and
\* tryRelease of localnet/geo.go).
THEOREM PartsUsedOnce == Spec => []NoPartTwice
<1>1. ApartInv => NoPartTwice
  BY DEF ApartInv
<1> QED BY <1>1, InitApart, StepApart, PTL DEF Spec

--------------------------------------------------------------------------------
(* The refinement: LocationTether, in terms of who has a part.              *)

\* Fresh, a part at a time.
IsFresh(part, l) ==
    \/ \E p \in Phones : phone[p].hand = part /\ part # Nil /\ phone[p].writes = l
    \/ payload[part] = l /\ l # Nil
    \/ release # <<>> /\ release[1][part] = l
    \/ \E n \in Pending : setting[n].place[part] = l

Settled == {setting[n].place : n \in DOMAIN setting \ Pending}

FreshKnown ==
    /\ Fresh \subseteq Parts \X Locations
    /\ \A part \in Parts, l \in Locations : <<part, l>> \in Fresh <=> IsFresh(part, l)

LEMMA FreshIs == ApartInv => FreshKnown
<1> SUFFICES ASSUME ApartInv
             PROVE  FreshKnown
  OBVIOUS
<1>0. /\ TypeOK /\ PhonesApart /\ LocationAssumption
      /\ \A p \in Phones : phone[p].hand # Nil => phone[p].hand \in Parts /\ phone[p].writes \in Locations
  BY PhoneIs, LocationAssumption DEF ApartInv, TypeInv, PhonesApart
<1>1. \A part \in Parts : payload[part] \in Locations \cup {Nil}
  BY <1>0 DEF TypeOK
<1>2. {release[i] : i \in DOMAIN release} = IF release = <<>> THEN {} ELSE {release[1]}
  <2>1. DOMAIN release = 1..Len(release) /\ Len(release) \in Nat /\ Len(release) <= 1
    BY <1>0, LenProperties DEF TypeOK
  <2>2. CASE release = <<>>
    BY <2>2
  <2>3. CASE release # <<>>
    <3>1. Len(release) = 1
      BY <1>0, <2>1, <2>3, EmptySeq DEF TypeOK
    <3> QED BY <2>1, <2>3, <3>1
  <2> QED BY <2>2, <2>3
<1>3. Released \subseteq Places
  <2>1. release # <<>> => release[1] \in Places
    BY <1>0, EmptySeq, ElementOfSeq, LenProperties DEF TypeOK
  <2>2. \A n \in DOMAIN setting : setting[n].place \in Places
    <3>1. setting \in Seq(Handlers)
      BY <1>0 DEF TypeOK, Handlers
    <3>2. \A n \in DOMAIN setting : setting[n] \in Handlers
      BY <3>1, LenProperties, ElementOfSeq
    <3> QED BY <3>2 DEF Handlers
  <2> QED BY <1>2, <2>1, <2>2 DEF Released, Pending
<1>4. Released = (IF release = <<>> THEN {} ELSE {release[1]}) \cup {setting[n].place : n \in Pending}
  BY <1>2 DEF Released
<1>5. \A part \in Parts, l \in Locations :
          <<part, l>> \in UNION {{<<x, place[x]>> : x \in Parts} : place \in Released}
             <=> \E place \in Released : place[part] = l
  OBVIOUS
<1>6. Fresh \subseteq Parts \X Locations
  <2>1. {<<phone[p].hand, phone[p].writes>> : p \in {q \in Phones : phone[q].hand # Nil}}
           \subseteq Parts \X Locations
    BY <1>0
  <2>2. {<<part, payload[part]>> : part \in {q \in Parts : payload[q] # Nil}} \subseteq Parts \X Locations
    BY <1>1
  <2>3. UNION {{<<part, place[part]>> : part \in Parts} : place \in Released} \subseteq Parts \X Locations
    BY <1>3 DEF Places
  <2> QED BY <2>1, <2>2, <2>3 DEF Fresh
<1>7. ASSUME NEW part \in Parts, NEW l \in Locations
      PROVE  <<part, l>> \in Fresh <=> IsFresh(part, l)
  <2>1. <<part, l>> \in {<<phone[p].hand, phone[p].writes>> : p \in {q \in Phones : phone[q].hand # Nil}}
           <=> \E p \in Phones : phone[p].hand = part /\ phone[p].writes = l
    BY <1>0
  <2>2. <<part, l>> \in {<<x, payload[x]>> : x \in {q \in Parts : payload[q] # Nil}} <=> payload[part] = l
    BY <1>0
  <2>3. (\E place \in Released : place[part] = l)
           <=> \/ release # <<>> /\ release[1][part] = l
               \/ \E n \in Pending : setting[n].place[part] = l
    BY <1>4
  <2> QED BY <1>0, <1>5, <2>1, <2>2, <2>3 DEF Fresh, IsFresh
<1> QED BY <1>6, <1>7 DEF FreshKnown

LEMMA FreshIsNext == ApartInv' => FreshKnown'
BY FreshIs, PTL

\* Fresh is the same if what is fresh is the same.
LEMMA FreshSame ==
    ASSUME ApartInv, ApartInv',
           \A part \in Parts, l \in Locations : IsFresh(part, l)' <=> IsFresh(part, l)
    PROVE  Fresh' = Fresh
<1>1. \A part \in Parts, l \in Locations : <<part, l>> \in Fresh' <=> <<part, l>> \in Fresh
  BY FreshIs, FreshIsNext DEF FreshKnown
<1> QED BY <1>1, FreshIs, FreshIsNext DEF FreshKnown

LEMMA NothingSeen ==
    ASSUME Fresh' = Fresh, Settled' = Settled, power' = "off" <=> power = "off"
    PROVE  UNCHANGED Tether!vars
BY DEF Tether!vars, Settled

LEMMA InitMaps == Init => Tether!Init
<1> SUFFICES ASSUME Init
             PROVE  Tether!Init
  OBVIOUS
<1>1. ApartInv /\ power = "on" /\ Settled = {}
  BY InitApart DEF Init, Settled
<1>2. \A part \in Parts, l \in Locations : ~IsFresh(part, l)
  BY LocationAssumption DEF Init, IsFresh, Away, Empty, Pending
<1>3. Fresh = {}
  BY <1>1, <1>2, FreshIs DEF FreshKnown
<1> QED BY <1>1, <1>3 DEF Tether!Init, Settled

LEMMA PhoneMaps ==
    ASSUME ApartInv, ApartInv', NEW p \in Phones, PhoneStep(p)
    PROVE  Tether!Next \/ UNCHANGED Tether!vars
<1>0. TypeOK /\ PhonesApart /\ UNCHANGED <<payload, release, setting, power>>
  BY DEF ApartInv, TypeInv, PhoneStep
<1>1. Pending' = Pending /\ Settled' = Settled
  BY <1>0 DEF Pending, Settled
<1>2. CASE Write(p)
  <2> PICK r : /\ Becomes(p, r) /\ r.writes = phone[p].writes /\ r.hand \in phone[p].left
    BY <1>0, <1>2, WriteShape
  <2>1. /\ r.hand \in Parts /\ r.hand # Nil /\ r.writes \in Locations /\ phone[p].hand = Nil
    BY <1>0, <1>2, PhoneIs, WriteShape, LocationAssumption DEF PhonesApart
  <2>2. \A part \in Parts, l \in Locations :
            IsFresh(part, l)' <=> IsFresh(part, l) \/ (part = r.hand /\ l = r.writes)
    BY <1>0, <1>1, <2>1 DEF IsFresh, Becomes
  <2>3. Fresh' = Fresh \cup {<<r.hand, r.writes>>}
    <3>1. \A part \in Parts, l \in Locations :
              <<part, l>> \in Fresh' <=> <<part, l>> \in Fresh \cup {<<r.hand, r.writes>>}
      BY <2>2, FreshIs, FreshIsNext DEF FreshKnown
    <3> QED BY <2>1, <3>1, FreshIs, FreshIsNext DEF FreshKnown
  <2> QED BY <1>0, <1>1, <2>1, <2>3 DEF Tether!Next, Tether!Write, Settled
<1>3. CASE Come(p) \/ Begin(p) \/ Leave(p)
  <2>1. \E r : /\ Becomes(p, r) /\ r.hand = phone[p].hand
               /\ r.hand # Nil => r.writes = phone[p].writes
    BY <1>0, <1>3, ComeShape, BeginShape, LeaveShape
  <2>2. \A part \in Parts, l \in Locations : IsFresh(part, l)' <=> IsFresh(part, l)
    BY <1>0, <1>1, <2>1 DEF IsFresh, Becomes
  <2> QED BY <1>0, <1>1, <2>2, FreshSame, NothingSeen
<1> QED BY <1>2, <1>3 DEF PhoneStep

\* The part that is received takes the place of another one, or of none.
LEMMA ReceiveMaps ==
    ASSUME ApartInv, ApartInv', NEW p \in Phones, Receive(p)
    PROVE  Tether!Next \/ UNCHANGED Tether!vars
<1>0. /\ TypeOK /\ PhonesApart /\ PartsApart /\ UNCHANGED <<release, setting, power>>
      /\ payload \in [Parts -> Locations \cup {Nil}]
  BY DEF ApartInv, TypeInv, Receive, TypeOK
<1>1. Pending' = Pending /\ Settled' = Settled
  BY <1>0 DEF Pending, Settled
<1> PICK r : /\ Becomes(p, r) /\ r.writes = phone[p].writes /\ r.hand = Nil
  BY <1>0, ReceiveShape
<1> DEFINE part == phone[p].hand
           l == phone[p].writes
           old == payload[part]
<1>2. /\ part \in Parts /\ part # Nil /\ l \in Locations /\ old \in Locations \cup {Nil}
      /\ payload' = [payload EXCEPT ![part] = l]
  BY <1>0, ReceiveShape, PhoneIs, LocationAssumption DEF PhonesApart
<1>3. old # l
  BY <1>0, <1>2 DEF PartsApart, ToCome
<1>4. \A x \in Parts : payload'[x] = IF x = part THEN l ELSE payload[x]
  BY <1>0, <1>2
<1>5. \A x \in Parts, y \in Locations :
          IsFresh(x, y)' <=> IsFresh(x, y) /\ ~(x = part /\ y = old)
  <2> SUFFICES ASSUME NEW x \in Parts, NEW y \in Locations
               PROVE  IsFresh(x, y)' <=> IsFresh(x, y) /\ ~(x = part /\ y = old)
    OBVIOUS
  <2>1. (\E q \in Phones : phone'[q].hand = x /\ x # Nil /\ phone'[q].writes = y)
           <=> (\E q \in Phones \ {p} : phone[q].hand = x /\ x # Nil /\ phone[q].writes = y)
    BY DEF Becomes
  <2>2. CASE x = part /\ y = l
    BY <1>2, <1>3, <1>4, <2>2, LocationAssumption DEF IsFresh
  <2>3. CASE x = part /\ y = old
    <3>1. ~ToCome(x, y) /\ ~Gone(x, y)
      BY <1>0, <2>3 DEF PartsApart
    <3>2. \A q \in Phones : ~(phone[q].hand = x /\ phone[q].writes = y)
      BY <3>1 DEF ToCome
    <3>3. ~(release # <<>> /\ release[1][x] = y) /\ \A n \in Pending : setting[n].place[x] # y
      BY <3>1 DEF Gone, Pending
    <3> QED BY <1>0, <1>1, <1>3, <1>4, <2>1, <2>3, <3>2, <3>3 DEF IsFresh
  <2>4. CASE x # part
    BY <1>0, <1>1, <1>4, <2>1, <2>4 DEF IsFresh
  <2>5. CASE x = part /\ y # l /\ y # old
    BY <1>0, <1>1, <1>4, <2>1, <2>5 DEF IsFresh
  <2> QED BY <2>2, <2>3, <2>4, <2>5
<1>6. CASE old = Nil
  <2>1. \A x \in Parts, y \in Locations : IsFresh(x, y)' <=> IsFresh(x, y)
    BY <1>5, <1>6, LocationAssumption
  <2> QED BY <1>0, <1>1, <2>1, FreshSame, NothingSeen
<1>7. CASE old # Nil
  <2>1. Fresh' = Fresh \ {<<part, old>>}
    <3>1. \A x \in Parts, y \in Locations :
              <<x, y>> \in Fresh' <=> <<x, y>> \in Fresh \ {<<part, old>>}
      BY <1>5, FreshIs, FreshIsNext DEF FreshKnown
    <3> QED BY <3>1, FreshIs, FreshIsNext DEF FreshKnown
  <2>2. <<part, l>> \in Fresh
    BY <1>2, FreshIs DEF FreshKnown, IsFresh
  <2> QED BY <1>0, <1>1, <1>2, <1>3, <1>7, <2>1, <2>2 DEF Tether!Next, Tether!Replace, Settled
<1> QED BY <1>6, <1>7

LEMMA ReleaseMaps ==
    ASSUME ApartInv, ApartInv', Release
    PROVE  UNCHANGED Tether!vars
<1>0. /\ UNCHANGED <<phone, setting, power>>
      /\ payload \in Places /\ release = <<>> /\ release' = <<payload>> /\ payload' = Empty
  BY ReleaseShape DEF ApartInv, Release, phoneVars
<1>1. Pending' = Pending /\ Settled' = Settled
  BY <1>0 DEF Pending, Settled
<1>2. /\ \A part \in Parts : payload'[part] = Nil /\ payload[part] \in Locations
      /\ release' # <<>> /\ release'[1] = payload
  BY <1>0 DEF Empty, Places
<1>3. \A part \in Parts, l \in Locations : IsFresh(part, l)' <=> IsFresh(part, l)
  BY <1>0, <1>1, <1>2, LocationAssumption DEF IsFresh
<1> QED BY <1>0, <1>1, <1>3, FreshSame, NothingSeen

LEMMA TakeMaps ==
    ASSUME ApartInv, ApartInv', Take
    PROVE  UNCHANGED Tether!vars
<1>0. TypeOK /\ UNCHANGED <<phone, payload, power>>
  BY DEF ApartInv, TypeInv, Take, phoneVars
<1> DEFINE new == Len(setting) + 1
<1>1. /\ release # <<>> /\ release' = <<>>
      /\ DOMAIN setting' = DOMAIN setting \cup {new} /\ new \notin DOMAIN setting
      /\ \A m \in DOMAIN setting : setting'[m] = setting[m]
      /\ setting'[new].place = release[1] /\ setting'[new].pc = "check"
  BY <1>0, TakeShape
<1> HIDE DEF new
<1>2. Pending' = Pending \cup {new}
  BY <1>1 DEF Pending
<1>3. Settled' = Settled
  BY <1>1, <1>2 DEF Settled, Pending
<1>4. \A part \in Parts, l \in Locations : IsFresh(part, l)' <=> IsFresh(part, l)
  BY <1>0, <1>1, <1>2 DEF IsFresh, Pending
<1> QED BY <1>0, <1>3, <1>4, FreshSame, NothingSeen

\* A handler that is done with the ledger has settled its place.
LEMMA SettingMaps ==
    ASSUME ApartInv, ApartInv', NEW n \in DOMAIN setting, SettingStep(n)
    PROVE  Tether!Next \/ UNCHANGED Tether!vars
<1>0. /\ PartsApart /\ NoPartTwice /\ setting \in Seq(Handlers)
      /\ UNCHANGED <<phone, payload, release, power>>
  BY DEF ApartInv, TypeInv, TypeOK, Handlers, SettingStep, phoneVars
<1>1. /\ DOMAIN setting' = DOMAIN setting
      /\ \A m \in DOMAIN setting : /\ setting'[m].place = setting[m].place
                                   /\ setting[m].place \in Places
                                   /\ m # n => setting'[m] = setting[m]
  BY <1>0, SettingShape DEF SettingStep, CheckLocation, UpdateLocation, CopyLocation
<1>2. CASE n \in Pending /\ n \notin Pending'
  <2> PICK place \in Places : place = setting[n].place
    BY <1>1
  <2>1. place \in Places /\ Pending' = Pending \ {n} /\ Settled' = Settled \cup {place}
    BY <1>1, <1>2 DEF Pending, Settled
  <2>2. ASSUME NEW part \in Parts, NEW l \in Locations
        PROVE  IsFresh(part, l)' <=> IsFresh(part, l) /\ place[part] # l
    <3>1. CASE place[part] = l
      <4>1. Gone(part, l)
        BY <3>1 DEF Gone
      <4>2. payload[part] # l /\ ~ToCome(part, l) /\ ~(release # <<>> /\ release[1][part] = l)
        BY <1>0, <3>1, <4>1 DEF PartsApart
      <4>3. \A m \in Pending \ {n} : setting[m].place[part] # l
        BY <1>0, <3>1 DEF NoPartTwice, Pending
      <4>4. \A q \in Phones : ~(phone[q].hand = part /\ phone[q].writes = l)
        BY <4>2 DEF ToCome
      <4> QED BY <1>0, <1>1, <2>1, <3>1, <4>2, <4>3, <4>4 DEF IsFresh, Pending
    <3>2. CASE place[part] # l
      BY <1>0, <1>1, <2>1, <3>2 DEF IsFresh, Pending
    <3> QED BY <3>1, <3>2
  <2>3. Tether!Of(place) = {<<part, place[part]>> : part \in Parts}
    BY DEF Tether!Of
  <2>4. Tether!Of(place) \subseteq Fresh
    <3>1. \A part \in Parts : IsFresh(part, place[part]) /\ place[part] \in Locations
      BY <1>2, <2>1 DEF IsFresh, Places
    <3> QED BY <2>3, <3>1, FreshIs DEF FreshKnown
  <2>5. Fresh' = Fresh \ Tether!Of(place)
    <3>1. \A part \in Parts, l \in Locations :
              <<part, l>> \in Tether!Of(place) <=> place[part] = l
      BY <2>3
    <3>2. \A part \in Parts, l \in Locations :
              <<part, l>> \in Fresh' <=> <<part, l>> \in Fresh \ Tether!Of(place)
      BY <2>2, <3>1, FreshIs, FreshIsNext DEF FreshKnown
    <3> QED BY <3>2, FreshIs, FreshIsNext DEF FreshKnown
  <2>6. place \in Tether!Places
    BY <2>1 DEF Tether!Places, Places
  <2>7. Tether!Settle(place)
    <3>1. {setting[m].place : m \in DOMAIN setting \ Pending}'
             = {setting[m].place : m \in DOMAIN setting \ Pending} \cup {place}
      BY Zenon, <2>1 DEF Settled
    <3>2. (power # "off")' = (power # "off")
      BY <1>0
    <3> QED BY Zenon, <2>4, <2>5, <3>1, <3>2 DEF Tether!Settle
  <2> QED BY <2>6, <2>7 DEF Tether!Next, Tether!SettleSome
<1>3. CASE n \in Pending <=> n \in Pending'
  <2>1. Pending' = Pending /\ Settled' = Settled
    BY <1>1, <1>3 DEF Pending, Settled
  <2>2. \A part \in Parts, l \in Locations : IsFresh(part, l)' <=> IsFresh(part, l)
    BY <1>0, <1>1, <2>1 DEF IsFresh, Pending
  <2> QED BY <1>0, <2>1, <2>2, FreshSame, NothingSeen
<1>4. n \in Pending' => n \in Pending
  BY <1>0, SettingShape DEF SettingStep, CheckLocation, UpdateLocation, CopyLocation, Pending
<1> QED BY <1>2, <1>3, <1>4

LEMMA RestMaps ==
    ASSUME ApartInv, ApartInv', UNCHANGED <<phoneVars, payload, release, setting>>
    PROVE  Fresh' = Fresh /\ Settled' = Settled
<1>1. \A part \in Parts, l \in Locations : IsFresh(part, l)' <=> IsFresh(part, l)
  BY DEF IsFresh, Pending, phoneVars
<1> QED BY <1>1, FreshSame DEF Settled, Pending

LEMMA StepMaps == ApartInv /\ ApartInv' /\ [Next]_vars => [Tether!Next]_Tether!vars
<1> SUFFICES ASSUME ApartInv, ApartInv', [Next]_vars
             PROVE  Tether!Next \/ UNCHANGED Tether!vars
  OBVIOUS
<1>1. ASSUME NEW p \in Phones, PhoneStep(p) \/ Receive(p)
      PROVE  Tether!Next \/ UNCHANGED Tether!vars
  BY <1>1, PhoneMaps, ReceiveMaps
<1>2. CASE Release \/ Take
  BY <1>2, ReleaseMaps, TakeMaps
<1>3. ASSUME NEW n \in DOMAIN setting, SettingStep(n)
      PROVE  Tether!Next \/ UNCHANGED Tether!vars
  BY <1>3, SettingMaps
<1>4. CASE (\E p \in Pairings : PairingStep(p)) \/ LogIn \/ UNCHANGED vars
  <2>1. UNCHANGED <<phoneVars, payload, release, setting, power>>
    BY <1>4 DEF PairingStep, LogIn, vars
  <2> QED BY <2>1, RestMaps, NothingSeen
<1>5. CASE Shutdown \/ PairPanics
  <2>1. Fresh' = Fresh /\ Settled' = Settled /\ power # "off"
    BY <1>5, RestMaps DEF Shutdown, PairPanics
  <2>2. CASE power' = "off"
    BY <2>1, <2>2 DEF Tether!Next, Tether!Close, Settled
  <2>3. CASE power' # "off"
    BY <2>1, <2>3, NothingSeen
  <2> QED BY <2>2, <2>3
<1> QED BY <1>1, <1>2, <1>3, <1>4, <1>5 DEF Next

\* The Bluetooth channel is a register of parts that settles places, for any
\* phones and locations: what a phone wrote is fresh until a newer part of its
\* kind replaces it or it is settled, in one place (localnet/geo.go and
\* location_manager.go).  That it settles them in the end is left to TLC.
THEOREM Implements == Spec => Tether!Spec
<1> QED BY InitApart, StepApart, InitMaps, StepMaps, PTL DEF Spec, Tether!Spec

--------------------------------------------------------------------------------
(* Places are whole as long as phones write one after the other.            *)

Whole(place) == \E l \in Locations : place = [part \in Parts |-> l]

\* The parts of a phone's location that the aggregator has not received.
Todo(p) == phone[p].left \cup ({phone[p].hand} \ {Nil})

OneWrites == \A p, q \in Phones : Busy(p) /\ Busy(q) => p = q

\* The payload is what the phone that is busy has handed over so far; or it is
\* all of the location before, which waits to be released.
PayloadOfOne ==
    /\ full => Whole(payload) /\ \A p \in Phones : Busy(p) => Todo(p) = Parts
    /\ ~full =>
          /\ \A p \in Phones : Busy(p) =>
                \A part \in Parts :
                    payload[part] = IF part \in Todo(p) THEN Nil ELSE phone[p].writes
          /\ (\A p \in Phones : ~Busy(p)) => \A part \in Parts : payload[part] = Nil

GoneWhole ==
    /\ release # <<>> => Whole(release[1])
    /\ \A n \in DOMAIN setting : Whole(setting[n].place)
    /\ ledger # Nil => Whole(ledger)

\* The inductive invariant.
WholeInv == ApartInv /\ (~broken => OneWrites /\ PayloadOfOne /\ GoneWhole)

LEMMA InitWhole == Init => WholeInv
<1> SUFFICES ASSUME Init
             PROVE  WholeInv
  OBVIOUS
<1>1. \A p \in Phones : ~Busy(p)
  BY DEF Init, Away, Busy
<1>2. OneWrites /\ PayloadOfOne
  BY <1>1 DEF Init, OneWrites, PayloadOfOne, Empty
<1>3. GoneWhole
  BY DEF Init, GoneWhole
<1> QED BY <1>2, <1>3, InitApart DEF WholeInv

\* A phone that goes on with what it writes: who is busy and what is to come is
\* as before.
LEMMA SameTodo ==
    ASSUME TypeOK, NEW p \in Phones, NEW r, Becomes(p, r), r.writes = phone[p].writes,
           \/ r.left = phone[p].left /\ r.hand = phone[p].hand
           \/ /\ phone[p].hand = Nil /\ r.hand \in phone[p].left
              /\ r.left = phone[p].left \ {r.hand}
    PROVE  \A q \in Phones : /\ Busy(q)' <=> Busy(q)
                             /\ Todo(q)' = Todo(q) /\ phone'[q].writes = phone[q].writes
<1>1. phone[p].left \subseteq Parts /\ Nil \notin Parts
  BY PhoneIs, LocationAssumption
<1>2. /\ Busy(p)' <=> Busy(p)
      /\ Todo(p)' = Todo(p) /\ phone'[p].writes = phone[p].writes
  BY <1>1 DEF Becomes, Busy, Todo
<1>3. \A q \in Phones \ {p} : /\ Busy(q)' <=> Busy(q)
                              /\ Todo(q)' = Todo(q) /\ phone'[q].writes = phone[q].writes
  BY DEF Becomes, Busy, Todo
<1> QED BY <1>2, <1>3

\* The invariant sees of the phones no more than that.
LEMMA SameWhole ==
    ASSUME OneWrites, PayloadOfOne, UNCHANGED <<payload, full>>,
           \A q \in Phones : /\ Busy(q)' <=> Busy(q)
                             /\ Todo(q)' = Todo(q) /\ phone'[q].writes = phone[q].writes
    PROVE  OneWrites' /\ PayloadOfOne'
<1>1. OneWrites'
  BY DEF OneWrites
<1>2. PayloadOfOne'
  BY DEF PayloadOfOne, Whole
<1> QED BY <1>1, <1>2

LEMMA BeginWhole ==
    ASSUME TypeOK, OneWrites, PayloadOfOne, UNCHANGED <<payload, full>>,
           NEW p \in Phones, Begin(p), \A q \in Phones : ~Busy(q)
    PROVE  OneWrites' /\ PayloadOfOne'
<1> PICK r : Becomes(p, r) /\ r.left = Parts /\ r.hand = Nil
  BY BeginShape
<1>1. Busy(p)' /\ Todo(p)' = Parts
  BY DEF Becomes, Busy, Todo, Parts
<1>2. \A q \in Phones \ {p} : ~Busy(q)'
  BY DEF Becomes, Busy
<1>3. OneWrites'
  BY <1>2 DEF OneWrites
<1>4. PayloadOfOne'
  BY <1>1, <1>2 DEF PayloadOfOne, Whole
<1> QED BY <1>3, <1>4

LEMMA PhoneWhole ==
    ASSUME WholeInv, NEW p \in Phones, PhoneStep(p), ~broken'
    PROVE  OneWrites' /\ PayloadOfOne' /\ GoneWhole'
<1>0. TypeOK /\ UNCHANGED <<payload, full, release, setting, ledger>>
  BY DEF WholeInv, ApartInv, TypeInv, PhoneStep, deviceVars
<1>1. ~broken
  BY DEF PhoneStep, Come, Begin, Write, Leave
<1>2. OneWrites /\ PayloadOfOne /\ GoneWhole
  BY <1>1 DEF WholeInv
<1>3. GoneWhole'
  BY <1>0, <1>2 DEF GoneWhole, Whole
<1>4. CASE Begin(p)
  <2>1. \A q \in Phones : ~Busy(q)
    BY <1>4 DEF Begin
  <2> QED BY <1>0, <1>2, <1>3, <1>4, <2>1, BeginWhole
<1>5. CASE Come(p) \/ Write(p) \/ Leave(p)
  <2>1. PICK r : /\ Becomes(p, r) /\ r.writes = phone[p].writes
                 /\ \/ r.left = phone[p].left /\ r.hand = phone[p].hand
                    \/ /\ phone[p].hand = Nil /\ r.hand \in phone[p].left
                       /\ r.left = phone[p].left \ {r.hand}
    <3>1. CASE Come(p)
      BY <1>0, <3>1, ComeShape
    <3>2. CASE Write(p)
      BY <1>0, <3>2, WriteShape
    <3>3. CASE Leave(p)
      <4>1. phone[p].left = {}
        BY <3>3 DEF Leave
      <4> QED BY <1>0, <3>3, <4>1, LeaveShape
    <3> QED BY <1>5, <3>1, <3>2, <3>3
  <2>2. \A q \in Phones : /\ Busy(q)' <=> Busy(q)
                          /\ Todo(q)' = Todo(q) /\ phone'[q].writes = phone[q].writes
    BY <1>0, <2>1, SameTodo
  <2> QED BY <1>0, <1>2, <1>3, <2>2, SameWhole
<1> QED BY <1>4, <1>5 DEF PhoneStep

LEMMA ReceiveWhole ==
    ASSUME WholeInv, NEW p \in Phones, Receive(p), ~broken'
    PROVE  OneWrites' /\ PayloadOfOne' /\ GoneWhole'
<1>0. TypeOK /\ PhonesApart /\ UNCHANGED <<broken, release, setting, ledger>>
  BY DEF WholeInv, ApartInv, TypeInv, Receive, deviceVars
<1>1. OneWrites /\ PayloadOfOne /\ GoneWhole
  BY <1>0 DEF WholeInv
<1>2. GoneWhole'
  BY <1>0, <1>1 DEF GoneWhole, Whole
<1> PICK r : /\ Becomes(p, r) /\ r.writes = phone[p].writes
             /\ r.left = phone[p].left /\ r.hand = Nil
  BY <1>0, ReceiveShape
<1> DEFINE part == phone[p].hand
           l == phone[p].writes
           left == phone[p].left
<1>3. /\ part \in Parts /\ part # Nil /\ l \in Locations /\ l # Nil
      /\ part \notin left /\ left \subseteq Parts /\ Nil \notin Parts
  BY <1>0, ReceiveShape, PhoneIs, LocationAssumption DEF PhonesApart
<1>4. Busy(p) /\ Todo(p) = left \cup {part}
  BY <1>3 DEF Busy, Todo
<1>5. \A q \in Phones \ {p} : ~Busy(q) /\ ~Busy(q)'
  BY <1>1, <1>4 DEF OneWrites, Becomes, Busy
<1>6. (Busy(p)' <=> left # {}) /\ Todo(p)' = left /\ phone'[p].writes = l
  BY <1>3 DEF Becomes, Busy, Todo
<1>7. ~full /\ payload' = [payload EXCEPT ![part] = l] /\ full' = Complete(payload')
  BY DEF Receive
<1>8. \A x \in Parts : payload'[x] = IF x \in left THEN Nil ELSE l
  BY <1>0, <1>1, <1>3, <1>4, <1>7 DEF PayloadOfOne, TypeOK
<1>9. DOMAIN payload' = Parts /\ payload' = [x \in DOMAIN payload' |-> payload'[x]]
  BY <1>0, <1>7 DEF TypeOK
<1> HIDE DEF part, l, left
<1>10. full' <=> left = {}
  BY <1>3, <1>7, <1>8 DEF Complete
<1>11. OneWrites'
  BY <1>5 DEF OneWrites
<1>12. CASE left = {}
  <2>1. payload' = [x \in Parts |-> l]
    BY <1>8, <1>9, <1>12
  <2>2. Whole(payload)'
    BY <1>3, <2>1 DEF Whole
  <2>3. \A q \in Phones : ~Busy(q)'
    BY <1>5, <1>6, <1>12
  <2>4. PayloadOfOne'
    BY <1>10, <1>12, <2>2, <2>3 DEF PayloadOfOne
  <2> QED BY <1>2, <1>11, <2>4
<1>13. CASE left # {}
  <2>1. PayloadOfOne'
    BY <1>5, <1>6, <1>8, <1>10, <1>13 DEF PayloadOfOne
  <2> QED BY <1>2, <1>11, <2>1
<1> QED BY <1>12, <1>13

LEMMA ReleaseWhole ==
    ASSUME WholeInv, Release, ~broken'
    PROVE  OneWrites' /\ PayloadOfOne' /\ GoneWhole'
<1>0. /\ OneWrites /\ PayloadOfOne /\ GoneWhole /\ full /\ ~full'
      /\ UNCHANGED <<phone, setting, ledger>>
      /\ release' = <<payload>> /\ payload' = Empty
  BY ReleaseShape DEF Release, phoneVars, deviceVars, WholeInv, ApartInv
<1>1. \A p \in Phones : /\ Busy(p)' <=> Busy(p)
                        /\ Todo(p)' = Todo(p)
  BY <1>0 DEF Busy, Todo
<1>2. OneWrites'
  BY <1>0, <1>1 DEF OneWrites
<1>3. PayloadOfOne'
  BY <1>0, <1>1 DEF PayloadOfOne, Empty
<1>4. GoneWhole'
  BY <1>0 DEF PayloadOfOne, GoneWhole, Whole
<1> QED BY <1>2, <1>3, <1>4

\* A step that the phones and the aggregator do not see.
LEMMA AsideWhole ==
    ASSUME OneWrites, PayloadOfOne, UNCHANGED <<phone, payload, full>>
    PROVE  OneWrites' /\ PayloadOfOne'
<1>1. \A q \in Phones : /\ Busy(q)' <=> Busy(q)
                        /\ Todo(q)' = Todo(q) /\ phone'[q].writes = phone[q].writes
  BY DEF Busy, Todo
<1> QED BY <1>1, SameWhole

LEMMA TakeWhole ==
    ASSUME WholeInv, Take, ~broken'
    PROVE  OneWrites' /\ PayloadOfOne' /\ GoneWhole'
<1>0. /\ TypeOK /\ OneWrites /\ PayloadOfOne /\ GoneWhole
      /\ UNCHANGED <<phone, payload, full, ledger>>
  BY DEF Take, phoneVars, deviceVars, WholeInv, ApartInv, TypeInv
<1> DEFINE new == Len(setting) + 1
<1>1. /\ release # <<>> /\ release' = <<>>
      /\ DOMAIN setting' = DOMAIN setting \cup {new}
      /\ \A m \in DOMAIN setting : setting'[m] = setting[m]
      /\ setting'[new].place = release[1]
  BY <1>0, TakeShape
<1> HIDE DEF new
<1>2. GoneWhole'
  BY <1>0, <1>1 DEF GoneWhole, Whole
<1> QED BY <1>0, <1>2, AsideWhole

LEMMA SettingWhole ==
    ASSUME WholeInv, NEW n \in DOMAIN setting, SettingStep(n), ~broken'
    PROVE  OneWrites' /\ PayloadOfOne' /\ GoneWhole'
<1>0. /\ setting \in Seq(Handlers) /\ OneWrites /\ PayloadOfOne /\ GoneWhole
      /\ UNCHANGED <<phone, payload, full, release>>
  BY DEF SettingStep, phoneVars, WholeInv, ApartInv, TypeInv, TypeOK, Handlers
<1>1. /\ DOMAIN setting' = DOMAIN setting
      /\ \A m \in DOMAIN setting : setting'[m].place = setting[m].place
  BY <1>0, SettingShape DEF SettingStep, CheckLocation, UpdateLocation, CopyLocation
<1>2. ledger' = ledger \/ ledger' = setting[n].place
  BY DEF SettingStep, CheckLocation, UpdateLocation, CopyLocation
<1>3. \A m \in DOMAIN setting : Whole(setting[m].place)
  BY <1>0 DEF GoneWhole
<1>4. ledger' # Nil => Whole(ledger)'
  <2>1. CASE ledger' = ledger
    BY <1>0, <2>1 DEF GoneWhole, Whole
  <2>2. CASE ledger' = setting[n].place
    <3>1. PICK l \in Locations : setting[n].place = [part \in Parts |-> l]
      BY <1>3 DEF Whole
    <3> QED BY <2>2, <3>1 DEF Whole
  <2> QED BY <1>2, <2>1, <2>2
<1>5. \A m \in DOMAIN setting' : Whole(setting'[m].place)
  BY <1>1, <1>3
<1>6. GoneWhole'
  BY <1>0, <1>4, <1>5 DEF GoneWhole, Whole
<1> QED BY <1>0, <1>6, AsideWhole

LEMMA StepWhole == WholeInv /\ [Next]_vars => WholeInv'
<1> SUFFICES ASSUME WholeInv, [Next]_vars, ~broken'
             PROVE  OneWrites' /\ PayloadOfOne' /\ GoneWhole'
  BY StepApart DEF WholeInv
<1>1. ASSUME UNCHANGED <<phoneVars, payload, full, release, setting, ledger>>
      PROVE  OneWrites' /\ PayloadOfOne' /\ GoneWhole'
  <2>1. OneWrites /\ PayloadOfOne /\ GoneWhole
    BY <1>1 DEF WholeInv, phoneVars
  <2>2. GoneWhole'
    BY <1>1, <2>1 DEF GoneWhole, Whole
  <2> QED BY <1>1, <2>1, <2>2, AsideWhole DEF phoneVars
<1>2. ASSUME NEW p \in Phones, PhoneStep(p) \/ Receive(p)
      PROVE  OneWrites' /\ PayloadOfOne' /\ GoneWhole'
  BY <1>2, PhoneWhole, ReceiveWhole
<1>3. CASE Release \/ Take
  BY <1>3, ReleaseWhole, TakeWhole
<1>4. ASSUME NEW n \in DOMAIN setting, SettingStep(n)
      PROVE  OneWrites' /\ PayloadOfOne' /\ GoneWhole'
  BY <1>4, SettingWhole
<1>5. CASE (\E p \in Pairings : PairingStep(p)) \/ LogIn \/ Shutdown \/ PairPanics \/ UNCHANGED vars
  BY <1>1, <1>5 DEF PairingStep, LogIn, Shutdown, PairPanics, deviceVars, vars
<1> QED BY <1>2, <1>3, <1>4, <1>5 DEF Next

\* As long as phones write one after the other and to the end, the ledger has the
\* device where one of them says: however many phones and locations there are,
\* whatever order the parts arrive in and however long places wait to be set.
THEOREM SetWhole == Spec => []PlacesAreWhole
<1>1. WholeInv => PlacesAreWhole
  BY DEF WholeInv, GoneWhole, Whole, PlacesAreWhole
<1> QED BY <1>1, InitWhole, StepWhole, PTL DEF Spec

================================================================================
