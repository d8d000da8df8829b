---------------------------- MODULE LifecycleProofs ----------------------------
(***************************************************************************)
(* Theorems about Lifecycle, for every set of identities and modules: type *)
(* correctness, that a module is started once, and that the device is      *)
(* logged in as what is on its disk.                                       *)
(***************************************************************************)
EXTENDS Lifecycle, TLAPS

--------------------------------------------------------------------------------
(* Types, with what they rest on: whoever uses the copy or the record he    *)
(* holds has one.                                                           *)

UsesCopy == {"announce", "specs", "specsCopy"}

RecordsThere ==
    /\ life.pc = "logIn" => life.held \in Records
    /\ life.pc \in UsesCopy => Logged
    /\ \A i \in Ids : handler[i] \in UsesCopy => Logged
    /\ bye = "telling" => Logged

TypeInv == TypeOK /\ RecordsThere

ProcessTyped == /\ scenario \in Scenarios
                /\ power \in {"off", "on", "closing", "gone"} /\ boots \in 0..MaxBoots
                /\ reports \in 0..MaxReports
                /\ bye \in {"none", "unlogged", "conflict", "telling", "told", "failed"}
LedgerTyped  == ledger \in [Ids -> States \cup {Nil, Gone}] /\ file \in Ids \cup {Absent, Blank}
CopyTyped    == copy \in Records \cup {Nil} /\ news \subseteq Records
LifeTyped    == life \in [pc : LifePCs, held : Records \cup {Nil}] /\ handler \in [Ids -> HandlerPCs]
ModulesTyped == /\ module \in [Modules -> {"off", "look", "subscribe", "wait", "running"}]
                /\ looks \in [Modules -> 0..Attempts] /\ calls \in [Modules -> Nat]
                /\ once \in [Modules -> {"fresh", "spent"}] /\ starting \in [Modules -> Nat]
                /\ subscription \in [Modules -> {"none", "unnamed", "named"}]
                /\ called \subseteq Modules /\ starts \in [Modules -> Nat]
ResetsTyped  == hearsReset \in BOOLEAN /\ resets \in BOOLEAN

LEMMA TypeParts ==
    TypeOK <=> /\ ProcessTyped /\ LedgerTyped /\ CopyTyped /\ LifeTyped /\ ModulesTyped /\ ResetsTyped
BY Zenon DEF TypeOK, ProcessTyped, LedgerTyped, CopyTyped, LifeTyped, ModulesTyped, ResetsTyped

LEMMA TypePartsNext ==
    TypeOK' <=> /\ ProcessTyped' /\ LedgerTyped' /\ CopyTyped' /\ LifeTyped' /\ ModulesTyped'
                /\ ResetsTyped'
BY Zenon DEF TypeOK, ProcessTyped, LedgerTyped, CopyTyped, LifeTyped, ModulesTyped, ResetsTyped

LEMMA PartsKept ==
    ASSUME TypeOK
    PROVE  /\ UNCHANGED <<scenario, power, boots, reports, bye>> => ProcessTyped'
           /\ UNCHANGED <<ledger, file>> => LedgerTyped'
           /\ UNCHANGED <<copy, news>> => CopyTyped'
           /\ UNCHANGED <<life, handler>> => LifeTyped'
           /\ UNCHANGED moduleVars => ModulesTyped'
           /\ UNCHANGED <<hearsReset, resets>> => ResetsTyped'
<1> USE TypeParts
<1>1. UNCHANGED <<scenario, power, boots, reports, bye>> => ProcessTyped'
  BY Zenon DEF ProcessTyped
<1>2. UNCHANGED <<ledger, file>> => LedgerTyped'
  BY Zenon DEF LedgerTyped
<1>3. UNCHANGED <<copy, news>> => CopyTyped'
  BY Zenon DEF CopyTyped
<1>4. UNCHANGED <<life, handler>> => LifeTyped'
  BY Zenon DEF LifeTyped
<1>5. UNCHANGED moduleVars => ModulesTyped'
  BY Zenon DEF moduleVars, ModulesTyped
<1>6. UNCHANGED <<hearsReset, resets>> => ResetsTyped'
  BY Zenon DEF ResetsTyped
<1> QED BY <1>1, <1>2, <1>3, <1>4, <1>5, <1>6

LEMMA InitTyped == Init => TypeInv
<1> SUFFICES ASSUME Init
             PROVE  TypeInv
  OBVIOUS
<1>1. ProcessTyped /\ LedgerTyped /\ CopyTyped
  BY LifecycleAssumption DEF Init, ProcessTyped, LedgerTyped, CopyTyped, States
<1>2. LifeTyped
  BY DEF Init, LifeTyped, LifePCs, HandlerPCs
<1>3. ModulesTyped
  BY LifecycleAssumption DEF Init, ModulesTyped
<1>4. ResetsTyped
  BY Zenon DEF Init, ResetsTyped
<1>5. RecordsThere
  BY DEF Init, RecordsThere, UsesCopy
<1> QED BY <1>1, <1>2, <1>3, <1>4, <1>5, TypeParts DEF TypeInv

\* A process that has just begun, or that is no more.
LEMMA FreshTyped ==
    ASSUME TypeInv, NEW at \in {"off", "check"}, Fresh(at), bye' = "none",
           power' \in {"off", "on"}, boots' \in 0..MaxBoots, UNCHANGED <<scenario, reports, ledger, file>>
    PROVE  TypeInv'
<1>0. TypeOK
  BY DEF TypeInv
<1>1. ProcessTyped'
  BY <1>0 DEF TypeOK, ProcessTyped
<1>2. LifeTyped'
  BY DEF Fresh, LifeTyped, LifePCs, HandlerPCs
<1>3. ModulesTyped'
  BY LifecycleAssumption DEF Fresh, ModulesTyped
<1>4. ResetsTyped'
  BY Zenon DEF Fresh, ResetsTyped
<1>5. CopyTyped'
  BY DEF Fresh, CopyTyped
<1>6. RecordsThere'
  BY DEF Fresh, RecordsThere, UsesCopy
<1> QED BY <1>0, <1>1, <1>2, <1>3, <1>4, <1>5, <1>6, PartsKept, TypePartsNext DEF TypeInv

LEMMA ProcessSteps ==
    ASSUME TypeInv, Boot \/ Dies
    PROVE  TypeInv'
<1>1. CASE Boot
  <2>1. boots' \in 0..MaxBoots
    BY <1>1, LifecycleAssumption DEF Boot, TypeInv, TypeOK
  <2> QED BY <1>1, <2>1, FreshTyped DEF Boot
<1>2. CASE Dies
  BY <1>2, FreshTyped DEF Dies, TypeInv, TypeOK
<1> QED BY <1>1, <1>2

\* What Publish sets.
LEMMA PublishTyped ==
    ASSUME TypeOK, NEW i \in Ids, NEW s \in States, Publish(i, s), UNCHANGED file
    PROVE  LedgerTyped' /\ news' \subseteq Records
<1>1. [id |-> i, state |-> s] \in Records
  BY DEF Records
<1>2. news' \subseteq Records
  BY <1>1 DEF Publish, TypeOK
<1>3. LedgerTyped'
  BY DEF Publish, TypeOK, LedgerTyped
<1> QED BY <1>2, <1>3

LEMMA CopyIs ==
    ASSUME TypeOK, Logged
    PROVE  copy \in Records /\ copy.id \in Ids /\ copy.state \in States
BY DEF TypeOK, Logged, Records

LEMMA InsertTyped ==
    ASSUME TypeInv, NEW i \in Ids, Insert(i)
    PROVE  TypeInv'
<1>0. TypeOK /\ RecordsThere
  BY DEF TypeInv
<1>1. LedgerTyped'
  BY <1>0 DEF Insert, TypeOK, LedgerTyped, States
<1>2. LifeTyped'
  BY <1>0 DEF Insert, TypeOK, LifeTyped, HandlerPCs
<1>3. UNCHANGED <<scenario, power, boots, reports, file, copy, life, hearsReset, moduleVars, news, resets, bye>>
  BY DEF Insert
<1>4. RecordsThere'
  <2>1. \A j \in Ids : handler'[j] = handler[j] \/ handler'[j] = "create"
    BY <1>0 DEF Insert, TypeOK
  <2> QED BY <1>0, <1>3, <2>1 DEF RecordsThere, Logged, UsesCopy
<1> QED BY <1>0, <1>1, <1>2, <1>3, <1>4, PartsKept, TypePartsNext DEF TypeInv

LEMMA RemoveTyped ==
    ASSUME TypeInv, NEW i \in Ids, Remove(i)
    PROVE  TypeInv'
<1>0. TypeOK /\ RecordsThere
  BY DEF TypeInv
<1>1. LedgerTyped'
  BY <1>0 DEF Remove, TypeOK, LedgerTyped
<1>2. UNCHANGED <<scenario, power, boots, reports, file, copy, lifeVars, moduleVars, news, bye>>
  BY DEF Remove
<1>3. ResetsTyped'
  <2>1. resets' \in BOOLEAN
    BY Zenon, <1>0 DEF Remove, TypeOK
  <2> QED BY Zenon, <1>0, <1>2, <2>1 DEF lifeVars, ResetsTyped, TypeOK
<1>4. RecordsThere'
  BY <1>0, <1>2 DEF RecordsThere, lifeVars, Logged
<1> QED BY <1>0, <1>1, <1>2, <1>3, <1>4, PartsKept, TypePartsNext DEF TypeInv, lifeVars

LEMMA ReportTyped ==
    ASSUME TypeInv, NEW i \in Ids, Report(i)
    PROVE  TypeInv'
<1>0. TypeOK /\ RecordsThere
  BY DEF TypeInv
<1>1. LedgerTyped' /\ news' \subseteq Records
  BY <1>0, PublishTyped DEF Report, Present
<1>2. UNCHANGED <<scenario, power, boots, copy, lifeVars, moduleVars, resets, bye>>
  BY DEF Report
<1>3. ProcessTyped'
  BY <1>0, <1>2, LifecycleAssumption DEF Report, ProcessTyped, TypeOK
<1>4. CopyTyped'
  BY <1>0, <1>1, <1>2 DEF CopyTyped, TypeOK
<1>5. RecordsThere'
  BY <1>0, <1>2 DEF RecordsThere, lifeVars, Logged
<1> QED BY <1>0, <1>1, <1>2, <1>3, <1>4, <1>5, PartsKept, TypePartsNext DEF TypeInv, lifeVars

\* What is logged in stays so, and nobody takes the copy up anew.
LEMMA RecordsStay ==
    ASSUME RecordsThere, Logged => Logged', UNCHANGED <<life, handler, bye>>
    PROVE  RecordsThere'
BY DEF RecordsThere

LEMMA ApplyTyped ==
    ASSUME TypeInv, NEW r \in Records, Apply(r)
    PROVE  TypeInv'
<1>0. TypeOK /\ RecordsThere
  BY DEF TypeInv
<1>1. CopyTyped'
  BY <1>0 DEF Apply, TypeOK, CopyTyped
<1>2. UNCHANGED <<scenario, power, boots, reports, ledger, file, lifeVars, moduleVars, resets, bye>>
  BY DEF Apply
<1>3. Logged => Logged'
  <2>1. r # Nil
    BY LifecycleAssumption
  <2> QED BY <2>1 DEF Apply, Logged
<1>4. RecordsThere'
  BY <1>0, <1>2, <1>3, RecordsStay DEF lifeVars
<1> QED BY <1>0, <1>1, <1>2, <1>4, PartsKept, TypePartsNext DEF TypeInv, lifeVars

LEMMA LifeGoesTyped ==
    ASSUME TypeOK, NEW from, NEW to \in LifePCs, NEW held \in Records \cup {Nil}, LifeGoes(from, to, held),
           UNCHANGED handler
    PROVE  LifeTyped' /\ life.pc = from /\ life'.pc = to /\ life'.held = held
BY DEF TypeOK, LifeGoes, LifeTyped

LEMMA OnlineIs ==
    ASSUME TypeOK, Logged
    PROVE  Online \in Records /\ Online # Nil /\ Online.id = copy.id
BY CopyIs, LifecycleAssumption DEF Online, Records, States

\* What Start does, by its position.
LEMMA LifeTypes ==
    ASSUME TypeInv, LifeStep
    PROVE  LifeTyped' /\ CopyTyped' /\ LedgerTyped' /\ hearsReset' \in BOOLEAN
<1>0. TypeOK /\ RecordsThere /\ Nil \in Records \cup {Nil}
  BY DEF TypeInv
<1>1. CASE SetSpecs
  <2>1. copy \in Records /\ copy.id \in Ids /\ "online" \in States /\ UNCHANGED <<file, copy, handler, hearsReset>>
    BY <1>0, <1>1, CopyIs DEF SetSpecs, LifeGoes, RecordsThere, UsesCopy, States
  <2>2. LedgerTyped' /\ news' \subseteq Records
    BY <1>0, <1>1, <2>1, PublishTyped DEF SetSpecs
  <2>3. LifeTyped'
    BY <1>0, <1>1, LifeGoesTyped DEF SetSpecs, LifePCs
  <2> QED BY <1>0, <2>1, <2>2, <2>3 DEF CopyTyped, TypeOK
<1>2. CASE SpecsCopy
  <2>1. Online \in Records
    BY <1>0, <1>2, OnlineIs DEF SpecsCopy, LifeGoes, RecordsThere, UsesCopy
  <2>2. LifeTyped'
    BY <1>0, <1>2, LifeGoesTyped DEF SpecsCopy, LifePCs
  <2>3. CopyTyped' /\ LedgerTyped'
    BY <1>0, <1>2, <2>1 DEF SpecsCopy, CopyTyped, LedgerTyped, TypeOK
  <2>4. hearsReset' \in BOOLEAN
    BY <1>2 DEF SpecsCopy
  <2> QED BY <2>2, <2>3, <2>4
<1>3. CASE LogIn
  <2>1. life.held \in Records
    BY <1>0, <1>3 DEF LogIn, LifeGoes, RecordsThere
  <2>2. LifeTyped'
    BY <1>0, <1>3, LifeGoesTyped DEF LogIn, LifePCs
  <2> QED BY <1>0, <1>3, <2>1, <2>2 DEF LogIn, CopyTyped, LedgerTyped, TypeOK
<1>4. CASE Retrieve
  <2>1. LifeTyped'
    <3>1. CASE file \in Ids /\ ledger[file] \in States
      <4>1. [id |-> file, state |-> ledger[file]] \in Records \cup {Nil}
        BY <3>1 DEF Records
      <4> QED BY <1>0, <1>4, <3>1, <4>1, LifeGoesTyped DEF Retrieve, LifePCs
    <3>2. CASE ~(file \in Ids /\ ledger[file] \in States)
      BY <1>0, <1>4, <3>2, LifeGoesTyped DEF Retrieve, LifePCs
    <3> QED BY <3>1, <3>2
  <2> QED BY <1>0, <1>4, <2>1 DEF Retrieve, CopyTyped, LedgerTyped, TypeOK
<1>5. CASE Check \/ RetrieveFails \/ Announce \/ NoSpecs \/ Listen \/ StopListening
  <2>1. UNCHANGED <<ledger, file, copy, news, handler>> /\ hearsReset' \in {hearsReset, TRUE}
    BY Zenon, <1>5 DEF Check, RetrieveFails, Announce, NoSpecs, Listen, StopListening
  <2>2. \E from, to \in LifePCs : LifeGoes(from, to, Nil)
    BY <1>5 DEF Check, RetrieveFails, Announce, NoSpecs, Listen, StopListening, LifePCs
  <2>3. LifeTyped'
    BY <1>0, <2>1, <2>2, LifeGoesTyped
  <2>4. CopyTyped' /\ LedgerTyped'
    BY <1>0, <2>1 DEF CopyTyped, LedgerTyped, TypeOK
  <2>5. hearsReset' \in BOOLEAN
    BY Zenon, <1>0, <2>1 DEF TypeOK
  <2> QED BY <2>3, <2>4, <2>5
<1> QED BY <1>1, <1>2, <1>3, <1>4, <1>5 DEF LifeStep

\* Start has a copy before it uses it, and does not log out.
LEMMA LifeRecords ==
    ASSUME TypeInv, LifeStep
    PROVE  RecordsThere'
<1>0. TypeOK /\ RecordsThere /\ UNCHANGED <<handler, bye>> /\ (life.pc \in UsesCopy => Logged)
  BY DEF TypeInv, LifeStep, Check, Retrieve, RetrieveFails, LogIn, Announce, SetSpecs, SpecsCopy,
         NoSpecs, Listen, StopListening, RecordsThere
<1>1. Logged => Logged'
  <2>1. CASE LogIn
    BY <1>0, <2>1, LifecycleAssumption DEF LogIn, LifeGoes, RecordsThere, Logged
  <2>2. CASE SpecsCopy
    BY <1>0, <2>2, OnlineIs DEF SpecsCopy, Logged
  <2>3. CASE copy' = copy
    BY <2>3 DEF Logged
  <2> QED BY <2>1, <2>2, <2>3 DEF LifeStep, Check, Retrieve, RetrieveFails, Announce, SetSpecs,
                                  NoSpecs, Listen, StopListening
<1>2. life'.pc \in UsesCopy => Logged'
  <2>1. CASE LogIn
    BY <1>0, <2>1, LifecycleAssumption DEF LogIn, LifeGoes, RecordsThere, Logged
  <2>2. CASE ~LogIn
    <3>1. life'.pc \in UsesCopy => life.pc \in UsesCopy
      BY <2>2 DEF LifeStep, Check, Retrieve, RetrieveFails, Announce, SetSpecs, SpecsCopy, NoSpecs,
                  Listen, StopListening, LifeGoes, UsesCopy
    <3> QED BY <1>0, <1>1, <3>1
  <2> QED BY <2>1, <2>2
<1>3. life'.pc = "logIn" => life'.held \in Records
  <2>1. CASE Retrieve
    BY <2>1 DEF Retrieve, LifeGoes, Records
  <2>2. CASE ~Retrieve
    BY <2>2 DEF LifeStep, Check, RetrieveFails, LogIn, Announce, SetSpecs, SpecsCopy, NoSpecs,
                Listen, StopListening, LifeGoes
  <2> QED BY <2>1, <2>2
<1> QED BY <1>0, <1>1, <1>2, <1>3 DEF RecordsThere

LEMMA AnnouncedTyped ==
    ASSUME TypeOK
    PROVE  Announced \in [Modules -> Nat]
BY DEF TypeOK, Announced

LEMMA LifeStepTyped ==
    ASSUME TypeInv, LifeStep
    PROVE  TypeInv'
<1>0. TypeOK /\ UNCHANGED <<scenario, power, boots, reports, module, looks, doVars, resets, bye>>
  BY DEF TypeInv, LifeStep
<1>1. LifeTyped' /\ CopyTyped' /\ LedgerTyped' /\ hearsReset' \in BOOLEAN /\ RecordsThere'
  BY LifeTypes, LifeRecords
<1>2. ResetsTyped'
  BY Zenon, <1>0, <1>1 DEF ResetsTyped, TypeOK
<1>3. calls' \in [Modules -> Nat]
  BY <1>0, AnnouncedTyped DEF LifeStep, Check, Retrieve, RetrieveFails, LogIn, Announce, SetSpecs,
       SpecsCopy, NoSpecs, Listen, StopListening, TypeOK
<1>4. ModulesTyped'
  BY <1>0, <1>3 DEF ModulesTyped, TypeOK, doVars
<1> QED BY <1>0, <1>1, <1>2, <1>4, PartsKept, TypePartsNext DEF TypeInv

LEMMA HandlerGoesTyped ==
    ASSUME TypeOK, NEW i \in Ids, NEW from, NEW to \in HandlerPCs, HandlerGoes(i, from, to)
    PROVE  /\ handler' \in [Ids -> HandlerPCs] /\ handler[i] = from /\ handler'[i] = to
           /\ \A j \in Ids \ {i} : handler'[j] = handler[j]
BY DEF TypeOK, HandlerGoes

LEMMA HandlerMoves ==
    ASSUME TypeOK, NEW i \in Ids, HandlerStep(i)
    PROVE  \E from, to \in HandlerPCs \ {"none"} : HandlerGoes(i, from, to)
BY DEF HandlerStep, CreateFile, WriteFile, InsertedLogIn, InsertedAnnounce, InsertedSpecs,
       InsertedSpecsCopy, HandlerPCs

LEMMA HandlerStepTyped ==
    ASSUME TypeInv, NEW i \in Ids, HandlerStep(i)
    PROVE  TypeInv'
<1>0. /\ TypeOK /\ RecordsThere
      /\ UNCHANGED <<scenario, power, boots, reports, life, hearsReset, module, looks, doVars, resets, bye>>
  BY DEF TypeInv, HandlerStep
<1>1. /\ handler' \in [Ids -> HandlerPCs]
      /\ \A j \in Ids \ {i} : handler'[j] = handler[j]
  BY <1>0, HandlerMoves, HandlerGoesTyped
<1>2. [id |-> i, state |-> "offline"] \in Records
  BY DEF Records, States
<1>3. CopyTyped' /\ LedgerTyped' /\ (Logged => Logged')
  <2>1. CASE InsertedSpecs(i)
    <3>1. copy \in Records /\ copy.id \in Ids /\ "online" \in States
      BY <1>0, <2>1, CopyIs DEF InsertedSpecs, HandlerGoes, RecordsThere, UsesCopy, States
    <3>2. LedgerTyped' /\ news' \subseteq Records
      BY <1>0, <2>1, <3>1, PublishTyped DEF InsertedSpecs
    <3> QED BY <2>1, <3>1, <3>2 DEF InsertedSpecs, CopyTyped, Logged
  <2>2. CASE InsertedSpecsCopy(i)
    <3>1. Online \in Records /\ Online # Nil
      BY <1>0, <2>2, OnlineIs DEF InsertedSpecsCopy, HandlerGoes, RecordsThere, UsesCopy
    <3> QED BY <1>0, <2>2, <3>1 DEF InsertedSpecsCopy, CopyTyped, LedgerTyped, TypeOK, Logged
  <2>3. CASE InsertedLogIn(i)
    BY <1>0, <1>2, <2>3, LifecycleAssumption DEF InsertedLogIn, CopyTyped, LedgerTyped, TypeOK, Logged
  <2>4. CASE CreateFile(i) \/ WriteFile(i) \/ InsertedAnnounce(i)
    BY <1>0, <2>4 DEF CreateFile, WriteFile, InsertedAnnounce, CopyTyped, LedgerTyped, TypeOK, Logged
  <2> QED BY <2>1, <2>2, <2>3, <2>4 DEF HandlerStep
<1>4. handler'[i] \in UsesCopy => Logged'
  <2>1. CASE InsertedLogIn(i)
    BY <1>2, <2>1, LifecycleAssumption DEF InsertedLogIn, Logged
  <2>2. CASE ~InsertedLogIn(i)
    <3>1. handler'[i] \in UsesCopy => handler[i] \in UsesCopy
      BY <1>0, <2>2, HandlerGoesTyped DEF HandlerStep, CreateFile, WriteFile, InsertedAnnounce,
           InsertedSpecs, InsertedSpecsCopy, HandlerPCs, UsesCopy
    <3> QED BY <1>0, <1>3, <3>1 DEF RecordsThere
  <2> QED BY <2>1, <2>2
<1>5. RecordsThere'
  BY <1>0, <1>1, <1>3, <1>4 DEF RecordsThere
<1>6. LifeTyped'
  BY <1>0, <1>1 DEF LifeTyped, TypeOK
<1>7. ModulesTyped'
  <2>1. calls' \in [Modules -> Nat]
    BY <1>0, AnnouncedTyped DEF HandlerStep, CreateFile, WriteFile, InsertedLogIn, InsertedAnnounce,
         InsertedSpecs, InsertedSpecsCopy, TypeOK
  <2> QED BY <1>0, <2>1 DEF ModulesTyped, TypeOK, doVars
<1> QED BY <1>0, <1>3, <1>5, <1>6, <1>7, PartsKept, TypePartsNext DEF TypeInv

LEMMA ModuleStepTyped ==
    ASSUME TypeInv, NEW m \in Modules, ModuleStep(m)
    PROVE  TypeInv'
<1>0. TypeOK /\ UNCHANGED <<scenario, power, boots, reports, ledger, file, copy, lifeVars, news, resets, bye>>
  BY DEF TypeInv, ModuleStep
<1>1. ModulesTyped
  BY <1>0, TypeParts
<1>2. ASSUME LookLogged(m) \/ LookAgain(m) \/ LookOver(m)
      PROVE  ModulesTyped'
  <2>1. /\ module' \in [Modules -> {"off", "look", "subscribe", "wait", "running"}]
        /\ starts' \in [Modules -> Nat] /\ looks' \in [Modules -> 0..Attempts]
    BY <1>0, <1>2, LifecycleAssumption
       DEF LookLogged, LookAgain, LookOver, ModuleGoes, TypeOK, doVars
  <2>2. UNCHANGED <<once, starting, subscription, calls, called>>
    BY <1>2 DEF LookLogged, LookAgain, LookOver, doVars
  <2> QED BY <1>1, <2>1, <2>2 DEF ModulesTyped
<1>3. ASSUME Subscribe(m) \/ NameCancel(m) \/ CancelLogin(m)
      PROVE  ModulesTyped'
  <2>1. module' \in [Modules -> {"off", "look", "subscribe", "wait", "running"}]
    BY <1>3, <1>1 DEF Subscribe, NameCancel, CancelLogin, ModuleGoes, ModulesTyped
  <2>2. once' \in [Modules -> {"fresh", "spent"}]
    BY <1>3, <1>1 DEF Subscribe, NameCancel, CancelLogin, ModulesTyped
  <2>3. subscription' \in [Modules -> {"none", "unnamed", "named"}] /\ called' \subseteq Modules
    BY <1>3, <1>1 DEF Subscribe, NameCancel, CancelLogin, ModulesTyped
  <2>4. UNCHANGED <<looks, starting, calls, starts>>
    BY <1>3 DEF Subscribe, NameCancel, CancelLogin
  <2> QED BY <1>1, <2>1, <2>2, <2>3, <2>4 DEF ModulesTyped
<1>4. ASSUME Postponed(m)
      PROVE  ModulesTyped'
  <2>1. starting' \in [Modules -> Nat] /\ calls' \in [Modules -> Nat] /\ called' \subseteq Modules
    BY <1>4, <1>1 DEF Postponed, ModulesTyped
  <2>2. UNCHANGED <<module, looks, once, subscription, starts>>
    BY <1>4 DEF Postponed
  <2> QED BY <1>1, <2>1, <2>2 DEF ModulesTyped
<1>5. ASSUME Do(m)
      PROVE  ModulesTyped'
  <2>1. starting' \in [Modules -> Nat] /\ once' \in [Modules -> {"fresh", "spent"}]
    BY <1>5, <1>1 DEF Do, ModulesTyped
  <2>2. /\ module' \in [Modules -> {"off", "look", "subscribe", "wait", "running"}]
        /\ looks' \in [Modules -> 0..Attempts]
    BY <1>5, <1>1, LifecycleAssumption DEF Do, ModulesTyped
  <2>3. UNCHANGED <<subscription, calls, called, starts>>
    BY <1>5 DEF Do
  <2> QED BY <1>1, <2>1, <2>2, <2>3 DEF ModulesTyped
<1>6. ModulesTyped'
  BY <1>2, <1>3, <1>4, <1>5 DEF ModuleStep
<1>7. RecordsThere'
  BY <1>0, RecordsStay DEF lifeVars, TypeInv, Logged
<1> QED BY <1>0, <1>7, <1>6, PartsKept, TypePartsNext DEF lifeVars, TypeInv

LEMMA ShutdownTyped ==
    ASSUME TypeInv, ShutdownStep
    PROVE  TypeInv'
<1>0. TypeOK /\ RecordsThere /\ UNCHANGED <<scenario, boots, reports, file, lifeVars, moduleVars, resets>>
  BY DEF TypeInv, ShutdownStep
<1>1. ProcessTyped'
  BY <1>0 DEF ShutdownStep, Close, NotifyOff, Tell, Exit, TypeOK, ProcessTyped
<1>2. CopyTyped' /\ LedgerTyped' /\ (Logged => Logged')
  <2>1. CASE Tell /\ copy' # copy
    <3>1. /\ copy \in Records /\ copy.id \in Ids /\ "offline" \in States
          /\ Publish(copy.id, "offline") /\ copy' = [copy EXCEPT !.state = "offline"]
      BY <1>0, <2>1, CopyIs DEF Tell, RecordsThere, States
    <3>2. LedgerTyped' /\ news' \subseteq Records
      BY <1>0, <3>1, PublishTyped
    <3>3. copy' \in Records
      BY <3>1 DEF Records
    <3> QED BY <3>2, <3>3, LifecycleAssumption DEF CopyTyped, Logged
  <2>2. CASE copy' = copy
    <3>1. CASE UNCHANGED <<ledger, news>>
      BY <1>0, <2>2, <3>1 DEF CopyTyped, LedgerTyped, TypeOK, Logged
    <3>2. CASE Tell /\ Publish(copy.id, "offline")
      <4>1. copy.id \in Ids /\ "offline" \in States
        BY <1>0, <3>2, CopyIs DEF Tell, RecordsThere, States
      <4>2. LedgerTyped' /\ news' \subseteq Records
        BY <1>0, <3>2, <4>1, PublishTyped
      <4> QED BY <1>0, <2>2, <4>2 DEF CopyTyped, TypeOK, Logged
    <3> QED BY <3>1, <3>2 DEF ShutdownStep, Close, NotifyOff, Tell, Exit
  <2> QED BY <2>1, <2>2 DEF ShutdownStep, Close, NotifyOff, Exit
<1>3. bye' = "telling" => Logged
  BY <1>0 DEF ShutdownStep, Close, NotifyOff, Tell, Exit, RecordsThere
<1>4. RecordsThere'
  BY <1>0, <1>2, <1>3 DEF lifeVars, RecordsThere
<1> QED BY <1>0, <1>1, <1>2, <1>4, PartsKept, TypePartsNext DEF lifeVars, TypeInv

LEMMA StepTyped == TypeInv /\ [Next]_vars => TypeInv'
<1> SUFFICES ASSUME TypeInv, [Next]_vars
             PROVE  TypeInv'
  OBVIOUS
<1>0. TypeOK
  BY DEF TypeInv
<1>1. CASE Boot \/ Crash \/ SpecsFail \/ CancelNil \/ Panic
  BY <1>1, ProcessSteps DEF Crash, SpecsFail, CancelNil, Panic
<1>2. CASE Reset
  <2>1. UNCHANGED <<scenario, power, boots, reports, ledger, copy, lifeVars, moduleVars, news, bye>>
    BY <1>2 DEF Reset
  <2>2. LedgerTyped'
    BY <1>0, <1>2 DEF Reset, LedgerTyped, TypeOK
  <2>3. ResetsTyped'
    BY Zenon, <1>0, <1>2 DEF Reset, lifeVars, ResetsTyped, TypeOK
  <2>4. RecordsThere'
    BY <2>1, RecordsStay DEF lifeVars, TypeInv, Logged
  <2> QED BY <1>0, <2>1, <2>2, <2>3, <2>4, PartsKept, TypePartsNext DEF lifeVars, TypeInv
<1>3. CASE LifeStep \/ ShutdownStep
  BY <1>3, LifeStepTyped, ShutdownTyped
<1>4. ASSUME NEW i \in Ids, Insert(i) \/ Remove(i) \/ Report(i) \/ HandlerStep(i)
      PROVE  TypeInv'
  BY <1>4, InsertTyped, RemoveTyped, ReportTyped, HandlerStepTyped
<1>5. ASSUME NEW r \in Records, Apply(r)
      PROVE  TypeInv'
  BY <1>5, ApplyTyped
<1>6. ASSUME NEW m \in Modules, ModuleStep(m)
      PROVE  TypeInv'
  BY <1>6, ModuleStepTyped
<1>7. CASE UNCHANGED vars
  <2>1. UNCHANGED <<scenario, power, boots, reports, ledger, file, copy, lifeVars, moduleVars, news, resets, bye>>
    BY <1>7 DEF vars
  <2>2. RecordsThere'
    BY <2>1, RecordsStay DEF lifeVars, TypeInv, Logged
  <2> QED BY <1>0, <2>1, <2>2, PartsKept, TypePartsNext DEF lifeVars, TypeInv
<1> QED BY <1>1, <1>2, <1>3, <1>4, <1>5, <1>6, <1>7 DEF Next

\* The process, the ledger, the device's copy of its record, the identity file and
\* the modules stay within their types, and nobody uses a copy before there is one
\* (lifecycle_manager.go, device_state.go).
THEOREM TypeCorrect == Spec => []TypeOK
<1>1. TypeInv => TypeOK
  BY DEF TypeInv
<1> QED BY <1>1, InitTyped, StepTyped, PTL DEF Spec

--------------------------------------------------------------------------------
(* A module is started once.  Its Once is only fresh while nothing runs     *)
(* inside it: the module then waits, and whoever does the Once takes the    *)
(* module from there.  A body that goes past the login does not come back   *)
(* to replace it, so the goroutines that were started for the other logins  *)
(* find it spent.                                                           *)

OnceFresh  == \A m \in Modules : once[m] = "fresh" => module[m] = "wait"
StartsTold == \A m \in Modules : starts[m] = IF module[m] = "running" THEN 1 ELSE 0
Startable  == OnceFresh /\ StartsTold

LEMMA InitStartable == Init => Startable
BY DEF Init, Startable, OnceFresh, StartsTold

\* What a step of the module leaves of the others.
LEMMA OthersAside ==
    ASSUME TypeOK, NEW m \in Modules, ModuleStep(m)
    PROVE  \A n \in Modules \ {m} :
               module'[n] = module[n] /\ once'[n] = once[n] /\ starts'[n] = starts[n]
BY DEF TypeOK, ModuleStep, LookLogged, LookAgain, LookOver, Subscribe, NameCancel, Postponed,
       CancelLogin, Do, ModuleGoes, doVars

LEMMA ModuleStartable ==
    ASSUME TypeOK, Startable, NEW m \in Modules, ModuleStep(m)
    PROVE  Startable'
<1>0. /\ once[m] = "fresh" => module[m] = "wait"
      /\ starts[m] = IF module[m] = "running" THEN 1 ELSE 0
      /\ once[m] \in {"fresh", "spent"}
  BY DEF Startable, OnceFresh, StartsTold, TypeOK
<1>1. /\ once'[m] = "fresh" => module'[m] = "wait"
      /\ starts'[m] = IF module'[m] = "running" THEN 1 ELSE 0
  <2>1. CASE LookLogged(m)
    BY <1>0, <2>1 DEF LookLogged, ModuleGoes, TypeOK
  <2>2. CASE LookAgain(m) \/ LookOver(m)
    BY <1>0, <2>2 DEF LookAgain, LookOver, ModuleGoes, TypeOK, doVars
  <2>3. CASE Subscribe(m)
    BY <1>0, <2>3 DEF Subscribe, ModuleGoes, TypeOK
  <2>4. CASE NameCancel(m) \/ Postponed(m) \/ CancelLogin(m)
    BY <1>0, <2>4 DEF NameCancel, Postponed, CancelLogin
  <2>5. CASE Do(m) /\ once[m] = "fresh"
    BY <1>0, <2>5 DEF Do, TypeOK
  <2>6. CASE Do(m) /\ once[m] = "spent"
    BY <1>0, <2>6 DEF Do, TypeOK
  <2> QED BY <1>0, <2>1, <2>2, <2>3, <2>4, <2>5, <2>6 DEF ModuleStep
<1>2. OnceFresh'
  BY <1>1, OthersAside DEF Startable, OnceFresh
<1>3. StartsTold'
  BY <1>1, OthersAside DEF Startable, StartsTold
<1> QED BY <1>2, <1>3 DEF Startable

LEMMA StepStartable == TypeInv /\ Startable /\ [Next]_vars => Startable'
<1> SUFFICES ASSUME TypeInv, Startable, [Next]_vars
             PROVE  Startable'
  OBVIOUS
<1>1. CASE Boot \/ Dies
  BY <1>1 DEF Boot, Dies, Fresh, Startable, OnceFresh, StartsTold
<1>2. ASSUME NEW m \in Modules, ModuleStep(m)
      PROVE  Startable'
  BY <1>2, ModuleStartable DEF TypeInv
<1>3. CASE UNCHANGED <<module, once, starts>>
  BY <1>3 DEF Startable, OnceFresh, StartsTold
<1> QED BY <1>1, <1>2, <1>3 DEF Next, Crash, SpecsFail, CancelNil, Panic, Reset, LifeStep, ShutdownStep,
          Insert, Remove, Report, HandlerStep, Apply, vars, moduleVars, doVars

\* However often a login is announced, and although a module that waits for it has
\* a new Once, no module is started twice by one process: nobody is inside the
\* Once that is replaced but the one who replaces it, and a Start that comes late
\* finds the new one spent (module_base.go: trySyncWithDeviceLifecycle, Start).
THEOREM StartedOnce == Spec => []StartsOnce
<1>1. Startable => StartsOnce
  BY DEF Startable, StartsTold, StartsOnce
<1> QED BY <1>1, InitTyped, StepTyped, InitStartable, StepStartable, PTL DEF Spec

--------------------------------------------------------------------------------
(* The device is logged in as what is on its disk.  Start has no answer to  *)
(* a registration at its side until it listens for one, and the device is   *)
(* not logged in until Start has retrieved a record, or the answer has      *)
(* written the identity: both take the id from what they then log in as.    *)

Early   == {"off", "check", "retrieve", "logIn", "announce", "specs", "specsCopy", "register"}
Before  == {"off", "check", "retrieve", "logIn", "register", "listen"}
Written == {"logIn", "announce", "specs", "specsCopy", "done"}
Idle    == \A i \in Ids : handler[i] = "none"

EarlyIdle      == life.pc \in Early => Idle
HeldOnDisk     == life.pc = "logIn" => file \in {life.held.id, Absent}
WrittenOnDisk  == AnsweredOnce => \A i \in Ids : handler[i] \in Written => file \in {i, Absent}
WritesFirst    == AnsweredOnce => \A i \in Ids : handler[i] \in {"create", "write"} => ~Logged
LoggedBySome   == life.pc \in Before /\ Idle => ~Logged
AnswersLedger  == \A i \in Ids : handler[i] # "none" => ledger[i] # Nil

KnowsInv ==
    /\ EarlyIdle /\ HeldOnDisk /\ WrittenOnDisk /\ WritesFirst /\ LoggedBySome /\ AnswersLedger
    /\ KnowsItself

LEMMA InitKnows == Init => KnowsInv
BY DEF Init, KnowsInv, EarlyIdle, HeldOnDisk, WrittenOnDisk, WritesFirst, LoggedBySome,
       AnswersLedger, KnowsItself, Idle, Logged, Written

LEMMA FreshKnows ==
    ASSUME NEW at \in {"off", "check"}, Fresh(at)
    PROVE  KnowsInv'
<1>1. life'.pc = at /\ copy' = Nil /\ \A i \in Ids : handler'[i] = "none"
  BY DEF Fresh
<1> QED BY <1>1 DEF KnowsInv, EarlyIdle, HeldOnDisk, WrittenOnDisk, WritesFirst, LoggedBySome,
            AnswersLedger, KnowsItself, Idle, Logged, Written

\* A ledger forgets no device, not even one that is gone.
Remembered == \A i \in Ids : ledger[i] # Nil => ledger'[i] # Nil
SameLogin  == /\ Logged <=> Logged'
              /\ Logged => copy'.id = copy.id

\* Steps that are not of the login: they change the copy but not its id, and
\* the file only by removing it.
LEMMA AsideKnows ==
    ASSUME KnowsInv, UNCHANGED <<life, handler>>, SameLogin, file' \in {file, Absent}, Remembered
    PROVE  KnowsInv'
<1>1. UNCHANGED <<Idle, AnsweredOnce>>
  BY DEF Idle, AnsweredOnce
<1>2. EarlyIdle' /\ LoggedBySome' /\ WritesFirst'
  BY <1>1 DEF KnowsInv, EarlyIdle, LoggedBySome, WritesFirst, SameLogin
<1>3. HeldOnDisk' /\ WrittenOnDisk'
  BY <1>1 DEF KnowsInv, HeldOnDisk, WrittenOnDisk
<1>4. AnswersLedger'
  BY DEF KnowsInv, AnswersLedger, Remembered
<1>5. KnowsItself'
  BY <1>1 DEF KnowsInv, KnowsItself, SameLogin
<1> QED BY <1>2, <1>3, <1>4, <1>5 DEF KnowsInv

LEMMA PublishRemembers ==
    ASSUME TypeOK, NEW i, NEW s \in States, Publish(i, s)
    PROVE  Remembered
<1>1. s # Nil
  BY LifecycleAssumption
<1> QED BY <1>1 DEF Publish, Remembered, TypeOK

LEMMA AsideSteps ==
    ASSUME TypeInv, KnowsInv,
           \/ Reset \/ ShutdownStep
           \/ \E i \in Ids : Remove(i) \/ Report(i)
           \/ \E r \in Records : Apply(r)
           \/ \E m \in Modules : ModuleStep(m)
           \/ UNCHANGED vars
    PROVE  KnowsInv'
<1>0. TypeOK /\ RecordsThere
  BY DEF TypeInv
<1>1. ASSUME UNCHANGED <<ledger, copy, life, handler>>, file' \in {file, Absent}
      PROVE  KnowsInv'
  BY <1>1, AsideKnows DEF SameLogin, Logged, Remembered
<1>2. CASE Reset \/ UNCHANGED vars \/ \E m \in Modules : ModuleStep(m)
  BY <1>1, <1>2 DEF Reset, vars, ModuleStep, lifeVars
<1>3. ASSUME NEW i \in Ids, Remove(i)
      PROVE  KnowsInv'
  <2>1. Remembered
    BY <1>0, <1>3, LifecycleAssumption DEF Remove, Remembered, TypeOK
  <2> QED BY <1>3, <2>1, AsideKnows DEF Remove, lifeVars, SameLogin, Logged
<1>4. ASSUME NEW i \in Ids, Report(i)
      PROVE  KnowsInv'
  <2>1. Remembered
    BY <1>0, <1>4, PublishRemembers DEF Report, Present
  <2> QED BY <1>4, <2>1, AsideKnows DEF Report, lifeVars, SameLogin, Logged
<1>5. ASSUME NEW r \in Records, Apply(r)
      PROVE  KnowsInv'
  <2>1. SameLogin
    BY <1>5, LifecycleAssumption DEF Apply, SameLogin, Logged
  <2> QED BY <1>5, <2>1, AsideKnows DEF Apply, lifeVars, Remembered
<1>6. CASE ShutdownStep
  <2>1. CASE UNCHANGED <<ledger, copy>>
    BY <1>1, <1>6, <2>1 DEF ShutdownStep, lifeVars
  <2>2. CASE Tell /\ Publish(copy.id, "offline") /\ copy' = [copy EXCEPT !.state = "offline"]
    <3>1. copy \in Records
      BY <1>0, <2>2, CopyIs DEF Tell, RecordsThere
    <3>2. copy' \in Records /\ copy'.id = copy.id
      BY <2>2, <3>1 DEF Records, States
    <3>3. SameLogin
      BY <3>1, <3>2, LifecycleAssumption DEF SameLogin, Logged
    <3>4. Remembered
      BY <1>0, <2>2, PublishRemembers DEF States
    <3> QED BY <1>6, <3>3, <3>4, AsideKnows DEF ShutdownStep, lifeVars
  <2> QED BY <1>6, <2>1, <2>2 DEF ShutdownStep, Close, NotifyOff, Tell, Exit
<1> QED BY <1>2, <1>3, <1>4, <1>5, <1>6

LEMMA InsertKnows ==
    ASSUME TypeInv, KnowsInv, NEW i \in Ids, Insert(i)
    PROVE  KnowsInv'
<1>0. TypeOK /\ UNCHANGED <<file, copy, life>> /\ ledger[i] = Nil /\ handler[i] = "none"
  BY DEF TypeInv, Insert, KnowsInv, AnswersLedger
<1>1. ledger'[i] # Nil /\ Remembered
  BY <1>0, LifecycleAssumption DEF Insert, TypeOK, Remembered, States
<1>2. CASE life.pc # "listen"
  BY <1>0, <1>1, <1>2, AsideKnows DEF Insert, SameLogin, Logged
<1>3. CASE life.pc = "listen"
  <2>1. handler'[i] = "create" /\ \A j \in Ids \ {i} : handler'[j] = handler[j]
    BY <1>0, <1>3 DEF Insert, TypeOK
  <2>2. AnsweredOnce' => Idle
    BY <1>0, <2>1 DEF AnsweredOnce, Idle
  <2>3. AnsweredOnce' => AnsweredOnce /\ ~Logged
    BY <1>3, <2>2 DEF AnsweredOnce, Idle, KnowsInv, LoggedBySome, Before
  <2>4. EarlyIdle' /\ LoggedBySome' /\ HeldOnDisk'
    BY <1>0, <1>3, <2>1 DEF EarlyIdle, Early, LoggedBySome, HeldOnDisk, Idle
  <2>5. WrittenOnDisk'
    BY <1>0, <2>1, <2>2 DEF WrittenOnDisk, Written, Idle
  <2>6. WritesFirst' /\ KnowsItself'
    BY <1>0, <2>3 DEF WritesFirst, KnowsItself, Logged
  <2>7. AnswersLedger'
    BY <1>1, <2>1 DEF KnowsInv, AnswersLedger, Remembered
  <2> QED BY <2>4, <2>5, <2>6, <2>7 DEF KnowsInv
<1> QED BY <1>2, <1>3

LEMMA LifeKnows ==
    ASSUME TypeInv, KnowsInv, LifeStep
    PROVE  KnowsInv'
<1>0. TypeOK /\ RecordsThere /\ UNCHANGED <<file, handler>>
  BY DEF TypeInv, LifeStep, Check, Retrieve, RetrieveFails, LogIn, Announce, SetSpecs, SpecsCopy,
         NoSpecs, Listen, StopListening
<1>1. UNCHANGED <<Idle, AnsweredOnce>>
  BY <1>0 DEF Idle, AnsweredOnce
<1>2. WrittenOnDisk'
  BY <1>0, <1>1 DEF KnowsInv, WrittenOnDisk
<1>3. /\ life'.pc \in Early => life.pc \in Early
      /\ life'.pc \in Before => life.pc \in Before /\ copy' = copy
  BY DEF LifeStep, Check, Retrieve, RetrieveFails, LogIn, Announce, SetSpecs, SpecsCopy, NoSpecs,
         Listen, StopListening, LifeGoes, Early, Before
<1>4. EarlyIdle' /\ LoggedBySome'
  BY <1>1, <1>3 DEF KnowsInv, EarlyIdle, LoggedBySome, Logged
<1>5. HeldOnDisk'
  <2>1. CASE Retrieve
    BY <2>1 DEF Retrieve, LifeGoes, HeldOnDisk
  <2>2. CASE ~Retrieve
    <3>1. life'.pc # "logIn"
      BY <2>2 DEF LifeStep, Check, RetrieveFails, LogIn, Announce, SetSpecs, SpecsCopy, NoSpecs,
                  Listen, StopListening, LifeGoes
    <3> QED BY <3>1 DEF HeldOnDisk
  <2> QED BY <2>1, <2>2
<1>6. AnswersLedger'
  <2>1. CASE SetSpecs
    BY <1>0, <2>1, PublishRemembers DEF SetSpecs, States, Remembered, KnowsInv, AnswersLedger
  <2>2. CASE UNCHANGED ledger
    BY <1>0, <2>2 DEF KnowsInv, AnswersLedger
  <2> QED BY <2>1, <2>2 DEF LifeStep, Check, Retrieve, RetrieveFails, LogIn, Announce, SpecsCopy,
                            NoSpecs, Listen, StopListening
<1>7. WritesFirst' /\ KnowsItself'
  <2>1. CASE LogIn
    <3>1. Idle /\ file \in {life.held.id, Absent} /\ copy' = life.held
      BY <2>1 DEF LogIn, LifeGoes, KnowsInv, EarlyIdle, HeldOnDisk, Early
    <3> QED BY <1>0, <3>1 DEF WritesFirst, KnowsItself, Idle
  <2>2. CASE SpecsCopy
    <3>1. Logged /\ Logged' /\ copy'.id = copy.id
      BY <1>0, <2>2, OnlineIs DEF SpecsCopy, LifeGoes, RecordsThere, UsesCopy, Logged
    <3> QED BY <1>0, <1>1, <3>1 DEF KnowsInv, WritesFirst, KnowsItself
  <2>3. CASE UNCHANGED copy
    BY <1>0, <1>1, <2>3 DEF KnowsInv, WritesFirst, KnowsItself, Logged
  <2> QED BY <2>1, <2>2, <2>3 DEF LifeStep, Check, Retrieve, RetrieveFails, Announce, SetSpecs,
                                  NoSpecs, Listen, StopListening
<1> QED BY <1>2, <1>4, <1>5, <1>6, <1>7 DEF KnowsInv

LEMMA HandlerKnows ==
    ASSUME TypeInv, KnowsInv, NEW i \in Ids, HandlerStep(i)
    PROVE  KnowsInv'
<1>0. TypeOK /\ RecordsThere /\ UNCHANGED life
  BY DEF TypeInv, HandlerStep
<1>1. /\ handler[i] # "none" /\ handler'[i] # "none"
      /\ \A j \in Ids \ {i} : handler'[j] = handler[j]
  BY <1>0, HandlerMoves, HandlerGoesTyped
<1>2. ~Idle /\ ~Idle' /\ UNCHANGED AnsweredOnce
  BY <1>1 DEF Idle, AnsweredOnce
<1>3. AnsweredOnce => \A j \in Ids \ {i} : handler'[j] = "none"
  BY <1>1 DEF AnsweredOnce
<1>4. EarlyIdle' /\ LoggedBySome' /\ HeldOnDisk'
  BY <1>0, <1>2 DEF KnowsInv, EarlyIdle, LoggedBySome, HeldOnDisk, Early
<1>5. AnswersLedger'
  <2>1. CASE InsertedSpecs(i)
    <3>1. Remembered
      BY <1>0, <2>1, PublishRemembers DEF InsertedSpecs, States
    <3> QED BY <1>1, <3>1 DEF Remembered, KnowsInv, AnswersLedger
  <2>2. CASE UNCHANGED ledger
    BY <1>1, <2>2 DEF KnowsInv, AnswersLedger
  <2> QED BY <2>1, <2>2 DEF HandlerStep, CreateFile, WriteFile, InsertedLogIn, InsertedAnnounce,
                            InsertedSpecsCopy
<1>6. WrittenOnDisk' /\ WritesFirst' /\ KnowsItself'
  <2> SUFFICES ASSUME AnsweredOnce
               PROVE  /\ handler'[i] \in Written => file' \in {i, Absent}
                      /\ handler'[i] \in {"create", "write"} => ~Logged'
                      /\ Logged' /\ file' # Absent => file' = copy'.id
    BY <1>2, <1>3 DEF WrittenOnDisk, WritesFirst, KnowsItself, Written
  <2>1. /\ handler[i] \in Written => file \in {i, Absent}
        /\ handler[i] \in {"create", "write"} => ~Logged
        /\ Logged /\ file # Absent => file = copy.id
    BY DEF KnowsInv, WrittenOnDisk, WritesFirst, KnowsItself
  <2>2. CASE CreateFile(i) \/ WriteFile(i)
    <3>1. /\ handler[i] \in {"create", "write"} /\ copy' = copy
          /\ handler'[i] = "write" \/ (handler'[i] = "logIn" /\ file' = i)
      BY <1>0, <2>2, HandlerGoesTyped DEF CreateFile, WriteFile, HandlerPCs
    <3> QED BY <2>1, <3>1 DEF Logged, Written
  <2>3. CASE InsertedLogIn(i)
    <3>1. handler[i] = "logIn" /\ handler'[i] = "announce" /\ file' = file /\ copy'.id = i
      BY <1>0, <2>3, HandlerGoesTyped DEF InsertedLogIn, HandlerPCs
    <3> QED BY <2>1, <3>1 DEF Written
  <2>4. CASE InsertedAnnounce(i) \/ InsertedSpecs(i) \/ InsertedSpecsCopy(i)
    <3>1. handler[i] \in Written /\ handler'[i] \in Written /\ file' = file
      BY <1>0, <2>4, HandlerGoesTyped DEF InsertedAnnounce, InsertedSpecs, InsertedSpecsCopy,
           HandlerPCs, Written
    <3>2. SameLogin
      <4>1. CASE InsertedSpecsCopy(i)
        BY <1>0, <4>1, OnlineIs DEF InsertedSpecsCopy, HandlerGoes, RecordsThere, UsesCopy, Logged,
             SameLogin
      <4>2. CASE copy' = copy
        BY <4>2 DEF SameLogin, Logged
      <4> QED BY <2>4, <4>1, <4>2 DEF InsertedAnnounce, InsertedSpecs
    <3> QED BY <2>1, <3>1, <3>2 DEF Written, SameLogin
  <2> QED BY <2>2, <2>3, <2>4 DEF HandlerStep
<1> QED BY <1>4, <1>5, <1>6 DEF KnowsInv

LEMMA StepKnows == TypeInv /\ KnowsInv /\ [Next]_vars => KnowsInv'
<1> SUFFICES ASSUME TypeInv, KnowsInv, [Next]_vars
             PROVE  KnowsInv'
  OBVIOUS
<1>1. CASE Boot \/ Crash \/ SpecsFail \/ CancelNil \/ Panic
  BY <1>1, FreshKnows DEF Boot, Crash, SpecsFail, CancelNil, Panic, Dies
<1>2. CASE LifeStep
  BY <1>2, LifeKnows
<1>3. ASSUME NEW i \in Ids, Insert(i) \/ HandlerStep(i)
      PROVE  KnowsInv'
  BY <1>3, InsertKnows, HandlerKnows
<1>4. CASE ~(\/ Boot \/ Crash \/ SpecsFail \/ CancelNil \/ Panic \/ LifeStep
             \/ \E i \in Ids : Insert(i) \/ HandlerStep(i))
  BY <1>4, AsideSteps DEF Next
<1> QED BY <1>1, <1>2, <1>3, <1>4

\* A device that has answered one registration at most is logged in as what its
\* identity file says, so a crash does not make it another: storeIdentity comes
\* before UpdateDeviceModel, and a login takes the id from the file
\* (lifecycle_manager.go: logInNetwork, proceedToDeviceRegistration).
THEOREM LoggedAsStored == Spec => []KnowsItself
<1>1. KnowsInv => KnowsItself
  BY DEF KnowsInv
<1> QED BY <1>1, InitTyped, StepTyped, InitKnows, StepKnows, PTL DEF Spec

================================================================================
