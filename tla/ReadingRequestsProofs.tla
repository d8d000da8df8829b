------------------------- MODULE ReadingRequestsProofs -------------------------
(***************************************************************************)
(* Proofs about ReadingRequests, for every set of assets, requirements and *)
(* places, every bound on the ledger's changes and every disturbance:      *)
(* first the types, then that no cached request is forgotten, that one     *)
(* which counts as processed is served, and, when nothing is taken away,   *)
(* that in the end every requirement in force is served.                   *)
(***************************************************************************)
EXTENDS ReadingRequests, TLAPS

USE RequirementsAssumption, NilAssumption

--------------------------------------------------------------------------------
(* What the helpers of the tasks and of the cache return.                   *)

\* A record whose fields fit its step is a task record.
LEMMA TaskIsRecord ==
    ASSUME NEW p \in PCs, NEW x \in Named \cup {Nil}, NEW s \in SUBSET Named,
           WellFormed(Task(p, x, s))
    PROVE  Task(p, x, s) \in TaskRecords
BY DEF Task, TaskRecords

LEMMA IdleIsRecord == Idle \in TaskRecords
BY DEF Idle, Task, TaskRecords, WellFormed, PCs, RequirementPCs, CancelPCs, AssetPCs, DevicePCs,
       ObserverPCs, ChangePCs, StorePCs, CachePCs, EnginePCs, Named

\* Readying tasks with task records keeps the tasks typed.
LEMMA BecomeType ==
    ASSUME task \in [Tasks -> TaskRecords], NEW t \in Tasks, NEW k \in TaskRecords,
           Become(t, k)
    PROVE  task' \in [Tasks -> TaskRecords]
BY DEF Become

LEMMA EmitType ==
    ASSUME task \in [Tasks -> TaskRecords], NEW t \in Tasks, NEW k \in TaskRecords,
           NEW role \in Roles, NEW h \in TaskRecords, Emit(t, k, role, h)
    PROVE  task' \in [Tasks -> TaskRecords]
BY DEF Emit

\* What the type of the tasks says of one task.
LEMMA TaskType ==
    ASSUME task \in [Tasks -> TaskRecords], NEW t \in Tasks
    PROVE  /\ task[t] \in TaskRecords
           /\ task[t].pc \in PCs
           /\ task[t].on \in Named \cup {Nil}
           /\ task[t].held \in SUBSET Named
           /\ task[t] = Task(task[t].pc, task[t].on, task[t].held)
           /\ WellFormed(task[t])
<1>1. task[t] \in TaskRecords
  OBVIOUS
<1> QED BY <1>1 DEF TaskRecords, Task

\* Storing, removing and flushing keep the cache a function to objects.
LEMMA StoredType ==
    ASSUME requests \in [Requirements -> Objects \cup {Nil}],
           NEW rs, NEW n \in 0..MaxEvents
    PROVE  Stored(rs, n) \in [Requirements -> Objects \cup {Nil}]
BY DEF Stored, Objects

LEMMA WithoutType ==
    ASSUME requests \in [Requirements -> Objects \cup {Nil}], NEW id
    PROVE  Without(id) \in [Requirements -> Objects \cup {Nil}]
BY DEF Without

LEMMA CachedObjectsType ==
    ASSUME requests \in [Requirements -> Objects \cup {Nil}]
    PROVE  CachedObjects \subseteq Objects
BY DEF CachedObjects

\* Cancelling only takes receivers away.
LEMMA AfterCancelType ==
    ASSUME receivers \subseteq Objects \X Tasks, NEW os
    PROVE  AfterCancel(os) \subseteq Objects \X Tasks
BY DEF AfterCancel

\* The event of a task, and the tasks of an event.
LEMMA EventOfTask ==
    ASSUME NEW t \in Tasks
    PROVE  /\ t[1] \in 0..MaxEvents
           /\ t[2] \in Roles
           /\ t = <<t[1], t[2]>>
           /\ \A role \in Roles : <<t[1], role>> \in Tasks
BY DEF Tasks

--------------------------------------------------------------------------------
(* Type correctness, action by action.                                      *)

\* What a step leaves alone stays typed.
StateType ==
    /\ ledgerReqs \subseteq Requirements
    /\ placeOf \in [Assets -> Places \cup {Nil}]
    /\ devicePlace \in Places
    /\ eventCount \in 0..MaxEvents
    /\ watching \subseteq Topics
    /\ active \in BOOLEAN
    /\ subscribed \in 0..3
DataType ==
    /\ location \in Places
    /\ assets \subseteq Assets
    /\ requests \in [Requirements -> Objects \cup {Nil}]
    /\ cancel \in [Objects -> Tasks \cup {Nil}]
    /\ receivers \subseteq Objects \X Tasks
    /\ sent \in [Objects -> Nat]
TasksType == task \in [Tasks -> TaskRecords]

LEMMA TypeParts == TypeOK <=> StateType /\ DataType /\ TasksType
BY DEF TypeOK, StateType, DataType, TasksType

LEMMA InitType == Init => TypeOK
<1> SUFFICES ASSUME Init PROVE TypeOK
  OBVIOUS
<1>1. Task("flushAssets", Nil, {}) \in TaskRecords
  BY TaskIsRecord DEF WellFormed, Task, PCs, RequirementPCs, CancelPCs, AssetPCs, DevicePCs,
     ObserverPCs, ChangePCs, StorePCs, CachePCs, EnginePCs
<1>2. TasksType
  BY <1>1, IdleIsRecord DEF Init, TasksType
<1>3. StateType
  <2>1. ledgerReqs \subseteq Requirements /\ placeOf \in [Assets -> Places \cup {Nil}]
    BY DEF Init
  <2>2. eventCount \in 0..MaxEvents /\ subscribed \in 0..3
    BY DEF Init
  <2>3. devicePlace \in Places /\ watching \subseteq Topics /\ active \in BOOLEAN
    BY DEF Init
  <2> QED BY <2>1, <2>2, <2>3 DEF StateType
<1>4. DataType
  <2>1. /\ requests = [r \in Requirements |-> Nil]
        /\ cancel = [o \in Objects |-> Nil]
        /\ sent = [o \in Objects |-> 0]
    BY DEF Init
  <2>2. /\ requests \in [Requirements -> Objects \cup {Nil}]
        /\ cancel \in [Objects -> Tasks \cup {Nil}]
        /\ sent \in [Objects -> Nat]
    BY <2>1
  <2> QED BY <2>2 DEF Init, DataType
<1> QED BY <1>2, <1>3, <1>4, TypeParts

LEMMA LedgerType == ASSUME TypeOK, Ledger PROVE TypeOK'
<1> DEFINE n == eventCount + 1
<1>1. ASSUME NEW topic, NEW h \in TaskRecords, Tell(topic, h)
      PROVE  eventCount' \in 0..MaxEvents /\ TasksType' /\ DataType'
             /\ watching' \subseteq Topics /\ active' \in BOOLEAN /\ subscribed' \in 0..3
  <2>1. n \in 0..MaxEvents /\ <<n, "observer">> \in Tasks
    BY <1>1 DEF Tell, TypeOK, Tasks, Roles
  <2> QED BY <1>1, <2>1 DEF Tell, TypeOK, TasksType, DataType, startVars, engineVars
<1>2. ASSUME NEW p \in PCs, NEW x \in Named, NEW s \in SUBSET Named, WellFormed(Task(p, x, s))
      PROVE  Task(p, x, s) \in TaskRecords
  BY <1>2, TaskIsRecord
<1> USE DEF PCs, RequirementPCs, CancelPCs, AssetPCs, DevicePCs, ObserverPCs, ChangePCs, StorePCs,
            CachePCs, EnginePCs
<1>3. ASSUME NEW r \in Requirements, SubmitRequirement(r) \/ RevokeRequirement(r)
      PROVE  TypeOK'
  <2>1. /\ Task("reqPut", r, {}) \in TaskRecords
        /\ Task("reqGone", r, {}) \in TaskRecords
    BY <1>2 DEF WellFormed, Task, Named
  <2>2. CASE SubmitRequirement(r)
    BY <1>1, <2>1, <2>2 DEF SubmitRequirement, TypeOK, TasksType, DataType
  <2>3. CASE RevokeRequirement(r)
    BY <1>1, <2>1, <2>3 DEF RevokeRequirement, TypeOK, TasksType, DataType
  <2> QED BY <1>3, <2>2, <2>3
<1>4. ASSUME NEW a \in Assets, RemoveAsset(a)
      PROVE  TypeOK'
  <2>1. Task("assetGone", a, {}) \in TaskRecords
    BY <1>2 DEF WellFormed, Task, Named
  <2> QED BY <1>1, <1>4, <2>1 DEF RemoveAsset, TypeOK, TasksType, DataType
<1>5. ASSUME NEW a \in Assets, NEW p \in Places, PlaceAsset(a, p)
      PROVE  TypeOK'
  <2>1. Task("assetPut", a, {p}) \in TaskRecords
    BY <1>2 DEF WellFormed, Task, Named
  <2> QED BY <1>1, <1>5, <2>1 DEF PlaceAsset, TypeOK, TasksType, DataType
<1>6. ASSUME NEW p \in Places, RelocateDevice(p)
      PROVE  TypeOK'
  <2>1. Task("deviceUpdated", p, {}) \in TaskRecords
    BY <1>2 DEF WellFormed, Task, Named
  <2> QED BY <1>1, <1>6, <2>1 DEF RelocateDevice, TypeOK, TasksType, DataType
<1> QED BY <1>3, <1>4, <1>5, <1>6 DEF Ledger

\* The records a step leads to, each with the fields its next step needs.
LEMMA NextRecords ==
    /\ \A r \in Requirements :
          /\ \A p \in RequirementPCs : Task(p, r, {}) \in TaskRecords
          /\ \A s \in SUBSET Objects : /\ Task("reqCancel", r, s) \in TaskRecords
                                       /\ Task("reqEnd", r, s) \in TaskRecords
    /\ \A a \in Assets :
          /\ \A s \in SUBSET Assets : Task("assetAssign", a, s) \in TaskRecords
          /\ \A p \in AssetPCs \cup ChangePCs :
                Task(p, a, {}) \in TaskRecords
    /\ \A x \in Places : /\ Task("deviceStore", x, {}) \in TaskRecords
                         /\ Task("queryAssets", x, {}) \in TaskRecords
    /\ \A p \in {"locationChanged", "flushAssets", "readLocation", "flushRequests",
                  "readAssets", "cacheChanged"} : Task(p, Nil, {}) \in TaskRecords
    /\ \A s \in SUBSET Requirements :
          /\ Task("gainedStore", Nil, s) \in TaskRecords
          /\ Task("storeRequests", Nil, s) \in TaskRecords
    /\ \A s \in SUBSET Assets : /\ Task("storeAssets", Nil, s) \in TaskRecords
                                /\ Task("queryRequests", Nil, s) \in TaskRecords
    /\ \A s \in SUBSET Objects :
          /\ Task("requirementsChanged", Nil, s) \in TaskRecords
          /\ Task("act", Nil, s) \in TaskRecords
          /\ Task("cancelLost", Nil, s) \in TaskRecords
          /\ \A o \in Objects : Task("serve", o, s) \in TaskRecords
<1> USE TaskIsRecord DEF WellFormed, Task, Named, PCs, RequirementPCs, CancelPCs, AssetPCs,
        DevicePCs, ObserverPCs, ChangePCs, StorePCs, CachePCs, EnginePCs
<1>1. \A r \in Requirements :
          /\ \A p \in RequirementPCs : Task(p, r, {}) \in TaskRecords
          /\ \A s \in SUBSET Objects : /\ Task("reqCancel", r, s) \in TaskRecords
                                       /\ Task("reqEnd", r, s) \in TaskRecords
  OBVIOUS
<1>2. \A a \in Assets :
          /\ \A s \in SUBSET Assets : Task("assetAssign", a, s) \in TaskRecords
          /\ \A p \in AssetPCs \cup ChangePCs :
                Task(p, a, {}) \in TaskRecords
  OBVIOUS
<1>3. \A x \in Places : /\ Task("deviceStore", x, {}) \in TaskRecords
                         /\ Task("queryAssets", x, {}) \in TaskRecords
  OBVIOUS
<1>4. \A p \in {"locationChanged", "flushAssets", "readLocation", "flushRequests",
                "readAssets", "cacheChanged"} : Task(p, Nil, {}) \in TaskRecords
  OBVIOUS
<1>5. \A s \in SUBSET Requirements :
          /\ Task("gainedStore", Nil, s) \in TaskRecords
          /\ Task("storeRequests", Nil, s) \in TaskRecords
  OBVIOUS
<1>6. \A s \in SUBSET Assets : /\ Task("storeAssets", Nil, s) \in TaskRecords
                                /\ Task("queryRequests", Nil, s) \in TaskRecords
  OBVIOUS
<1>7. \A s \in SUBSET Objects :
          /\ Task("requirementsChanged", Nil, s) \in TaskRecords
          /\ Task("act", Nil, s) \in TaskRecords
          /\ Task("cancelLost", Nil, s) \in TaskRecords
          /\ \A o \in Objects : Task("serve", o, s) \in TaskRecords
  OBVIOUS
<1> QED BY <1>1, <1>2, <1>3, <1>4, <1>5, <1>6, <1>7

\* A step of a goroutine, but for the fields it changes.
LEMMA ObserverType == ASSUME TypeOK, NEW t \in Tasks, Observer(t) PROVE TypeOK'
<1> USE NextRecords, IdleIsRecord, BecomeType, EmitType, TaskType, EventOfTask
    DEF At, Finish, TypeOK, ledgerVars, startVars, engineVars
<1>1. CASE RequirementCheck(t)
  <2>1. task[t].on \in Requirements
    BY <1>1 DEF RequirementCheck, WellFormed, RequirementPCs
  <2>2. task' \in [Tasks -> TaskRecords]
    BY <1>1, <2>1 DEF RequirementCheck, RequirementPCs
  <2> QED BY <1>1, <2>2 DEF RequirementCheck
<1>2. CASE RequirementCancel(t)
  <2>1. task[t].on \in Requirements
    BY <1>2 DEF RequirementCancel, WellFormed, RequirementPCs
  <2>2. task' \in [Tasks -> TaskRecords]
    BY <1>2, <2>1 DEF RequirementCancel, RequirementPCs
  <2> QED BY <1>2, <2>2, AfterCancelType DEF RequirementCancel
<1>3. CASE RequirementStore(t)
  <2>1. task[t].on \in Requirements
    BY <1>3 DEF RequirementStore, WellFormed, RequirementPCs
  <2>2. {<<task[t].on, t[1]>>} \in SUBSET Objects
    BY <2>1 DEF Objects
  <2>3. task' \in [Tasks -> TaskRecords]
    BY <1>3, <2>2 DEF RequirementStore, ToEngine, Roles
  <2> QED BY <1>3, <2>3, StoredType DEF RequirementStore
<1>4. CASE RequirementGet(t) \/ RequirementGone(t)
  <2>1. task[t].on \in Requirements
    BY <1>4 DEF RequirementGet, RequirementGone, WellFormed, RequirementPCs
  <2>2. requests[task[t].on] # Nil => {requests[task[t].on]} \in SUBSET Objects
    BY <2>1
  <2>3. task' \in [Tasks -> TaskRecords]
    BY <1>4, <2>1, <2>2 DEF RequirementGet, RequirementGone, RequirementPCs
  <2> QED BY <1>4, <2>3 DEF RequirementGet, RequirementGone
<1>11. CASE RequirementEnd(t)
  <2>1. task[t].on \in Requirements
    BY <1>11 DEF RequirementEnd, WellFormed, RequirementPCs
  <2>2. task' \in [Tasks -> TaskRecords]
    BY <1>11, <2>1 DEF RequirementEnd, RequirementPCs
  <2> QED BY <1>11, <2>2, AfterCancelType DEF RequirementEnd
<1>5. CASE RequirementDelete(t)
  BY <1>5, WithoutType DEF RequirementDelete
<1>6. CASE AssetSeen(t)
  <2>1. task[t].on \in Assets
    BY <1>6 DEF AssetSeen, WellFormed, AssetPCs
  <2>2. task' \in [Tasks -> TaskRecords]
    BY <1>6, <2>1 DEF AssetSeen, AssetPCs
  <2> QED BY <1>6, <2>2 DEF AssetSeen
<1>12. CASE AssetKnown(t)
  <2>1. task[t].on \in Assets
    BY <1>12 DEF AssetKnown, WellFormed, AssetPCs
  <2>2. {task[t].on} \ assets \in SUBSET Assets
    BY <2>1
  <2>3. task' \in [Tasks -> TaskRecords]
    BY <1>12, <2>1, <2>2 DEF AssetKnown
  <2> QED BY <1>12, <2>3 DEF AssetKnown
<1>13. CASE AssetGone(t)
  <2>1. task[t].on \in Assets
    BY <1>13 DEF AssetGone, WellFormed, AssetPCs
  <2>2. task' \in [Tasks -> TaskRecords]
    BY <1>13, <2>1 DEF AssetGone, AssetPCs
  <2> QED BY <1>13, <2>2 DEF AssetGone
<1>7. CASE AssetAssign(t)
  <2>1. task[t].on \in Assets
    BY <1>7 DEF AssetAssign, WellFormed, AssetPCs
  <2>2. task' \in [Tasks -> TaskRecords]
    BY <1>7, <2>1 DEF AssetAssign, Roles, ChangePCs
  <2> QED BY <1>7, <2>1, <2>2 DEF AssetAssign
<1>8. CASE AssetUnassign(t)
  <2>1. task[t].on \in Assets
    BY <1>8 DEF AssetUnassign, WellFormed, AssetPCs
  <2>2. task' \in [Tasks -> TaskRecords]
    BY <1>8, <2>1 DEF AssetUnassign, Roles, ChangePCs
  <2> QED BY <1>8, <2>1, <2>2 DEF AssetUnassign
<1>9. CASE DeviceUpdated(t)
  <2>1. task[t].on \in Places
    BY <1>9 DEF DeviceUpdated, WellFormed, DevicePCs
  <2>2. task' \in [Tasks -> TaskRecords]
    BY <1>9, <2>1 DEF DeviceUpdated, Roles
  <2> QED BY <1>9, <2>2 DEF DeviceUpdated
<1>10. CASE DeviceStore(t)
  <2>1. task[t].on \in Places
    BY <1>10 DEF DeviceStore, WellFormed, DevicePCs
  <2> QED BY <1>10, <2>1 DEF DeviceStore
<1> QED BY <1>1, <1>2, <1>3, <1>4, <1>5, <1>6, <1>7, <1>8, <1>9, <1>10, <1>11, <1>12, <1>13
        DEF Observer

LEMMA CacheType == ASSUME TypeOK, NEW t \in Tasks, Cache(t) PROVE TypeOK'
<1> USE NextRecords, IdleIsRecord, BecomeType, EmitType, TaskType, EventOfTask
    DEF At, Finish, TypeOK, ledgerVars, startVars, engineVars
<1>1. CASE AssetsLost(t)
  <2>1. CachedFor({task[t].on}) \in SUBSET Objects
    BY CachedObjectsType DEF CachedFor
  <2> QED BY <1>1, <2>1 DEF AssetsLost
<1>11. CASE CancelLost(t)
  <2>1. task[t].held \subseteq Objects
    BY <1>11 DEF CancelLost, WellFormed, CancelPCs
  <2>2. PICK o \in task[t].held :
             /\ receivers' = AfterCancel({o})
             /\ requests' = Without(RequestID(o))
             /\ Become(t, Task("cancelLost", Nil, task[t].held \ {o}))
    BY <1>11 DEF CancelLost
  <2>3. task[t].held \ {o} \in SUBSET Objects
    BY <2>1
  <2>4. task' \in [Tasks -> TaskRecords]
    BY <2>2, <2>3
  <2> QED BY <1>11, <2>2, <2>4, AfterCancelType, WithoutType DEF CancelLost
<1>12. CASE LostCancelled(t)
  BY <1>12 DEF LostCancelled
<1>13. CASE ReadLocation(t)
  BY <1>13 DEF ReadLocation
<1>14. CASE ReadAssets(t)
  BY <1>14 DEF ReadAssets
<1>2. CASE AssetsGained(t)
  <2>1. RequirementsFor({task[t].on}) \in SUBSET Requirements
    BY DEF RequirementsFor
  <2> QED BY <1>2, <2>1 DEF AssetsGained
<1>3. CASE GainedStore(t)
  <2>1. task[t].held \subseteq Requirements
    BY <1>3 DEF GainedStore, WellFormed, StorePCs
  <2>2. task[t].held \X {t[1]} \in SUBSET Objects
    BY <2>1 DEF Objects
  <2>3. task' \in [Tasks -> TaskRecords]
    BY <1>3, <2>2 DEF GainedStore, ToEngine, Roles
  <2> QED BY <1>3, <2>3, StoredType DEF GainedStore
<1>4. CASE LocationChanged(t)
  <2>1. task' \in [Tasks -> TaskRecords]
    BY <1>4 DEF LocationChanged
  <2> QED BY <1>4, <2>1, AfterCancelType DEF LocationChanged
<1>5. CASE FlushAssets(t)
  BY <1>5 DEF FlushAssets
<1>6. CASE QueryAssets(t)
  <2>1. AssetsNear(task[t].on) \in SUBSET Assets
    BY DEF AssetsNear
  <2> QED BY <1>6, <2>1 DEF QueryAssets
<1>7. CASE StoreAssets(t)
  <2>1. task[t].held \subseteq Assets
    BY <1>7 DEF StoreAssets, WellFormed
  <2> QED BY <1>7, <2>1 DEF StoreAssets
<1>8. CASE FlushRequests(t)
  <2>1. requests' \in [Requirements -> Objects \cup {Nil}]
    BY <1>8 DEF FlushRequests
  <2> QED BY <1>8, <2>1 DEF FlushRequests
<1>9. CASE QueryRequests(t)
  <2>1. RequirementsFor(task[t].held) \in SUBSET Requirements
    BY DEF RequirementsFor
  <2> QED BY <1>9, <2>1 DEF QueryRequests
<1>10. CASE StoreRequests(t)
  <2>1. task' \in [Tasks -> TaskRecords]
    BY <1>10 DEF StoreRequests
  <2> QED BY <1>10, <2>1, StoredType DEF StoreRequests
<1> QED BY <1>1, <1>2, <1>3, <1>4, <1>5, <1>6, <1>7, <1>8, <1>9, <1>10, <1>11, <1>12, <1>13,
           <1>14 DEF Cache

\* The loop over the requests holds objects, or is done.
LEMMA ActingType == ASSUME NEW os \in SUBSET Objects PROVE Acting(os) \in TaskRecords
BY NextRecords, IdleIsRecord DEF Acting

LEMMA EngineType == ASSUME TypeOK, NEW t \in Tasks, Engine(t) PROVE TypeOK'
<1> USE NextRecords, IdleIsRecord, ActingType, BecomeType, TaskType
    DEF At, Finish, TypeOK, ledgerVars, startVars, engineVars
<1>h. task[t].pc \in EnginePCs => task[t].held \in SUBSET Objects
  BY DEF WellFormed
<1>1. CASE RequirementsChanged(t)
  BY <1>1, <1>h DEF RequirementsChanged, EnginePCs
<1>2. CASE CacheChanged(t)
  BY <1>2, CachedObjectsType DEF CacheChanged
<1>3. CASE Act(t)
  <2>1. task[t].held \in SUBSET Objects
    BY <1>3, <1>h DEF Act, EnginePCs
  <2>2. task' \in [Tasks -> TaskRecords]
    BY <1>3, <2>1 DEF Act
  <2> QED BY <1>3, <2>2 DEF Act
<1>4. CASE ServeOnce(t)
  <2>1. task[t].held \in SUBSET Objects /\ task[t].on \in Objects
    BY <1>4, <1>h DEF ServeOnce, EnginePCs, WellFormed
  <2>2. task' \in [Tasks -> TaskRecords]
    BY <1>4, <2>1 DEF ServeOnce
  <2>3. sent' \in [Objects -> Nat]
    BY <1>4, <2>1 DEF ServeOnce
  <2> QED BY <1>4, <2>2, <2>3, WithoutType DEF ServeOnce
<1>5. CASE ServePeriodic(t)
  <2>1. task[t].held \in SUBSET Objects /\ task[t].on \in Objects
    BY <1>5, <1>h DEF ServePeriodic, EnginePCs, WellFormed
  <2>2. task' \in [Tasks -> TaskRecords]
    BY <1>5, <2>1 DEF ServePeriodic
  <2> QED BY <1>5, <2>1, <2>2 DEF ServePeriodic
<1> QED BY <1>1, <1>2, <1>3, <1>4, <1>5 DEF Engine

LEMMA TypeStep == TypeOK /\ [Next]_vars => TypeOK'
<1> SUFFICES ASSUME TypeOK, [Next]_vars PROVE TypeOK'
  OBVIOUS
<1>1. ASSUME NEW topic \in Topics, Watch(topic) PROVE TypeOK'
  BY <1>1 DEF TypeOK, Watch, ledgerVars, engineVars
<1>2. CASE Subscribe
  BY <1>2 DEF TypeOK, Subscribe, ledgerVars, engineVars
<1>3. CASE StartRuns
  BY <1>3 DEF TypeOK, StartRuns, ledgerVars, engineVars
<1>4. CASE SensorsAppear
  BY <1>4, NextRecords DEF TypeOK, SensorsAppear, ledgerVars, engineVars
<1>5. CASE UNCHANGED vars
  BY <1>5 DEF TypeOK, vars, ledgerVars, startVars, engineVars
<1> QED BY <1>1, <1>2, <1>3, <1>4, <1>5, LedgerType, ObserverType, CacheType, EngineType
        DEF Next, Goroutine

\* The state of the model always has the shape the cache and the engine give it.
THEOREM TypeCorrect == Spec => []TypeOK
BY InitType, TypeStep, PTL DEF Spec

--------------------------------------------------------------------------------
(* One handler after another: a handler is only made ready where no handler *)
(* is pending, so none is ever lost.                                        *)

StepsOf(role) ==
    IF role = "observer" THEN ObserverPCs ELSE IF role = "cache" THEN CachePCs ELSE EnginePCs

\* A task only takes the steps of its role.
RolesKept == \A t \in Tasks : task[t].pc \in {"idle"} \cup StepsOf(t[2])

\* While a goroutine of an event may still make others ready, they are idle.
EngineIdle(n) == At(<<n, "engine">>, "idle") /\ At(<<n, "engineAgain">>, "idle")
InTurn(n) ==
    /\ n > eventCount => /\ At(<<n, "observer">>, "idle")
                         /\ At(<<n, "cache">>, "idle")
                         /\ EngineIdle(n)
    /\ task[<<n, "observer">>].pc \notin {"idle", "deviceStore"} =>
            At(<<n, "cache">>, "idle") /\ EngineIdle(n)
    /\ ~At(<<n, "cache">>, "idle") => EngineIdle(n)
OneAfterAnother == \A n \in 0..MaxEvents : InTurn(n)

HandlersInv == TypeOK /\ RolesKept /\ OneAfterAnother

LEMMA DistinctRoles ==
    ASSUME NEW n \in 0..MaxEvents
    PROVE  /\ {<<n, "observer">>, <<n, "cache">>, <<n, "engine">>, <<n, "engineAgain">>,
               <<n, "start">>} \subseteq Tasks
           /\ \A m, r, q : <<n, r>> = <<m, q>> => n = m /\ r = q
BY DEF Tasks, Roles

\* What becomes of the tasks when one goes on, and when it makes another ready.
LEMMA BecomeEffect ==
    ASSUME task \in [Tasks -> TaskRecords], NEW t \in Tasks, NEW k, Become(t, k)
    PROVE  task'[t] = k /\ \A u \in Tasks \ {t} : task'[u] = task[u]
BY DEF Become

LEMMA EmitEffect ==
    ASSUME task \in [Tasks -> TaskRecords], NEW t \in Tasks, NEW k,
           NEW role \in Roles \ {t[2]}, NEW h, Emit(t, k, role, h)
    PROVE  /\ <<t[1], role>> \in Tasks \ {t}
           /\ task'[t] = k
           /\ task'[<<t[1], role>>] = h
           /\ \A u \in Tasks \ {t, <<t[1], role>>} : task'[u] = task[u]
<1>1. <<t[1], role>> \in Tasks
  BY DEF Tasks
<1>2. <<t[1], role>> # t
  OBVIOUS
<1> QED BY <1>1, <1>2 DEF Emit

\* What a step of EventsObserver does to the tasks.
ObserverStep(t) ==
    LET c == <<t[1], "cache">>
        e == <<t[1], "engine">>
    IN  /\ t = <<t[1], "observer">>
        /\ task[t].pc # "idle"
        /\ task'[t].pc \in {"idle"} \cup ObserverPCs
        /\ \A u \in Tasks \ {t, c, e} : task'[u] = task[u]
        /\ \/ /\ task'[c] = task[c] /\ task'[e] = task[e]
              /\ At(t, "deviceStore") => task'[t].pc = "idle"
           \/ /\ ~At(t, "deviceStore")
              /\ task'[t].pc \in {"idle", "deviceStore"}
              /\ task'[c].pc \in CachePCs /\ task'[e] = task[e]
           \/ /\ ~At(t, "deviceStore")
              /\ task'[t].pc = "idle"
              /\ task'[c] = task[c] /\ task'[e].pc \in EnginePCs

\* What a step of CacheManager does to the tasks.
CacheStep(t) ==
    LET e == <<t[1], "engine">>
        f == <<t[1], "engineAgain">>
    IN  /\ t = <<t[1], "cache">>
        /\ task[t].pc # "idle"
        /\ task'[t].pc \in {"idle"} \cup CachePCs
        /\ \A u \in Tasks \ {t, e, f} : task'[u] = task[u]
        /\ \/ task'[e] = task[e] /\ task'[f] = task[f]
           \/ /\ task'[t].pc = "idle"
              /\ task'[e].pc \in EnginePCs
              /\ task'[f].pc \in {"idle"} \cup EnginePCs

\* What a step of EngineOperator does to the tasks.
EngineStep(t) ==
    /\ t[2] \in {"engine", "engineAgain", "start"}
    /\ task[t].pc # "idle"
    /\ task'[t].pc \in {"idle"} \cup EnginePCs
    /\ \A u \in Tasks \ {t} : task'[u] = task[u]

LEMMA ObserverBecomes ==
    ASSUME TypeOK, NEW t \in Tasks, t = <<t[1], "observer">>, task[t].pc \in ObserverPCs,
           NEW k, k.pc \in {"idle"} \cup ObserverPCs,
           At(t, "deviceStore") => k.pc = "idle", Become(t, k)
    PROVE  ObserverStep(t)
<1>1. /\ <<t[1], "cache">> \in Tasks \ {t}
      /\ <<t[1], "engine">> \in Tasks \ {t}
  <2>1. <<t[1], "cache">> # t /\ <<t[1], "engine">> # t
    OBVIOUS
  <2> QED BY <2>1, EventOfTask DEF Roles
<1>2. task[t].pc # "idle"
  BY DEF ObserverPCs, RequirementPCs, AssetPCs, DevicePCs
<1> QED BY <1>1, <1>2, BecomeEffect DEF TypeOK, ObserverStep

LEMMA ObserverEmits ==
    ASSUME TypeOK, NEW t \in Tasks, t = <<t[1], "observer">>, task[t].pc \in ObserverPCs,
           ~At(t, "deviceStore"), NEW role \in {"cache", "engine"},
           NEW h, h.pc \in StepsOf(role),
           NEW k, k.pc = "idle" \/ (k.pc = "deviceStore" /\ role = "cache"),
           Emit(t, k, role, h)
    PROVE  ObserverStep(t)
<1>1. role \in Roles \ {t[2]}
  <2>1. t[2] = "observer"
    OBVIOUS
  <2> QED BY <2>1 DEF Roles
<1>2. task[t].pc # "idle" /\ k.pc \in {"idle"} \cup ObserverPCs
  BY DEF ObserverPCs, RequirementPCs, AssetPCs, DevicePCs
<1>3. /\ <<t[1], "cache">> \in Tasks \ {t}
      /\ <<t[1], "engine">> \in Tasks \ {t}
      /\ <<t[1], "cache">> # <<t[1], "engine">>
  <2>1. <<t[1], "cache">> # t /\ <<t[1], "engine">> # t
    OBVIOUS
  <2> QED BY <2>1, EventOfTask DEF Roles
<1>4. /\ task'[t] = k
      /\ task'[<<t[1], role>>] = h
      /\ \A u \in Tasks \ {t, <<t[1], role>>} : task'[u] = task[u]
  BY <1>1, EmitEffect DEF TypeOK
<1>5. CASE role = "cache"
  BY <1>2, <1>3, <1>4, <1>5 DEF ObserverStep, StepsOf
<1>6. CASE role = "engine"
  BY <1>2, <1>3, <1>4, <1>6 DEF ObserverStep, StepsOf
<1> QED BY <1>5, <1>6

LEMMA ObserverShape ==
    ASSUME HandlersInv, NEW t \in Tasks, Observer(t)
    PROVE  ObserverStep(t) /\ eventCount' = eventCount
<1> USE EventOfTask DEF HandlersInv, At, ledgerVars
<1>1. t = <<t[1], "observer">> /\ task[t].pc \in ObserverPCs
  <2>1. task[t].pc \in ObserverPCs
    BY DEF Observer, RequirementCheck, RequirementGet, RequirementCancel, RequirementStore,
           RequirementGone, RequirementEnd, RequirementDelete, AssetSeen, AssetKnown,
           AssetAssign, AssetGone, AssetUnassign, DeviceUpdated, DeviceStore, ObserverPCs,
           RequirementPCs, AssetPCs, DevicePCs
  <2> QED BY <2>1 DEF RolesKept, StepsOf, Roles, ObserverPCs, RequirementPCs, AssetPCs,
             DevicePCs, CachePCs, ChangePCs, StorePCs, EnginePCs
<1> USE <1>1, ObserverBecomes, ObserverEmits
    DEF Finish, Task, Idle, StepsOf, ObserverPCs, RequirementPCs, AssetPCs, DevicePCs
<1>2. CASE RequirementCheck(t)
  BY <1>2 DEF RequirementCheck
<1>3. CASE RequirementCancel(t)
  BY <1>3 DEF RequirementCancel
<1>4. CASE RequirementStore(t)
  BY <1>4 DEF RequirementStore, ToEngine, EnginePCs
<1>5. CASE RequirementGone(t)
  BY <1>5 DEF RequirementGone
<1>6. CASE RequirementDelete(t)
  BY <1>6 DEF RequirementDelete
<1>7. CASE AssetSeen(t)
  BY <1>7 DEF AssetSeen
<1>8. CASE AssetAssign(t)
  BY <1>8 DEF AssetAssign, CachePCs, ChangePCs
<1>9. CASE AssetUnassign(t)
  BY <1>9 DEF AssetUnassign, CachePCs, ChangePCs
<1>10. CASE DeviceUpdated(t)
  BY <1>10 DEF DeviceUpdated, CachePCs
<1>11. CASE DeviceStore(t)
  BY <1>11 DEF DeviceStore
<1>12. CASE RequirementGet(t) \/ RequirementEnd(t)
  BY <1>12 DEF RequirementGet, RequirementEnd
<1>13. CASE AssetKnown(t) \/ AssetGone(t)
  BY <1>13 DEF AssetKnown, AssetGone
<1> QED BY <1>2, <1>3, <1>4, <1>5, <1>6, <1>7, <1>8, <1>9, <1>10, <1>11, <1>12, <1>13
        DEF Observer

LEMMA CacheBecomes ==
    ASSUME TypeOK, NEW t \in Tasks, t = <<t[1], "cache">>, task[t].pc \in CachePCs,
           NEW k, k.pc \in {"idle"} \cup CachePCs, Become(t, k)
    PROVE  CacheStep(t)
<1>1. /\ <<t[1], "engine">> \in Tasks \ {t}
      /\ <<t[1], "engineAgain">> \in Tasks \ {t}
  <2>1. <<t[1], "engine">> # t /\ <<t[1], "engineAgain">> # t
    OBVIOUS
  <2> QED BY <2>1, EventOfTask DEF Roles
<1>2. task[t].pc # "idle"
  BY DEF CachePCs, ChangePCs, StorePCs
<1> QED BY <1>1, <1>2, BecomeEffect DEF TypeOK, CacheStep

LEMMA CacheShape ==
    ASSUME HandlersInv, NEW t \in Tasks, Cache(t)
    PROVE  CacheStep(t) /\ eventCount' = eventCount
<1> USE EventOfTask DEF HandlersInv, At, ledgerVars
<1>1. t = <<t[1], "cache">> /\ task[t].pc \in CachePCs
  <2>1. task[t].pc \in CachePCs
    BY DEF Cache, AssetsLost, CancelLost, LostCancelled, AssetsGained, GainedStore,
           LocationChanged, FlushAssets, ReadLocation, QueryAssets, StoreAssets,
           FlushRequests, ReadAssets, QueryRequests, StoreRequests, CachePCs, ChangePCs,
           StorePCs
  <2> QED BY <2>1 DEF RolesKept, StepsOf, Roles, ObserverPCs, RequirementPCs, AssetPCs,
             DevicePCs, CachePCs, ChangePCs, StorePCs, EnginePCs
<1>e. /\ <<t[1], "engine">> \in Tasks \ {t}
      /\ <<t[1], "engineAgain">> \in Tasks \ {t}
      /\ <<t[1], "engine">> # <<t[1], "engineAgain">>
  <2>1. <<t[1], "engine">> # t /\ <<t[1], "engineAgain">> # t
    BY <1>1
  <2> QED BY <2>1 DEF Roles
<1> USE <1>1, CacheBecomes DEF Finish, Task, Idle, CachePCs, ChangePCs, StorePCs
<1>2. CASE AssetsLost(t)
  BY <1>2 DEF AssetsLost
<1>3. CASE AssetsGained(t)
  BY <1>3 DEF AssetsGained
<1>4. CASE LocationChanged(t)
  BY <1>4 DEF LocationChanged
<1>5. CASE FlushAssets(t)
  BY <1>5 DEF FlushAssets
<1>6. CASE QueryAssets(t)
  BY <1>6 DEF QueryAssets
<1>7. CASE StoreAssets(t)
  BY <1>7 DEF StoreAssets
<1>8. CASE FlushRequests(t)
  BY <1>8 DEF FlushRequests
<1>9. CASE QueryRequests(t)
  BY <1>9 DEF QueryRequests
<1>10. CASE GainedStore(t)
  <2> DEFINE h == Task("requirementsChanged", Nil, task[t].held \X {t[1]})
  <2>1. CASE Become(t, Idle)
    BY <1>10, <2>1 DEF GainedStore
  <2>2. CASE Emit(t, Idle, "engine", h)
    <3>1. /\ task'[t] = Idle
          /\ task'[<<t[1], "engine">>] = h
          /\ \A u \in Tasks \ {t, <<t[1], "engine">>} : task'[u] = task[u]
      <4>1. "engine" \in Roles \ {t[2]}
        <5>1. t[2] = "cache"
          OBVIOUS
        <5> QED BY <5>1 DEF Roles
      <4> QED BY <2>2, <4>1, EmitEffect DEF TypeOK
    <3>2. task[<<t[1], "engineAgain">>].pc = "idle"
      BY DEF OneAfterAnother, InTurn, EngineIdle
    <3> QED BY <1>10, <1>e, <3>1, <3>2 DEF GainedStore, CacheStep, EnginePCs
  <2> QED BY <1>10, <2>1, <2>2 DEF GainedStore, ToEngine
<1>11. CASE StoreRequests(t)
  <2>1. CASE Become(t, Idle)
    BY <1>11, <2>1 DEF StoreRequests
  <2>2. CASE subscribed >= 3
    <3> DEFINE g == Task("cacheChanged", Nil, {})
    <3>1. task' = [task EXCEPT ![t] = Idle, ![<<t[1], "engine">>] = g,
                               ![<<t[1], "engineAgain">>] = g]
      BY <1>11, <2>2 DEF StoreRequests
    <3>2. /\ task'[t] = Idle
          /\ task'[<<t[1], "engine">>] = g
          /\ task'[<<t[1], "engineAgain">>] = g
          /\ \A u \in Tasks \ {t, <<t[1], "engine">>, <<t[1], "engineAgain">>} :
                task'[u] = task[u]
      <4>1. DOMAIN task = Tasks
        BY DEF TypeOK
      <4> HIDE DEF g
      <4> QED BY ONLY <1>e, <3>1, <4>1, t \in Tasks
    <3>3. g.pc \in EnginePCs
      BY DEF EnginePCs
    <3>4. task'[t].pc = "idle" /\ task[t].pc # "idle"
      BY ONLY <3>2, <1>1 DEF Idle, Task, CachePCs, ChangePCs, StorePCs
    <3>5. eventCount' = eventCount
      BY ONLY <1>11 DEF StoreRequests, ledgerVars
    <3> HIDE DEF g
    <3> QED BY ONLY <1>1, <3>2, <3>3, <3>4, <3>5 DEF CacheStep
  <2> QED BY <1>11, <2>1, <2>2 DEF StoreRequests, Become
<1>12. CASE CancelLost(t) \/ LostCancelled(t)
  BY <1>12 DEF CancelLost, LostCancelled
<1>13. CASE ReadLocation(t) \/ ReadAssets(t)
  BY <1>13 DEF ReadLocation, ReadAssets
<1> QED BY <1>2, <1>3, <1>4, <1>5, <1>6, <1>7, <1>8, <1>9, <1>10, <1>11, <1>12, <1>13
        DEF Cache

LEMMA EngineShape ==
    ASSUME HandlersInv, NEW t \in Tasks, Engine(t)
    PROVE  EngineStep(t) /\ eventCount' = eventCount
<1> USE EventOfTask DEF HandlersInv, At, ledgerVars
<1>1. t[2] \in {"engine", "engineAgain", "start"} /\ task[t].pc \in EnginePCs
  <2>1. task[t].pc \in EnginePCs
    BY DEF Engine, RequirementsChanged, CacheChanged, Act, ServeOnce, ServePeriodic, EnginePCs
  <2> QED BY <2>1 DEF RolesKept, StepsOf, Roles, ObserverPCs, RequirementPCs, AssetPCs,
             DevicePCs, CachePCs, ChangePCs, StorePCs, EnginePCs
<1>2. \A os : Acting(os).pc \in {"idle", "act"}
  BY DEF Acting, Idle, Task
<1>3. \E k : Become(t, k) /\ k.pc \in {"idle"} \cup EnginePCs
  <2> USE <1>2 DEF Finish, Idle, Task, EnginePCs
  <2>1. CASE RequirementsChanged(t)
    BY <2>1 DEF RequirementsChanged
  <2>2. CASE CacheChanged(t)
    BY <2>2 DEF CacheChanged
  <2>3. CASE Act(t)
    <3>1. PICK o \in task[t].held : IF cancel[o] # Nil
             THEN Become(t, Acting(task[t].held \ {o}))
             ELSE Become(t, Task("serve", o, task[t].held \ {o}))
      BY <2>3 DEF Act
    <3> QED BY <3>1
  <2>4. CASE ServeOnce(t) \/ ServePeriodic(t)
    BY <2>4 DEF ServeOnce, ServePeriodic
  <2> QED BY <2>1, <2>2, <2>3, <2>4 DEF Engine
<1>4. eventCount' = eventCount
  BY DEF Engine, RequirementsChanged, CacheChanged, Act, ServeOnce, ServePeriodic
<1> QED BY <1>1, <1>3, <1>4 DEF Become, EngineStep, TypeOK, EnginePCs

\* The tasks of another event are not those of this one.
LEMMA OtherEvents ==
    ASSUME NEW n \in 0..MaxEvents, NEW m \in 0..MaxEvents, m # n,
           NEW t \in Tasks, t[1] = n, NEW role \in Roles, NEW q \in Roles
    PROVE  <<m, role>> \in Tasks \ {t, <<n, q>>}
BY DEF Tasks

LEMMA ObserverKeeps ==
    ASSUME HandlersInv, NEW t \in Tasks, ObserverStep(t), eventCount' = eventCount
    PROVE  RolesKept' /\ OneAfterAnother'
<1> DEFINE c == <<t[1], "cache">>
           e == <<t[1], "engine">>
           f == <<t[1], "engineAgain">>
<1>1. t[1] \in 0..MaxEvents /\ t = <<t[1], "observer">>
  BY EventOfTask DEF ObserverStep
<1>2. /\ c \in Tasks /\ e \in Tasks /\ f \in Tasks
      /\ c # t /\ e # t /\ f # t /\ c # e /\ c # f /\ e # f
  <2>1. c # t /\ e # t /\ f # t
    BY <1>1
  <2> QED BY <2>1, EventOfTask DEF Roles
<1>3. task'[f] = task[f] /\ \A u \in Tasks \ {t, c, e} : task'[u] = task[u]
  BY <1>2 DEF ObserverStep
<1>4. task[c].pc \in {"idle"} \cup CachePCs /\ task[e].pc \in {"idle"} \cup EnginePCs
  BY <1>2 DEF HandlersInv, RolesKept, StepsOf
<1>5. RolesKept'
  <2> SUFFICES ASSUME NEW u \in Tasks PROVE task'[u].pc \in {"idle"} \cup StepsOf(u[2])
    BY DEF RolesKept
  <2>1. CASE u = t
    <3>1. u[2] = "observer"
      BY <1>1, <2>1
    <3> QED BY <2>1, <3>1 DEF ObserverStep, StepsOf
  <2>2. CASE u = c
    BY <1>4, <2>2 DEF ObserverStep, StepsOf
  <2>3. CASE u = e
    BY <1>4, <2>3 DEF ObserverStep, StepsOf
  <2>4. CASE u \in Tasks \ {t, c, e}
    BY <1>3, <2>4 DEF HandlersInv, RolesKept
  <2> QED BY <2>1, <2>2, <2>3, <2>4
<1>6. /\ ~(t[1] > eventCount)
      /\ task[t].pc \notin {"idle", "deviceStore"} =>
            /\ task[c].pc = "idle" /\ task[e].pc = "idle" /\ task[f].pc = "idle"
      /\ task[c].pc # "idle" => task[e].pc = "idle" /\ task[f].pc = "idle"
  <2>1. task[t].pc # "idle"
    BY DEF ObserverStep
  <2> QED BY <1>1, <2>1 DEF HandlersInv, OneAfterAnother, InTurn, EngineIdle, At
<1>7. OneAfterAnother'
  <2> SUFFICES ASSUME NEW n \in 0..MaxEvents
               PROVE  InTurn(n)'
    BY DEF OneAfterAnother
  <2>1. CASE n # t[1]
    <3>1. \A role \in Roles : task'[<<n, role>>] = task[<<n, role>>]
      <4> SUFFICES ASSUME NEW role \in Roles
                   PROVE  <<n, role>> \in Tasks \ {t, c, e}
        BY <1>3
      <4>1. \A q \in Roles : <<n, role>> \in Tasks \ {t, <<t[1], q>>}
        BY <1>1, <2>1, OtherEvents
      <4> QED BY <4>1 DEF Roles
    <3> QED BY <3>1 DEF HandlersInv, OneAfterAnother, InTurn, EngineIdle, At, Roles
  <2>2. CASE n = t[1]
    <3>1. \/ task'[c] = task[c] /\ task'[e] = task[e]
             /\ (task[t].pc = "deviceStore" => task'[t].pc = "idle")
          \/ /\ task[t].pc # "deviceStore"
             /\ task'[t].pc \in {"idle", "deviceStore"} /\ task'[e] = task[e]
          \/ /\ task[t].pc # "deviceStore"
             /\ task'[t].pc = "idle" /\ task'[c] = task[c]
      BY DEF ObserverStep, At
    <3>2. task[t].pc # "idle"
      BY DEF ObserverStep
    <3>3. /\ task'[t].pc \notin {"idle", "deviceStore"} =>
                task'[c].pc = "idle" /\ task'[e].pc = "idle" /\ task'[f].pc = "idle"
          /\ task'[c].pc # "idle" => task'[e].pc = "idle" /\ task'[f].pc = "idle"
      BY <1>3, <1>6, <3>1, <3>2
    <3>4. <<n, "observer">> = t /\ <<n, "cache">> = c /\ <<n, "engine">> = e
          /\ <<n, "engineAgain">> = f
      BY <1>1, <2>2
    <3> QED BY <1>6, <2>2, <3>3, <3>4 DEF InTurn, EngineIdle, At
  <2> QED BY <2>1, <2>2
<1> QED BY <1>5, <1>7

LEMMA CacheKeeps ==
    ASSUME HandlersInv, NEW t \in Tasks, CacheStep(t), eventCount' = eventCount
    PROVE  RolesKept' /\ OneAfterAnother'
<1> DEFINE b == <<t[1], "observer">>
           e == <<t[1], "engine">>
           f == <<t[1], "engineAgain">>
<1>1. t[1] \in 0..MaxEvents /\ t = <<t[1], "cache">>
  BY EventOfTask DEF CacheStep
<1>2. /\ b \in Tasks /\ e \in Tasks /\ f \in Tasks
      /\ b # t /\ e # t /\ f # t /\ b # e /\ b # f /\ e # f
  <2>1. b # t /\ e # t /\ f # t
    BY <1>1
  <2> QED BY <2>1, EventOfTask DEF Roles
<1>3. task'[b] = task[b] /\ \A u \in Tasks \ {t, e, f} : task'[u] = task[u]
  BY <1>2 DEF CacheStep
<1>4. task[e].pc \in {"idle"} \cup EnginePCs /\ task[f].pc \in {"idle"} \cup EnginePCs
  BY <1>2 DEF HandlersInv, RolesKept, StepsOf
<1>5. RolesKept'
  <2> SUFFICES ASSUME NEW u \in Tasks PROVE task'[u].pc \in {"idle"} \cup StepsOf(u[2])
    BY DEF RolesKept
  <2>1. CASE u = t
    <3>1. u[2] = "cache"
      BY <1>1, <2>1
    <3> QED BY <2>1, <3>1 DEF CacheStep, StepsOf
  <2>2. CASE u = e
    BY <1>4, <2>2 DEF CacheStep, StepsOf
  <2>3. CASE u = f
    BY <1>4, <2>3 DEF CacheStep, StepsOf
  <2>4. CASE u \in Tasks \ {t, e, f}
    BY <1>3, <2>4 DEF HandlersInv, RolesKept
  <2> QED BY <2>1, <2>2, <2>3, <2>4
<1>6. /\ ~(t[1] > eventCount)
      /\ task[b].pc \in {"idle", "deviceStore"}
      /\ task[e].pc = "idle" /\ task[f].pc = "idle"
  <2>1. task[t].pc # "idle"
    BY DEF CacheStep
  <2> QED BY <1>1, <2>1 DEF HandlersInv, OneAfterAnother, InTurn, EngineIdle, At
<1>7. OneAfterAnother'
  <2> SUFFICES ASSUME NEW n \in 0..MaxEvents
               PROVE  InTurn(n)'
    BY DEF OneAfterAnother
  <2>1. CASE n # t[1]
    <3>1. \A role \in Roles : task'[<<n, role>>] = task[<<n, role>>]
      <4> SUFFICES ASSUME NEW role \in Roles
                   PROVE  <<n, role>> \in Tasks \ {t, e, f}
        BY <1>3
      <4>1. \A q \in Roles : <<n, role>> \in Tasks \ {t, <<t[1], q>>}
        BY <1>1, <2>1, OtherEvents
      <4> QED BY <4>1 DEF Roles
    <3> QED BY <3>1 DEF HandlersInv, OneAfterAnother, InTurn, EngineIdle, At, Roles
  <2>2. CASE n = t[1]
    <3>1. task'[t].pc # "idle" => task'[e].pc = "idle" /\ task'[f].pc = "idle"
      BY <1>6 DEF CacheStep
    <3>2. <<n, "observer">> = b /\ <<n, "cache">> = t /\ <<n, "engine">> = e
          /\ <<n, "engineAgain">> = f
      BY <1>1, <2>2
    <3> QED BY <1>3, <1>6, <2>2, <3>1, <3>2 DEF InTurn, EngineIdle, At
  <2> QED BY <2>1, <2>2
<1> QED BY <1>5, <1>7

LEMMA EngineKeeps ==
    ASSUME HandlersInv, NEW t \in Tasks, EngineStep(t), eventCount' = eventCount
    PROVE  RolesKept' /\ OneAfterAnother'
<1>1. RolesKept'
  BY DEF EngineStep, HandlersInv, RolesKept, StepsOf
<1>2. \A u \in Tasks : u # t => task'[u] = task[u]
  BY DEF EngineStep
<1>3. task[t].pc # "idle"
  BY DEF EngineStep
<1>4. OneAfterAnother'
  <2> SUFFICES ASSUME NEW n \in 0..MaxEvents
               PROVE  InTurn(n)'
    BY DEF OneAfterAnother
  <2>1. <<n, "observer">> \in Tasks /\ <<n, "cache">> \in Tasks
        /\ <<n, "engine">> \in Tasks /\ <<n, "engineAgain">> \in Tasks
    BY DistinctRoles
  <2>2. <<n, "observer">> # t /\ <<n, "cache">> # t
    BY DEF EngineStep
  <2>3. \A u \in {<<n, "engine">>, <<n, "engineAgain">>} :
            task[u].pc = "idle" => task'[u].pc = "idle"
    BY <1>2, <1>3, <2>1
  <2> QED BY <1>2, <2>1, <2>2, <2>3 DEF HandlersInv, OneAfterAnother, InTurn, EngineIdle, At
<1> QED BY <1>1, <1>4

\* The event of a change of the ledger is new: no task of it is under way.
LEMMA TellKeeps ==
    ASSUME HandlersInv, NEW topic, NEW h, h.pc \in ObserverPCs, Tell(topic, h)
    PROVE  RolesKept' /\ OneAfterAnother'
<1> DEFINE b == <<eventCount + 1, "observer">>
<1>1. eventCount + 1 \in 0..MaxEvents /\ eventCount' = eventCount + 1
      /\ eventCount \in 0..MaxEvents
  BY DEF Tell, HandlersInv, TypeOK
<1>2. b \in Tasks /\ task'[b].pc \in {task[b].pc} \cup ObserverPCs
      /\ \A u \in Tasks \ {b} : task'[u] = task[u]
  BY <1>1 DEF Tell, HandlersInv, TypeOK, Tasks, Roles
<1>3. RolesKept'
  BY <1>2 DEF HandlersInv, RolesKept, StepsOf
<1>4. ASSUME NEW n \in 0..MaxEvents PROVE InTurn(n)'
  <2>1. \A role \in {"cache", "engine", "engineAgain"} :
            <<n, role>> \in Tasks /\ task'[<<n, role>>] = task[<<n, role>>]
    <3>1. \A role \in {"cache", "engine", "engineAgain"} : <<n, role>> \in Tasks \ {b}
      BY DistinctRoles
    <3> QED BY <1>2, <3>1
  <2>2. CASE n = eventCount + 1
    BY <1>1, <2>1, <2>2 DEF HandlersInv, OneAfterAnother, InTurn, EngineIdle, At
  <2>3. CASE n # eventCount + 1
    <3>1. <<n, "observer">> \in Tasks \ {b}
      BY <2>3, DistinctRoles
    <3>2. task'[<<n, "observer">>] = task[<<n, "observer">>]
      BY <1>2, <3>1
    <3> QED BY <1>1, <2>1, <3>2 DEF HandlersInv, OneAfterAnother, InTurn, EngineIdle, At
  <2> QED BY <2>2, <2>3
<1> QED BY <1>3, <1>4 DEF OneAfterAnother

LEMMA HandlersInit == Init => HandlersInv
<1> SUFFICES ASSUME Init PROVE HandlersInv
  OBVIOUS
<1>1. \A u \in Tasks : task[u] = IF u = <<0, "cache">> THEN Task("flushAssets", Nil, {})
                                                      ELSE Idle
  BY DEF Init
<1>2. \A u \in Tasks \ {<<0, "cache">>} : task[u].pc = "idle"
  BY <1>1 DEF Idle, Task
<1>3. RolesKept
  <2>1. <<0, "cache">> \in Tasks => task[<<0, "cache">>].pc \in CachePCs
    BY <1>1 DEF Task, CachePCs
  <2> QED BY <1>2, <2>1 DEF RolesKept, StepsOf
<1>4. ASSUME NEW n \in 0..MaxEvents PROVE InTurn(n)
  <2>1. \A role \in {"observer", "engine", "engineAgain"} :
            <<n, role>> \in Tasks \ {<<0, "cache">>}
    BY DistinctRoles
  <2>2. n # 0 => <<n, "cache">> \in Tasks \ {<<0, "cache">>}
    BY DistinctRoles
  <2>3. n > eventCount => n # 0
    BY DEF Init
  <2> QED BY <1>2, <2>1, <2>2, <2>3 DEF InTurn, EngineIdle, At
<1> QED BY <1>3, <1>4, InitType DEF HandlersInv, OneAfterAnother

\* The change of the ledger a step makes, if it makes one, and its event.
LEMMA LedgerTells ==
    ASSUME Ledger
    PROVE  \E topic, h : h.pc \in ObserverPCs /\ Tell(topic, h)
BY DEF Ledger, SubmitRequirement, RevokeRequirement, PlaceAsset, RemoveAsset, RelocateDevice,
       Task, ObserverPCs, RequirementPCs, AssetPCs, DevicePCs

LEMMA HandlersStep == HandlersInv /\ [Next]_vars => HandlersInv'
<1> SUFFICES ASSUME HandlersInv, [Next]_vars PROVE RolesKept' /\ OneAfterAnother'
  BY TypeStep DEF HandlersInv
<1>1. CASE Ledger
  BY <1>1, LedgerTells, TellKeeps
<1>2. ASSUME NEW t \in Tasks, Goroutine(t) PROVE RolesKept' /\ OneAfterAnother'
  <2>1. CASE Observer(t)
    BY <2>1, ObserverShape, ObserverKeeps
  <2>2. CASE Cache(t)
    BY <2>2, CacheShape, CacheKeeps
  <2>3. CASE Engine(t)
    BY <2>3, EngineShape, EngineKeeps
  <2> QED BY <1>2, <2>1, <2>2, <2>3 DEF Goroutine
<1>3. CASE SensorsAppear
  <2>1. <<0, "start">> \in Tasks
    BY DEF Tasks, Roles
  <2>2. /\ task'[<<0, "start">>].pc \in EnginePCs
        /\ \A u \in Tasks \ {<<0, "start">>} : task'[u] = task[u]
    BY <1>3, <2>1 DEF SensorsAppear, HandlersInv, TypeOK, Task, EnginePCs
  <2>3. RolesKept'
    BY <2>2 DEF HandlersInv, RolesKept, StepsOf
  <2>4. ASSUME NEW n \in 0..MaxEvents PROVE InTurn(n)'
    <3>1. \A role \in Roles \ {"start"} : <<n, role>> \in Tasks \ {<<0, "start">>}
      BY DEF Tasks
    <3>2. \A role \in Roles \ {"start"} : task'[<<n, role>>] = task[<<n, role>>]
      BY <2>2, <3>1
    <3> QED BY <1>3, <3>2 DEF SensorsAppear, ledgerVars, HandlersInv, OneAfterAnother, InTurn,
               EngineIdle, At, Roles
  <2> QED BY <2>3, <2>4 DEF OneAfterAnother
<1>4. CASE (\E topic \in Topics : Watch(topic)) \/ Subscribe \/ StartRuns \/ UNCHANGED vars
  <2>1. task' = task /\ eventCount' = eventCount
    BY <1>4 DEF Watch, Subscribe, StartRuns, vars, ledgerVars
  <2> QED BY <2>1 DEF HandlersInv, RolesKept, OneAfterAnother, InTurn, EngineIdle, At
<1> QED BY <1>1, <1>2, <1>3, <1>4 DEF Next

--------------------------------------------------------------------------------
(* No cached request is forgotten by a running engine.                      *)

\* A task of EngineOperator is disturbed by no other goroutine.
LEMMA Undisturbed ==
    ASSUME HandlersInv, NEW t \in Tasks, Goroutine(t),
           NEW u \in Tasks \ {t}, task[u].pc \in EnginePCs
    PROVE  task'[u] = task[u]
<1>1. u[2] \in {"engine", "engineAgain", "start"}
  BY EventOfTask DEF HandlersInv, RolesKept, StepsOf, Roles, EnginePCs, ObserverPCs, CachePCs,
     RequirementPCs, AssetPCs, DevicePCs, ChangePCs, StorePCs
<1>2. CASE Observer(t)
  <2>1. ObserverStep(t) /\ t[1] \in 0..MaxEvents
    BY <1>2, ObserverShape, EventOfTask
  <2>2. u # <<t[1], "cache">>
    BY <1>1
  <2>3. CASE u = <<t[1], "engine">>
    <3>1. task[t].pc = "deviceStore"
      BY <2>1, <2>3 DEF ObserverStep, HandlersInv, OneAfterAnother, InTurn, EngineIdle, At,
         EnginePCs
    <3> QED BY <2>1, <2>3, <3>1 DEF ObserverStep, At
  <2>4. CASE u # <<t[1], "engine">>
    BY <2>1, <2>2, <2>4 DEF ObserverStep
  <2> QED BY <2>3, <2>4
<1>3. CASE Cache(t)
  <2>1. CacheStep(t) /\ t[1] \in 0..MaxEvents
    BY <1>3, CacheShape, EventOfTask
  <2>2. task[<<t[1], "engine">>].pc = "idle" /\ task[<<t[1], "engineAgain">>].pc = "idle"
    <3>1. task[<<t[1], "cache">>].pc # "idle"
      BY <2>1 DEF CacheStep
    <3>2. InTurn(t[1])
      BY <2>1, EventOfTask DEF HandlersInv, OneAfterAnother
    <3> QED BY <3>1, <3>2 DEF InTurn, EngineIdle, At
  <2>3. u # <<t[1], "engine">> /\ u # <<t[1], "engineAgain">>
    BY <2>2 DEF EnginePCs
  <2> QED BY <2>1, <2>3 DEF CacheStep
<1>4. CASE Engine(t)
  BY <1>4, EngineShape DEF EngineStep
<1> QED BY <1>2, <1>3, <1>4 DEF Goroutine

Acted(o) == \E u \in Tasks : WillActOn(u, o)

\* What another task is going to act on, it is still going to act on.
LEMMA StillActed ==
    ASSUME HandlersInv, NEW t \in Tasks, Goroutine(t), NEW o,
           NEW u \in Tasks \ {t}, WillActOn(u, o)
    PROVE  Acted(o)'
<1>1. task[u].pc \in EnginePCs
  BY DEF WillActOn, At, EnginePCs
<1>2. task'[u] = task[u]
  BY <1>1, Undisturbed
<1> QED BY <1>2 DEF Acted, WillActOn, At

LEMMA ActedByOther ==
    ASSUME HandlersInv, NEW t \in Tasks, Observer(t) \/ Cache(t), NEW o, Acted(o)
    PROVE  Acted(o)'
<1>1. task[t].pc \notin EnginePCs
  <2>1. t = <<t[1], "observer">> \/ t = <<t[1], "cache">>
    BY ObserverShape, CacheShape DEF ObserverStep, CacheStep
  <2>2. t[2] \in {"observer", "cache"}
    BY <2>1
  <2> QED BY <2>2 DEF HandlersInv, RolesKept, StepsOf, EnginePCs, ObserverPCs, CachePCs,
             RequirementPCs, AssetPCs, DevicePCs, ChangePCs, StorePCs
<1>2. PICK u \in Tasks : WillActOn(u, o)
  BY DEF Acted
<1>3. u # t
  BY <1>1, <1>2 DEF WillActOn, At, EnginePCs
<1> QED BY <1>2, <1>3, StillActed DEF Goroutine

\* The requests that are not served can only grow by the objects that are stored.
LEMMA UnservedShrinks ==
    ASSUME requests \in [Requirements -> Objects \cup {Nil}], cancel' = cancel,
           \A r \in Requirements : requests'[r] \in {requests[r], Nil}
    PROVE  Unserved' \subseteq Unserved
BY DEF Unserved, CachedObjects

LEMMA UnservedGrows ==
    ASSUME requests \in [Requirements -> Objects \cup {Nil}], cancel' = cancel,
           NEW rs \in SUBSET Requirements, NEW n, requests' = Stored(rs, n)
    PROVE  Unserved' \subseteq Unserved \cup (rs \X {n})
<1> SUFFICES ASSUME NEW r \in Requirements, requests'[r] \in Unserved'
             PROVE  requests'[r] \in Unserved \cup (rs \X {n})
  BY DEF Unserved, CachedObjects
<1>1. CASE r \in rs
  BY <1>1 DEF Stored
<1>2. CASE r \notin rs
  BY <1>2 DEF Stored, Unserved, CachedObjects
<1> QED BY <1>1, <1>2

ServingInv == HandlersInv /\ subscribed = 3 /\ NoForgottenRequest

LEMMA ObserverServes ==
    ASSUME ServingInv, active, NEW t \in Tasks, Observer(t), NEW o \in Unserved'
    PROVE  Acted(o)'
<1>s. t = <<t[1], "observer">>
  BY ObserverShape DEF ServingInv, ObserverStep
<1> USE DEF ServingInv, HandlersInv, TypeOK, engineVars
<1>1. o \in Unserved => Acted(o)'
  BY ActedByOther DEF NoForgottenRequest, Acted
<1>2. CASE RequirementStore(t)
  <2>1. task[t].on \in Requirements
    BY <1>2, TaskType DEF RequirementStore, At, WellFormed, RequirementPCs
  <2>2. o \in Unserved \cup ({task[t].on} \X {t[1]})
    BY <1>2, <2>1, UnservedGrows DEF RequirementStore
  <2>3. CASE o \in {task[t].on} \X {t[1]}
    <3>1. o = <<task[t].on, t[1]>>
      BY <2>3
    <3>2. Emit(t, Idle, "engine", Task("requirementsChanged", Nil, {o}))
      BY <1>2, <3>1 DEF RequirementStore, ToEngine
    <3>3. "engine" \in Roles \ {t[2]}
      <4>1. t[2] = "observer"
        BY <1>s
      <4> QED BY <4>1 DEF Roles
    <3>4. <<t[1], "engine">> \in Tasks
          /\ task'[<<t[1], "engine">>] = Task("requirementsChanged", Nil, {o})
      BY <3>2, <3>3, EmitEffect
    <3> QED BY <3>4 DEF Acted, WillActOn, Task
  <2> QED BY <1>1, <2>2, <2>3
<1>3. CASE ~RequirementStore(t)
  <2>1. cancel' = cancel /\ \A r \in Requirements : requests'[r] \in {requests[r], Nil}
    BY <1>3 DEF Observer, RequirementCheck, RequirementGet, RequirementCancel,
       RequirementGone, RequirementEnd, RequirementDelete, AssetSeen, AssetKnown, AssetAssign,
       AssetGone, AssetUnassign, DeviceUpdated, DeviceStore, Without
  <2> QED BY <1>1, <2>1, UnservedShrinks
<1> QED BY <1>2, <1>3

LEMMA CacheServes ==
    ASSUME ServingInv, active, NEW t \in Tasks, Cache(t), NEW o \in Unserved'
    PROVE  Acted(o)'
<1>s. t = <<t[1], "cache">>
  BY CacheShape DEF ServingInv, CacheStep
<1> USE DEF ServingInv, HandlersInv, TypeOK, engineVars
<1>1. o \in Unserved => Acted(o)'
  BY ActedByOther DEF NoForgottenRequest, Acted
<1>e. "engine" \in Roles \ {t[2]} /\ <<t[1], "engine">> \in Tasks \ {t}
      /\ <<t[1], "engine">> # <<t[1], "engineAgain">>
  <2>1. t[2] = "cache"
    BY <1>s
  <2>2. <<t[1], "engine">> # t
    BY <2>1
  <2> QED BY <2>1, <2>2, EventOfTask DEF Roles
<1>2. CASE GainedStore(t)
  <2>1. task[t].held \in SUBSET Requirements
    BY <1>2, TaskType DEF GainedStore, At, WellFormed, StorePCs
  <2>2. o \in Unserved \cup (task[t].held \X {t[1]})
    BY <1>2, <2>1, UnservedGrows DEF GainedStore
  <2>3. CASE o \in task[t].held \X {t[1]}
    <3>1. Emit(t, Idle, "engine", Task("requirementsChanged", Nil, task[t].held \X {t[1]}))
      BY <1>2 DEF GainedStore, ToEngine
    <3>2. task'[<<t[1], "engine">>] =
            Task("requirementsChanged", Nil, task[t].held \X {t[1]})
      BY <1>e, <3>1, EmitEffect
    <3> QED BY <1>e, <2>3, <3>2 DEF Acted, WillActOn, Task
  <2> QED BY <1>1, <2>2, <2>3
<1>3. CASE StoreRequests(t)
  <2>1. task'[<<t[1], "engine">>].pc = "cacheChanged"
    BY <1>3, <1>e DEF StoreRequests, Task
  <2> QED BY <1>e, <2>1 DEF Acted, WillActOn, At
<1>4. CASE ~GainedStore(t) /\ ~StoreRequests(t)
  <2>1. cancel' = cancel /\ \A r \in Requirements : requests'[r] \in {requests[r], Nil}
    BY <1>4 DEF Cache, AssetsLost, CancelLost, LostCancelled, AssetsGained, LocationChanged,
       FlushAssets, ReadLocation, QueryAssets, StoreAssets, FlushRequests, ReadAssets,
       QueryRequests, Without
  <2> QED BY <1>1, <2>1, UnservedShrinks
<1> QED BY <1>2, <1>3, <1>4

\* A loop over objects acts on each of them.
LEMMA ActingActs ==
    ASSUME NEW t \in Tasks, NEW os, NEW o \in os, task'[t] = Acting(os)
    PROVE  Acted(o)'
BY DEF Acting, Acted, WillActOn, Task

LEMMA EngineServes ==
    ASSUME ServingInv, active, NEW t \in Tasks, Engine(t), NEW o \in Unserved'
    PROVE  Acted(o)'
<1> USE DEF ServingInv, HandlersInv, TypeOK
<1>1. requests \in [Requirements -> Objects \cup {Nil}]
      /\ cancel \in [Objects -> Tasks \cup {Nil}]
      /\ task \in [Tasks -> TaskRecords]
  OBVIOUS
<1>2. ASSUME o \in Unserved, ~WillActOn(t, o) PROVE Acted(o)'
  BY <1>2, StillActed DEF NoForgottenRequest, Acted, Goroutine
<1>3. CASE RequirementsChanged(t)
  <2>1. o \in Unserved
    BY <1>1, <1>3, UnservedShrinks DEF RequirementsChanged, engineVars
  <2>2. task'[t] = Acting(task[t].held)
    BY <1>1, <1>3, BecomeEffect DEF RequirementsChanged
  <2>3. WillActOn(t, o) => o \in task[t].held
    BY <1>3 DEF RequirementsChanged, WillActOn, At
  <2> QED BY <1>2, <2>1, <2>2, <2>3, ActingActs
<1>4. CASE CacheChanged(t)
  <2>1. o \in CachedObjects
    BY <1>1, <1>4, UnservedShrinks DEF CacheChanged, engineVars, Unserved
  <2>2. task'[t] = Acting(CachedObjects)
    BY <1>1, <1>4, BecomeEffect DEF CacheChanged
  <2> QED BY <2>1, <2>2, ActingActs
<1>5. CASE Act(t)
  <2>1. o \in Unserved /\ cancel[o] = Nil
    BY <1>1, <1>5, UnservedShrinks DEF Act, engineVars, Unserved
  <2>2. PICK x \in task[t].held : IF cancel[x] # Nil
             THEN Become(t, Acting(task[t].held \ {x}))
             ELSE Become(t, Task("serve", x, task[t].held \ {x}))
    BY <1>5 DEF Act
  <2>3. WillActOn(t, o) => o \in task[t].held
    BY <1>5 DEF Act, WillActOn, At
  <2>4. CASE cancel[x] # Nil
    <3>1. task'[t] = Acting(task[t].held \ {x})
      BY <1>1, <2>2, <2>4, BecomeEffect
    <3> QED BY <1>2, <2>1, <2>3, <2>4, <3>1, ActingActs
  <2>5. CASE cancel[x] = Nil
    <3>1. task'[t] = Task("serve", x, task[t].held \ {x})
      BY <1>1, <2>2, <2>5, BecomeEffect
    <3>2. o \in task[t].held => WillActOn(t, o)'
      BY <3>1 DEF WillActOn, At, Task
    <3> QED BY <1>2, <2>1, <2>3, <3>2 DEF Acted
  <2> QED BY <2>4, <2>5
<1>6. CASE ServeOnce(t) \/ ServePeriodic(t)
  <2>1. task'[t] = Acting(task[t].held)
    BY <1>1, <1>6, BecomeEffect DEF ServeOnce, ServePeriodic
  <2>2. o \in Unserved /\ o # task[t].on
    <3>1. CASE ServeOnce(t)
      <4>1. Unserved' \subseteq Unserved
        BY <1>1, <3>1, UnservedShrinks DEF ServeOnce, Without
      <4> QED BY <3>1, <4>1 DEF ServeOnce, Unserved
    <3>2. CASE ServePeriodic(t)
      <4>1. task[t].on \in Objects
        BY <1>1, <3>2, TaskType DEF ServePeriodic, At, WellFormed
      <4>2. CachedObjects' = CachedObjects /\ CachedObjects \subseteq Objects
        BY <1>1, <3>2, CachedObjectsType DEF ServePeriodic, CachedObjects
      <4>3. cancel' = [cancel EXCEPT ![task[t].on] = t] /\ t # Nil
        BY <3>2 DEF ServePeriodic
      <4> QED BY <1>1, <4>1, <4>2, <4>3 DEF Unserved
    <3> QED BY <1>6, <3>1, <3>2
  <2>3. WillActOn(t, o) => o \in task[t].held
    BY <1>6, <2>2 DEF ServeOnce, ServePeriodic, WillActOn, At
  <2> QED BY <1>2, <2>1, <2>2, <2>3, ActingActs
<1> QED BY <1>3, <1>4, <1>5, <1>6 DEF Engine

\* Once the engine runs some goroutine is still going to act on every cached
\* request that is not processed (engine_operator.go, cache_manager.go,
\* events_observer.go), provided that EngineOperator subscribed to its events
\* before the cache was first filled and that the engine is started by
\* SensorsRegisterChanged.  Otherwise requests cached before the engine runs are forgotten.
THEOREM NothingForgotten ==
    ASSUME EngineFirst, ~SensorsAtStart
    PROVE  Spec => []NoForgottenRequest
<1>1. Init => ServingInv
  <2>1. Init => active = FALSE /\ subscribed = 3
    BY DEF Init
  <2> QED BY <2>1, HandlersInit DEF ServingInv, NoForgottenRequest
<1>2. ServingInv /\ [Next]_vars => ServingInv'
  <2> SUFFICES ASSUME ServingInv, [Next]_vars
               PROVE  subscribed' = 3 /\ NoForgottenRequest'
    BY HandlersStep DEF ServingInv
  <2> USE DEF ServingInv
  <2>1. ASSUME NEW t \in Tasks, Goroutine(t) PROVE subscribed' = 3 /\ NoForgottenRequest'
    <3>1. subscribed' = subscribed /\ active' = active
      BY <2>1 DEF Goroutine, Observer, RequirementCheck, RequirementGet, RequirementCancel,
         RequirementStore, RequirementGone, RequirementEnd, RequirementDelete, AssetSeen,
         AssetKnown, AssetAssign, AssetGone, AssetUnassign, DeviceUpdated, DeviceStore, Cache,
         AssetsLost, CancelLost, LostCancelled, AssetsGained, GainedStore, LocationChanged,
         FlushAssets, ReadLocation, QueryAssets, StoreAssets, FlushRequests, ReadAssets,
         QueryRequests, StoreRequests, Engine, RequirementsChanged, CacheChanged, Act,
         ServeOnce, ServePeriodic, startVars
    <3>2. ASSUME active, NEW o \in Unserved' PROVE Acted(o)'
      BY <2>1, <3>2, ObserverServes, CacheServes, EngineServes DEF Goroutine
    <3> QED BY <3>1, <3>2 DEF NoForgottenRequest, Acted
  <2>2. CASE SensorsAppear
    <3>1. <<0, "start">> \in Tasks
      BY DEF Tasks, Roles
    <3>2. task'[<<0, "start">>].pc = "cacheChanged" /\ subscribed' = 3
      BY <2>2, <3>1 DEF SensorsAppear, HandlersInv, TypeOK, Task
    <3> QED BY <3>1, <3>2 DEF NoForgottenRequest, WillActOn, At
  <2>3. CASE Ledger
    <3>1. PICK topic, h : h.pc \in ObserverPCs /\ Tell(topic, h)
      BY <2>3, LedgerTells
    <3>2. active' = active /\ subscribed' = subscribed /\ requests' = requests
          /\ cancel' = cancel
      BY <3>1 DEF Tell, startVars, engineVars
    <3>3. \A u \in Tasks : u[2] # "observer" => task'[u] = task[u]
      BY <3>1 DEF Tell, HandlersInv, TypeOK
    <3>4. \A u \in Tasks : task[u].pc \in EnginePCs => u[2] # "observer"
      BY DEF HandlersInv, RolesKept, StepsOf, EnginePCs, ObserverPCs, RequirementPCs,
         AssetPCs, DevicePCs
    <3>5. \A u \in Tasks, o \in Unserved : WillActOn(u, o) => WillActOn(u, o)'
      BY <3>3, <3>4 DEF WillActOn, At, EnginePCs
    <3>6. Unserved' = Unserved
      BY <3>2 DEF Unserved, CachedObjects
    <3> QED BY <3>2, <3>5, <3>6 DEF NoForgottenRequest
  <2>4. CASE (\E topic \in Topics : Watch(topic)) \/ Subscribe \/ StartRuns \/ UNCHANGED vars
    <3>1. UNCHANGED <<active, subscribed, requests, cancel, task>>
      BY <2>4 DEF Watch, Subscribe, StartRuns, vars, startVars, engineVars
    <3> QED BY <3>1 DEF NoForgottenRequest, Unserved, CachedObjects, WillActOn, At
  <2> QED BY <2>1, <2>2, <2>3, <2>4 DEF Next
<1>3. ServingInv => NoForgottenRequest
  BY DEF ServingInv
<1> QED BY <1>1, <1>2, <1>3, PTL DEF Spec

--------------------------------------------------------------------------------
(* A request that counts as processed is served.                            *)

\* The requests of an event are not yet stored.
Unstored(n) ==
    \/ n > eventCount
    \/ task[<<n, "observer">>].pc \notin {"idle", "deviceStore"}
    \/ ~At(<<n, "cache">>, "idle")

\* A goroutine of EngineOperator has taken o to act on it.
Holds(u, o) ==
    \/ task[u].pc \in {"requirementsChanged", "act", "serve"} /\ o \in task[u].held
    \/ At(u, "serve") /\ o = task[u].on

Unknown(o) == cancel[o] = Nil /\ o \notin CachedObjects /\ \A u \in Tasks : ~Holds(u, o)

CachedByName == \A r \in Requirements : requests[r] # Nil => requests[r][1] = r
HeldByName ==
    \A t \in Tasks : task[t].pc \in {"reqCancel", "reqEnd"} =>
        \A o \in task[t].held : o[1] = task[t].on
StoredOnce == \A o \in Objects : Unstored(o[2]) => Unknown(o)

\* Nobody takes an asset for lost: the requests that are cancelled then stay in
\* the cache, for they are removed by an ID they do not have.
NoneLost == \A t \in Tasks : task[t].pc \notin {"assetUnassign", "assetsLost", "cancelLost"}

ProcessedInv == HandlersInv /\ CachedByName /\ HeldByName /\ StoredOnce

LEMMA BecomeNoEngine ==
    ASSUME task \in [Tasks -> TaskRecords], NEW t \in Tasks, NEW k, Become(t, k),
           k.pc \notin EnginePCs, NEW u \in Tasks, task'[u].pc \in EnginePCs
    PROVE  task'[u] = task[u]
BY BecomeEffect

LEMMA EmitOutcome ==
    ASSUME task \in [Tasks -> TaskRecords], NEW t \in Tasks, NEW k,
           NEW role \in Roles \ {t[2]}, NEW h, Emit(t, k, role, h)
    PROVE  /\ task'[t] = k
           /\ \A u \in Tasks \ {t} : task'[u] = h \/ task'[u] = task[u]
           /\ \A u \in Tasks \ {t} : u[2] # role => task'[u] = task[u]
<1>1. task'[t] = k /\ task'[<<t[1], role>>] = h
  BY EmitEffect
<1>2. \A u \in Tasks \ {t, <<t[1], role>>} : task'[u] = task[u]
  BY EmitEffect
<1>3. \A u \in Tasks : u = <<t[1], role>> => u[2] = role
  OBVIOUS
<1> QED BY <1>1, <1>2, <1>3

LEMMA EmitNoEngine ==
    ASSUME task \in [Tasks -> TaskRecords], NEW t \in Tasks, t[2] = "observer",
           NEW k, k.pc \notin EnginePCs, NEW h, h.pc \notin EnginePCs,
           Emit(t, k, "cache", h), NEW u \in Tasks, task'[u].pc \in EnginePCs
    PROVE  task'[u] = task[u]
<1>1. "cache" \in Roles \ {t[2]}
  BY DEF Roles
<1> QED BY <1>1, EmitOutcome

\* Who stores is done with its event.
LEMMA ObserverDone ==
    ASSUME HandlersInv, NEW t \in Tasks, At(t, "reqStore"), Observer(t), task'[t] = Idle,
           task'[<<t[1], "cache">>] = task[<<t[1], "cache">>]
    PROVE  ~Unstored(t[1])'
<1>1. ObserverStep(t) /\ eventCount' = eventCount
  BY ObserverShape
<1>2. t[1] \in 0..MaxEvents /\ t = <<t[1], "observer">>
  BY <1>1, EventOfTask DEF ObserverStep
<1>3. InTurn(t[1])
  BY <1>2 DEF HandlersInv, OneAfterAnother
<1>4. ~(t[1] > eventCount) /\ At(<<t[1], "cache">>, "idle")
  BY <1>2, <1>3 DEF InTurn, At
<1> QED BY <1>1, <1>2, <1>4 DEF Unstored, At, Idle, Task

LEMMA CacheDone ==
    ASSUME HandlersInv, NEW t \in Tasks, Cache(t), task'[t] = Idle
    PROVE  ~Unstored(t[1])'
<1>1. CacheStep(t) /\ eventCount' = eventCount
  BY CacheShape
<1>2. t[1] \in 0..MaxEvents /\ t = <<t[1], "cache">>
  BY <1>1, EventOfTask DEF CacheStep
<1>3. InTurn(t[1])
  BY <1>2 DEF HandlersInv, OneAfterAnother
<1>4. /\ ~(t[1] > eventCount) /\ task[<<t[1], "observer">>].pc \in {"idle", "deviceStore"}
      /\ task'[<<t[1], "observer">>] = task[<<t[1], "observer">>]
  <2>1. ~At(<<t[1], "cache">>, "idle")
    BY <1>1, <1>2 DEF CacheStep, At
  <2>2. <<t[1], "observer">> \in Tasks \ {t, <<t[1], "engine">>, <<t[1], "engineAgain">>}
    <3>1. <<t[1], "observer">> # t
      BY <1>2
    <3> QED BY <3>1, EventOfTask DEF Roles
  <2> QED BY <1>1, <1>3, <2>1, <2>2 DEF InTurn, At, CacheStep
<1> QED BY <1>1, <1>2, <1>4 DEF Unstored, At, Idle, Task

\* An event whose requests are stored is done with.
LEMMA UnstoredShrinks ==
    ASSUME HandlersInv, [Next]_vars, NEW n \in 0..MaxEvents, Unstored(n)'
    PROVE  Unstored(n)
<1> DEFINE b == <<n, "observer">>
           c == <<n, "cache">>
<1>0. b \in Tasks /\ c \in Tasks
  BY DistinctRoles
<1>1. CASE Ledger
  <2>1. PICK topic, h : h.pc \in ObserverPCs /\ Tell(topic, h)
    BY <1>1, LedgerTells
  <2>2. eventCount \in Nat /\ eventCount' = eventCount + 1 /\ n \in Nat
    BY <2>1 DEF Tell, HandlersInv, TypeOK
  <2>3. \A u \in Tasks : u # <<eventCount + 1, "observer">> => task'[u] = task[u]
    BY <2>1 DEF Tell, HandlersInv, TypeOK
  <2>4. CASE n = eventCount + 1
    BY <2>2, <2>4 DEF Unstored
  <2>5. CASE n # eventCount + 1
    <3>1. b # <<eventCount + 1, "observer">> /\ c # <<eventCount + 1, "observer">>
      BY <2>5
    <3>2. task'[b] = task[b] /\ task'[c] = task[c]
      BY <1>0, <2>3, <3>1
    <3> QED BY <2>2, <3>2 DEF Unstored, At
  <2> QED BY <2>4, <2>5
<1>2. ASSUME NEW t \in Tasks, Observer(t) PROVE Unstored(n)
  <2>1. ObserverStep(t) /\ eventCount' = eventCount
    BY <1>2, ObserverShape
  <2>2. CASE n = t[1]
    <3>1. t = b
      BY <2>1, <2>2 DEF ObserverStep
    <3>2. CASE At(t, "deviceStore")
      <4>1. task'[t].pc = "idle" /\ task'[c] = task[c]
        BY <2>1, <2>2, <3>2 DEF ObserverStep
      <4> QED BY <2>1, <3>1, <4>1 DEF Unstored, At
    <3>3. CASE ~At(t, "deviceStore")
      BY <2>1, <3>1, <3>3 DEF Unstored, ObserverStep, At
    <3> QED BY <3>2, <3>3
  <2>3. CASE n # t[1]
    <3>1. b \in Tasks \ {t, <<t[1], "cache">>, <<t[1], "engine">>}
          /\ c \in Tasks \ {t, <<t[1], "cache">>, <<t[1], "engine">>}
      BY <1>0, <2>3
    <3> QED BY <2>1, <3>1 DEF Unstored, At, ObserverStep
  <2> QED BY <2>2, <2>3
<1>3. ASSUME NEW t \in Tasks, Cache(t) PROVE Unstored(n)
  <2>1. CacheStep(t) /\ eventCount' = eventCount
    BY <1>3, CacheShape
  <2>2. CASE n = t[1]
    BY <2>1, <2>2 DEF Unstored, CacheStep, At
  <2>3. CASE n # t[1]
    <3>1. b \in Tasks \ {t, <<t[1], "engine">>, <<t[1], "engineAgain">>}
          /\ c \in Tasks \ {t, <<t[1], "engine">>, <<t[1], "engineAgain">>}
      BY <1>0, <2>3
    <3> QED BY <2>1, <3>1 DEF Unstored, At, CacheStep
  <2> QED BY <2>2, <2>3
<1>4. ASSUME NEW t \in Tasks, Engine(t) PROVE Unstored(n)
  <2>1. EngineStep(t) /\ eventCount' = eventCount
    BY <1>4, EngineShape
  <2>2. b \in Tasks \ {t} /\ c \in Tasks \ {t}
    BY <1>0, <2>1 DEF EngineStep
  <2> QED BY <2>1, <2>2 DEF Unstored, At, EngineStep
<1>5. CASE SensorsAppear
  <2>1. task'[b] = task[b] /\ task'[c] = task[c] /\ eventCount' = eventCount
    <3>1. b # <<0, "start">> /\ c # <<0, "start">>
      OBVIOUS
    <3> QED BY <1>0, <1>5, <3>1 DEF SensorsAppear, ledgerVars, HandlersInv, TypeOK
  <2> QED BY <2>1 DEF Unstored, At
<1>6. CASE (\E topic \in Topics : Watch(topic)) \/ Subscribe \/ StartRuns \/ UNCHANGED vars
  <2>1. task' = task /\ eventCount' = eventCount
    BY <1>6 DEF Watch, Subscribe, StartRuns, vars, ledgerVars
  <2> QED BY <2>1 DEF Unstored, At
<1> QED BY <1>1, <1>2, <1>3, <1>4, <1>5, <1>6 DEF Next, Goroutine

\* What a goroutine does to the cache: it stores requests of its event, and the
\* event is done, or it only takes away.
CacheEffect(t) ==
    \/ \A r \in Requirements : requests'[r] \in {requests[r], Nil}
    \/ /\ ~Unstored(t[1])'
       /\ \A r \in Requirements : requests'[r] \in {requests[r], <<r, t[1]>>}
HandsEffect(t) ==
    \A u \in Tasks : \A o : Holds(u, o)' =>
        Holds(u, o) \/ o \in CachedObjects \/ (o[2] = t[1] /\ ~Unstored(t[1])')

\* What nobody stores, emits or acts on stays in the same hands.
LEMMA HandsKept ==
    ASSUME \A u \in Tasks : task'[u].pc \in EnginePCs => task'[u] = task[u], NEW t
    PROVE  HandsEffect(t)
BY DEF HandsEffect, Holds, At, EnginePCs

LEMMA ObserverEffects ==
    ASSUME HandlersInv, NEW t \in Tasks, Observer(t)
    PROVE  CacheEffect(t) /\ HandsEffect(t)
<1>s. ObserverStep(t) /\ t[1] \in 0..MaxEvents /\ t[2] = "observer"
  <2>1. ObserverStep(t) /\ t = <<t[1], "observer">>
    BY ObserverShape DEF ObserverStep
  <2> QED BY <2>1, EventOfTask
<1> USE DEF HandlersInv
<1>1. task \in [Tasks -> TaskRecords]
  BY DEF TypeOK
<1>2. CASE RequirementStore(t)
  <2> DEFINE h == Task("requirementsChanged", Nil, {<<task[t].on, t[1]>>})
  <2>1. \/ Become(t, Idle)
        \/ Emit(t, Idle, "engine", h)
    BY <1>2 DEF RequirementStore, ToEngine
  <2>2. /\ task'[t] = Idle
        /\ \A u \in Tasks \ {t} : task'[u] = h \/ task'[u] = task[u]
        /\ task'[<<t[1], "cache">>] = task[<<t[1], "cache">>]
    <3>1. <<t[1], "cache">> \in Tasks \ {t, <<t[1], "engine">>}
      BY <1>s, EventOfTask DEF Roles
    <3>2. CASE Become(t, Idle)
      <4> HIDE DEF h
      <4> QED BY <1>1, <3>1, <3>2, BecomeEffect
    <3>3. CASE Emit(t, Idle, "engine", h)
      <4>1. "engine" \in Roles \ {t[2]}
        BY <1>s DEF Roles
      <4> HIDE DEF h
      <4> QED BY <1>1, <3>1, <3>3, <4>1, EmitOutcome
    <3> QED BY <2>1, <3>2, <3>3
  <2>3. ~Unstored(t[1])'
    BY <1>2, <2>2, ObserverDone DEF RequirementStore
  <2>4. CacheEffect(t)
    BY <1>2, <2>3 DEF CacheEffect, RequirementStore, Stored
  <2>5. ASSUME NEW u \in Tasks, NEW o, Holds(u, o)' PROVE Holds(u, o) \/ o[2] = t[1]
    <3>1. u # t
      BY <2>2, <2>5 DEF Holds, At, Idle, Task
    <3>2. CASE task'[u] = task[u]
      BY <2>5, <3>2 DEF Holds, At
    <3>3. CASE task'[u] = h
      BY <2>5, <3>3 DEF Holds, At, Task
    <3> QED BY <2>2, <3>1, <3>2, <3>3
  <2> QED BY <2>3, <2>4, <2>5 DEF HandsEffect
<1>3. CASE ~RequirementStore(t)
  <2>1. \A r \in Requirements : requests'[r] \in {requests[r], Nil}
    BY <1>3 DEF Observer, RequirementCheck, RequirementGet, RequirementCancel,
       RequirementGone, RequirementEnd, RequirementDelete, AssetSeen, AssetKnown, AssetAssign,
       AssetGone, AssetUnassign, DeviceUpdated, DeviceStore, Without
  <2>2. \/ \E k : Become(t, k) /\ k.pc \notin EnginePCs
        \/ \E k, h : k.pc \notin EnginePCs /\ h.pc \notin EnginePCs /\ Emit(t, k, "cache", h)
    BY <1>3 DEF Observer, RequirementCheck, RequirementGet, RequirementCancel,
       RequirementGone, RequirementEnd, RequirementDelete, AssetSeen, AssetKnown, AssetAssign,
       AssetGone, AssetUnassign, DeviceUpdated, DeviceStore, Finish, Task, Idle, EnginePCs
  <2>3. \A u \in Tasks : task'[u].pc \in EnginePCs => task'[u] = task[u]
    BY <1>1, <1>s, <2>2, BecomeNoEngine, EmitNoEngine
  <2> QED BY <2>1, <2>3, HandsKept DEF CacheEffect
<1> QED BY <1>2, <1>3

LEMMA CacheEffects ==
    ASSUME HandlersInv, NEW t \in Tasks, Cache(t)
    PROVE  CacheEffect(t) /\ HandsEffect(t)
<1>s. CacheStep(t) /\ t[1] \in 0..MaxEvents /\ t[2] = "cache"
  <2>1. CacheStep(t) /\ t = <<t[1], "cache">>
    BY CacheShape DEF CacheStep
  <2> QED BY <2>1, EventOfTask
<1> USE DEF HandlersInv
<1>1. task \in [Tasks -> TaskRecords]
  BY DEF TypeOK
<1>2. CASE GainedStore(t)
  <2> DEFINE h == Task("requirementsChanged", Nil, task[t].held \X {t[1]})
  <2>1. \/ Become(t, Idle)
        \/ Emit(t, Idle, "engine", h)
    BY <1>2 DEF GainedStore, ToEngine
  <2>2. /\ task'[t] = Idle
        /\ \A u \in Tasks \ {t} : task'[u] = h \/ task'[u] = task[u]
    <3>2. CASE Become(t, Idle)
      <4> HIDE DEF h
      <4> QED BY <1>1, <3>2, BecomeEffect
    <3>3. CASE Emit(t, Idle, "engine", h)
      <4>1. "engine" \in Roles \ {t[2]}
        BY <1>s DEF Roles
      <4> HIDE DEF h
      <4> QED BY <1>1, <3>3, <4>1, EmitOutcome
    <3> QED BY <2>1, <3>2, <3>3
  <2>3. ~Unstored(t[1])'
    BY <2>2, CacheDone
  <2>4. CacheEffect(t)
    BY <1>2, <2>3 DEF CacheEffect, GainedStore, Stored
  <2>5. ASSUME NEW u \in Tasks, NEW o, Holds(u, o)' PROVE Holds(u, o) \/ o[2] = t[1]
    <3>1. u # t
      BY <2>2, <2>5 DEF Holds, At, Idle, Task
    <3>2. CASE task'[u] = task[u]
      BY <2>5, <3>2 DEF Holds, At
    <3>3. CASE task'[u] = h
      BY <2>5, <3>3 DEF Holds, At, Task
    <3> QED BY <2>2, <3>1, <3>2, <3>3
  <2> QED BY <2>3, <2>4, <2>5 DEF HandsEffect
<1>3. CASE StoreRequests(t)
  <2> DEFINE g == Task("cacheChanged", Nil, {})
  <2>1. /\ task'[t] = Idle
        /\ \A u \in Tasks \ {t} : task'[u] \in {task[u], g}
    <3>1. t # <<t[1], "engine">> /\ t # <<t[1], "engineAgain">>
          /\ <<t[1], "engine">> # <<t[1], "engineAgain">>
      BY <1>s
    <3>2. \/ task' = [task EXCEPT ![t] = Idle, ![<<t[1], "engine">>] = g,
                                  ![<<t[1], "engineAgain">>] = g]
          \/ task' = [task EXCEPT ![t] = Idle]
      BY <1>3 DEF StoreRequests
    <3> HIDE DEF g
    <3> QED BY <1>1, <3>1, <3>2
  <2>2. ~Unstored(t[1])'
    BY <2>1, CacheDone
  <2>3. CacheEffect(t)
    BY <1>3, <2>2 DEF CacheEffect, StoreRequests, Stored
  <2>4. ASSUME NEW u \in Tasks, NEW o, Holds(u, o)' PROVE Holds(u, o)
    BY <2>1, <2>4 DEF Holds, At, Idle, Task
  <2> QED BY <2>3, <2>4 DEF HandsEffect
<1>4. CASE ~GainedStore(t) /\ ~StoreRequests(t)
  <2>1. \A r \in Requirements : requests'[r] \in {requests[r], Nil}
    BY <1>4 DEF Cache, AssetsLost, CancelLost, LostCancelled, AssetsGained, LocationChanged,
       FlushAssets, ReadLocation, QueryAssets, StoreAssets, FlushRequests, ReadAssets,
       QueryRequests, Without
  <2>2. \E k : Become(t, k) /\ k.pc \notin EnginePCs
    <3> USE DEF Finish, Task, Idle, EnginePCs
    <3>1. CASE AssetsLost(t) \/ LostCancelled(t) \/ AssetsGained(t) \/ LocationChanged(t)
      BY <3>1 DEF AssetsLost, LostCancelled, AssetsGained, LocationChanged
    <3>2. CASE CancelLost(t)
      BY <3>2 DEF CancelLost
    <3>3. CASE FlushAssets(t) \/ ReadLocation(t) \/ StoreAssets(t)
      BY <3>3 DEF FlushAssets, ReadLocation, StoreAssets
    <3>4. CASE QueryAssets(t)
      BY <3>4 DEF QueryAssets
    <3>5. CASE FlushRequests(t) \/ ReadAssets(t)
      BY <3>5 DEF FlushRequests, ReadAssets
    <3>6. CASE QueryRequests(t)
      BY <3>6 DEF QueryRequests
    <3> QED BY <1>4, <3>1, <3>2, <3>3, <3>4, <3>5, <3>6 DEF Cache
  <2>3. \A u \in Tasks : task'[u].pc \in EnginePCs => task'[u] = task[u]
    BY <1>1, <2>2, BecomeNoEngine
  <2> QED BY <2>1, <2>3, HandsKept DEF CacheEffect
<1> QED BY <1>2, <1>3, <1>4

LEMMA EngineEffects ==
    ASSUME HandlersInv, NEW t \in Tasks, Engine(t)
    PROVE  CacheEffect(t) /\ HandsEffect(t)
<1> USE DEF HandlersInv
<1>1. task \in [Tasks -> TaskRecords]
  BY DEF TypeOK
<1>2. CacheEffect(t)
  BY DEF CacheEffect, Engine, RequirementsChanged, CacheChanged, Act, ServeOnce, ServePeriodic,
     Without
<1>3. \A u \in Tasks \ {t} : task'[u] = task[u]
  BY EngineShape DEF EngineStep
<1>4. ASSUME NEW o, Holds(t, o)' PROVE Holds(t, o) \/ o \in CachedObjects
  <2>a. \A os : task'[t] = Acting(os) => o \in os
    BY <1>4 DEF Acting, Holds, At, Task, Idle
  <2>1. CASE RequirementsChanged(t)
    BY <1>1, <1>4, <2>1, <2>a, BecomeEffect
       DEF RequirementsChanged, Holds, At, Finish, Task, Idle
  <2>2. CASE CacheChanged(t)
    BY <1>1, <2>2, <2>a, BecomeEffect DEF CacheChanged
  <2>3. CASE Act(t)
    <3>1. PICK x \in task[t].held : IF cancel[x] # Nil
             THEN Become(t, Acting(task[t].held \ {x}))
             ELSE Become(t, Task("serve", x, task[t].held \ {x}))
      BY <2>3 DEF Act
    <3>2. \/ task'[t] = Acting(task[t].held \ {x})
          \/ task'[t] = Task("serve", x, task[t].held \ {x})
      BY <1>1, <3>1, BecomeEffect
    <3> QED BY <1>4, <2>3, <2>a, <3>2 DEF Act, Holds, At, Task
  <2>4. CASE ServeOnce(t) \/ ServePeriodic(t)
    <3>1. task'[t] = Acting(task[t].held)
      BY <1>1, <2>4, BecomeEffect DEF ServeOnce, ServePeriodic
    <3> QED BY <2>4, <2>a, <3>1 DEF ServeOnce, ServePeriodic, Holds, At
  <2> QED BY <2>1, <2>2, <2>3, <2>4 DEF Engine
<1>5. HandsEffect(t)
  BY <1>3, <1>4 DEF HandsEffect, Holds, At
<1> QED BY <1>2, <1>5

\* Only the subscription of an object that is held gives it a cancel func.
LEMMA CancelEffect ==
    ASSUME HandlersInv, NEW t \in Tasks, Goroutine(t), NEW o \in Objects, cancel'[o] # cancel[o]
    PROVE  ServePeriodic(t) /\ o = task[t].on /\ Holds(t, o)
<1>1. ServePeriodic(t)
  BY DEF Goroutine, Observer, RequirementCheck, RequirementGet, RequirementCancel,
     RequirementStore, RequirementGone, RequirementEnd, RequirementDelete, AssetSeen,
     AssetKnown, AssetAssign, AssetGone, AssetUnassign, DeviceUpdated, DeviceStore, Cache,
     AssetsLost, CancelLost, LostCancelled, AssetsGained, GainedStore, LocationChanged,
     FlushAssets, ReadLocation, QueryAssets, StoreAssets, FlushRequests, ReadAssets,
     QueryRequests, StoreRequests, Engine, RequirementsChanged, CacheChanged, Act,
     ServeOnce, ServePeriodic, engineVars
<1>2. o = task[t].on
  BY <1>1 DEF ServePeriodic, HandlersInv, TypeOK
<1> QED BY <1>1, <1>2 DEF ServePeriodic, Holds

LEMMA GoroutineEffects ==
    ASSUME HandlersInv, NEW t \in Tasks, Goroutine(t)
    PROVE  CacheEffect(t) /\ HandsEffect(t)
BY ObserverEffects, CacheEffects, EngineEffects DEF Goroutine

LEMMA CachedNamed ==
    ASSUME CachedByName, requests \in [Requirements -> Objects \cup {Nil}], NEW o \in CachedObjects
    PROVE  o[1] \in Requirements /\ o = requests[o[1]]
BY DEF CachedByName, CachedObjects

LEMMA StoredOnceKept ==
    ASSUME ProcessedInv, NEW t \in Tasks, Goroutine(t)
    PROVE  CachedByName' /\ StoredOnce'
<1> USE DEF ProcessedInv, HandlersInv
<1>1. CacheEffect(t) /\ HandsEffect(t)
  BY GoroutineEffects
<1>2. CachedByName'
  BY <1>1 DEF CachedByName, CacheEffect
<1>3. ASSUME NEW o \in Objects, Unstored(o[2])' PROVE Unknown(o)'
  <2>1. Unknown(o)
    <3>1. o[2] \in 0..MaxEvents
      BY DEF Objects
    <3>2. [Next]_vars
      BY DEF Next
    <3> QED BY <1>3, <3>1, <3>2, UnstoredShrinks DEF StoredOnce
  <2>2. cancel'[o] = Nil
    BY <2>1, CancelEffect DEF Unknown
  <2>3. o \notin CachedObjects'
    <3> SUFFICES ASSUME NEW r \in Requirements, requests'[r] = o PROVE FALSE
      BY DEF CachedObjects
    <3>1. o # Nil
      BY ONLY NilAssumption, o \in Objects
    <3>2. requests[r] # o
      BY <2>1, <3>1 DEF Unknown, CachedObjects
    <3>3. o = <<r, t[1]>> /\ ~Unstored(t[1])'
      BY <1>1, <3>1, <3>2 DEF CacheEffect
    <3> QED BY <1>3, <3>3
  <2>4. \A u \in Tasks : ~Holds(u, o)'
    BY <1>1, <1>3, <2>1 DEF HandsEffect, Unknown
  <2> QED BY <2>2, <2>3, <2>4 DEF Unknown
<1> QED BY <1>2, <1>3 DEF StoredOnce

\* What is done to the tasks by a step that is no goroutine's.
LEMMA OthersKeep ==
    ASSUME HandlersInv, Next, \A t \in Tasks : ~Goroutine(t)
    PROVE  /\ UNCHANGED <<requests, engineVars>>
           /\ \A u \in Tasks : task'[u].pc \in EnginePCs \ {"cacheChanged"} => task'[u] = task[u]
           /\ \A u \in Tasks : \/ task'[u] = task[u]
                               \/ task'[u].pc \in {"reqPut", "reqGone", "assetPut", "assetGone",
                                                   "deviceUpdated", "cacheChanged"}
           /\ \A u \in Tasks : task[u].pc # "idle" /\ task'[u] # task[u]
                                  => u = <<0, "start">>
<1> USE DEF HandlersInv, TypeOK
<1>1. CASE Ledger
  <2>1. PICK topic, h :
             /\ h.pc \in {"reqPut", "reqGone", "assetPut", "assetGone", "deviceUpdated"}
             /\ Tell(topic, h)
    <3>1. ASSUME NEW r \in Requirements, SubmitRequirement(r) \/ RevokeRequirement(r)
          PROVE  \E topic, h : h.pc \in {"reqPut", "reqGone"} /\ Tell(topic, h)
      BY <3>1 DEF SubmitRequirement, RevokeRequirement, Task
    <3>2. ASSUME NEW a \in Assets, RemoveAsset(a) \/ \E p \in Places : PlaceAsset(a, p)
          PROVE  \E topic, h : h.pc \in {"assetPut", "assetGone"} /\ Tell(topic, h)
      <4>1. CASE RemoveAsset(a)
        BY <4>1 DEF RemoveAsset, Task
      <4>2. ASSUME NEW p \in Places, PlaceAsset(a, p)
            PROVE  \E topic, h : h.pc \in {"assetPut", "assetGone"} /\ Tell(topic, h)
        BY <4>2 DEF PlaceAsset, Task
      <4> QED BY <3>2, <4>1, <4>2
    <3>3. ASSUME NEW p \in Places, RelocateDevice(p)
          PROVE  \E topic, h : h.pc = "deviceUpdated" /\ Tell(topic, h)
      BY <3>3 DEF RelocateDevice, Task
    <3> QED BY <1>1, <3>1, <3>2, <3>3 DEF Ledger
  <2>2. /\ UNCHANGED <<requests, engineVars>>
        /\ eventCount + 1 \in 0..MaxEvents /\ eventCount \in Nat
        /\ \A u \in Tasks : \/ task'[u] = task[u]
                            \/ u = <<eventCount + 1, "observer">> /\ task'[u] = h
    <3>1. /\ UNCHANGED <<requests, engineVars>>
          /\ eventCount + 1 \in 0..MaxEvents /\ eventCount \in Nat
      <4>1. eventCount \in Nat /\ eventCount + 1 \in 0..MaxEvents
        BY ONLY <2>1, TypeOK, RequirementsAssumption DEF Tell, TypeOK
      <4> QED BY <2>1, <4>1 DEF Tell
    <3>2. \/ task' = [task EXCEPT ![<<eventCount + 1, "observer">>] = h]
          \/ task' = task
      BY <2>1 DEF Tell
    <3>3. task \in [Tasks -> TaskRecords]
      OBVIOUS
    <3> QED BY ONLY <3>1, <3>2, <3>3
  <2>3. At(<<eventCount + 1, "observer">>, "idle")
    <3>1. InTurn(eventCount + 1) /\ eventCount + 1 > eventCount
      BY <2>2 DEF OneAfterAnother
    <3> QED BY <3>1 DEF InTurn
  <2> QED BY <2>1, <2>2, <2>3 DEF EnginePCs, At
<1>2. CASE SensorsAppear
  <2>1. /\ UNCHANGED <<requests, engineVars>>
        /\ \A u \in Tasks : \/ task'[u] = task[u]
                            \/ u = <<0, "start">> /\ task'[u].pc = "cacheChanged"
    BY <1>2 DEF SensorsAppear, Task
  <2> QED BY <2>1
<1>3. CASE (\E topic \in Topics : Watch(topic)) \/ Subscribe \/ StartRuns
  BY <1>3 DEF Watch, Subscribe, StartRuns
<1> QED BY <1>1, <1>2, <1>3 DEF Next

\* The tasks of EventsObserver are disturbed by nobody else's step.
LEMMA ObserverUndisturbed ==
    ASSUME HandlersInv, NEW t \in Tasks, Goroutine(t), NEW u \in Tasks \ {t},
           u[2] = "observer"
    PROVE  task'[u] = task[u]
<1>1. CASE Observer(t)
  <2>1. u \in Tasks \ {t, <<t[1], "cache">>, <<t[1], "engine">>}
    OBVIOUS
  <2> QED BY <1>1, <2>1, ObserverShape DEF ObserverStep
<1>2. CASE Cache(t)
  <2>1. u \in Tasks \ {t, <<t[1], "engine">>, <<t[1], "engineAgain">>}
    OBVIOUS
  <2> QED BY <1>2, <2>1, CacheShape DEF CacheStep
<1>3. CASE Engine(t)
  BY <1>3, EngineShape DEF EngineStep
<1> QED BY <1>1, <1>2, <1>3 DEF Goroutine

LEMMA ObserverTasks ==
    ASSUME HandlersInv, NEW t \in Tasks, task[t].pc \in ObserverPCs
    PROVE  t[2] = "observer"
BY EventOfTask DEF HandlersInv, RolesKept, StepsOf, Roles, EnginePCs, ObserverPCs, CachePCs,
   RequirementPCs, AssetPCs, DevicePCs, ChangePCs, StorePCs

LEMMA HeldByNameKept ==
    ASSUME ProcessedInv, NEW t \in Tasks, Goroutine(t)
    PROVE  HeldByName'
<1> USE DEF ProcessedInv, HandlersInv
<1> SUFFICES ASSUME NEW u \in Tasks, task'[u].pc \in {"reqCancel", "reqEnd"},
                    NEW o \in task'[u].held
             PROVE  o[1] = task'[u].on
  BY DEF HeldByName
<1>1. task'[u] = task[u] => o[1] = task'[u].on
  BY DEF HeldByName
<1>2. u[2] = "observer"
  <2>1. HandlersInv'
    BY HandlersStep DEF Next
  <2>2. task'[u].pc \in {"idle"} \cup StepsOf(u[2])
    BY <2>1 DEF RolesKept
  <2> QED BY <2>2, EventOfTask DEF StepsOf, Roles, EnginePCs, ObserverPCs, CachePCs,
             RequirementPCs, AssetPCs, DevicePCs, ChangePCs, StorePCs
<1>3. CASE u # t
  BY <1>1, <1>2, <1>3, ObserverUndisturbed
<1>4. CASE u = t
  <2>1. Observer(t)
    <3>1. ~Engine(t)
      BY <1>2, <1>4, EngineShape DEF EngineStep
    <3>2. ASSUME Cache(t) PROVE FALSE
      <4>1. t = <<t[1], "cache">>
        BY <3>2, CacheShape DEF CacheStep
      <4> QED BY <1>2, <1>4, <4>1
    <3> QED BY <3>1, <3>2 DEF Goroutine
  <2>2. task[t].on \in Requirements => requests[task[t].on] \in Objects \cup {Nil}
    BY DEF TypeOK
  <2>3. CASE RequirementGet(t) \/ RequirementGone(t)
    <3>1. task[t].on \in Requirements
      BY <2>3, TaskType DEF TypeOK, RequirementGet, RequirementGone, At, WellFormed, RequirementPCs
    <3>2. requests[task[t].on] # Nil
          /\ (task'[t] = Task("reqCancel", task[t].on, {requests[task[t].on]})
              \/ task'[t] = Task("reqEnd", task[t].on, {requests[task[t].on]}))
      BY <1>4, <2>3, BecomeEffect DEF TypeOK, RequirementGet, RequirementGone, Finish, Task, Idle
    <3> QED BY <1>4, <3>1, <3>2 DEF CachedByName, Task
  <2>4. CASE ~RequirementGet(t) /\ ~RequirementGone(t)
    <3>1. \/ \E k : Become(t, k) /\ k.pc \notin {"reqCancel", "reqEnd"}
          \/ \E k, role, h : role \in {"cache", "engine"} /\ k.pc \notin {"reqCancel", "reqEnd"}
                             /\ Emit(t, k, role, h)
      BY <2>1, <2>4 DEF Observer, RequirementCheck, RequirementCancel, RequirementStore,
         RequirementEnd, RequirementDelete, AssetSeen, AssetKnown, AssetAssign, AssetGone,
         AssetUnassign, DeviceUpdated, DeviceStore, ToEngine, Finish, Task, Idle
    <3>2. {"cache", "engine"} \subseteq Roles \ {t[2]}
      BY <1>2, <1>4 DEF Roles
    <3>3. task'[t].pc \notin {"reqCancel", "reqEnd"}
      BY <3>1, <3>2, BecomeEffect, EmitOutcome DEF TypeOK
    <3> QED BY <1>4, <3>3
  <2> QED BY <2>3, <2>4
<1> QED BY <1>3, <1>4

LEMMA ProcessedInit == Init => ProcessedInv
<1> SUFFICES ASSUME Init PROVE ProcessedInv
  OBVIOUS
<1>1. HandlersInv
  BY HandlersInit
<1>2. \A u \in Tasks : task[u].pc \in {"idle", "flushAssets"}
  BY DEF Init, Idle, Task
<1>3. CachedObjects = {} /\ CachedByName
  BY DEF Init, CachedObjects, CachedByName
<1>4. \A o \in Objects : cancel[o] = Nil
  BY DEF Init
<1> QED BY <1>1, <1>2, <1>3, <1>4 DEF ProcessedInv, HeldByName, StoredOnce, Unknown, Holds, At

LEMMA ProcessedStep == ProcessedInv /\ [Next]_vars => ProcessedInv'
<1> SUFFICES ASSUME ProcessedInv, [Next]_vars
             PROVE  CachedByName' /\ HeldByName' /\ StoredOnce'
  BY HandlersStep DEF ProcessedInv
<1>1. ASSUME NEW t \in Tasks, Goroutine(t) PROVE CachedByName' /\ HeldByName' /\ StoredOnce'
  BY <1>1, StoredOnceKept, HeldByNameKept
<1>2. CASE Next /\ \A t \in Tasks : ~Goroutine(t)
  <2> USE DEF ProcessedInv
  <2>1. UNCHANGED <<requests, engineVars>>
    BY <1>2, OthersKeep
  <2>2. HeldByName'
    BY <1>2, OthersKeep DEF HeldByName
  <2>3. \A u \in Tasks : \A o : Holds(u, o)' => Holds(u, o)
    BY <1>2, OthersKeep DEF Holds, At, EnginePCs
  <2>4. StoredOnce'
    <3> SUFFICES ASSUME NEW o \in Objects, Unstored(o[2])' PROVE Unknown(o)'
      BY DEF StoredOnce
    <3>1. Unknown(o)
      BY UnstoredShrinks DEF StoredOnce, Objects
    <3> QED BY <2>1, <2>3, <3>1 DEF Unknown, CachedObjects, engineVars
  <2> QED BY <2>1, <2>2, <2>4 DEF CachedByName
<1>3. CASE UNCHANGED vars
  <2>1. UNCHANGED <<eventCount, requests, cancel, task>>
    BY <1>3 DEF vars, ledgerVars, engineVars
  <2> QED BY <2>1 DEF ProcessedInv, CachedByName, HeldByName, StoredOnce, Unstored, Unknown,
             CachedObjects, Holds, At
<1> QED BY <1>1, <1>2, <1>3

\* A handler of EventsObserver is about to displace o.
Displacing(t, o) == task[t].pc \in {"reqStore", "reqDelete"} /\ task[t].on = o[1]
Served(o) == <<o, cancel[o]>> \in receivers

\* The exception lasts until the handler has displaced the object.
LEMMA DisplacingLasts ==
    ASSUME ProcessedInv, NEW t \in Tasks, Goroutine(t), NEW u \in Tasks, NEW o,
           Displacing(u, o), o[1] \in Requirements
    PROVE  \/ Displacing(u, o)'
           \/ u = t /\ requests'[o[1]] \in {Nil, <<o[1], t[1]>>} /\ Unstored(t[1])
<1> USE DEF ProcessedInv, HandlersInv
<1>1. u[2] = "observer"
  BY ObserverTasks DEF Displacing, ObserverPCs, RequirementPCs
<1>2. CASE u # t
  BY <1>1, <1>2, ObserverUndisturbed DEF Displacing
<1>3. CASE u = t
  <2>1. Observer(t)
    <3>1. task[t].pc \notin EnginePCs /\ task[t].pc \notin CachePCs
      BY <1>3 DEF Displacing, EnginePCs, CachePCs, ChangePCs, StorePCs
    <3>2. ~Engine(t)
      BY <3>1 DEF Engine, RequirementsChanged, CacheChanged, Act, ServeOnce, ServePeriodic, At,
         EnginePCs
    <3>3. ~Cache(t)
      BY <3>1 DEF Cache, AssetsLost, CancelLost, LostCancelled, AssetsGained, GainedStore,
         LocationChanged, FlushAssets, ReadLocation, QueryAssets, StoreAssets, FlushRequests,
         ReadAssets, QueryRequests, StoreRequests, At, CachePCs, ChangePCs, StorePCs
    <3> QED BY <3>2, <3>3 DEF Goroutine
  <2>2. RequirementStore(t) \/ RequirementDelete(t)
    BY <1>3, <2>1 DEF Displacing, Observer, RequirementCheck, RequirementGet, RequirementCancel,
       RequirementGone, RequirementEnd, AssetSeen, AssetKnown, AssetAssign, AssetGone,
       AssetUnassign, DeviceUpdated, DeviceStore, At
  <2>3. requests'[o[1]] \in {Nil, <<o[1], t[1]>>}
    BY <1>3, <2>2 DEF Displacing, RequirementStore, RequirementDelete, Stored, Without
  <2>4. Unstored(t[1])
    <3>1. t = <<t[1], "observer">>
      BY <1>1, <1>3, EventOfTask
    <3> QED BY <1>3, <3>1 DEF Unstored, Displacing
  <2> QED BY <1>3, <2>3, <2>4
<1> QED BY <1>2, <1>3

\* A goroutine that cancels what is cached is about to displace it.
LEMMA CancelledDisplaced ==
    ASSUME ProcessedInv, NoneLost, NEW t \in Tasks, Goroutine(t), NEW s \in receivers,
           s \notin receivers', s[2] = cancel[s[1]], s[1] \in CachedObjects
    PROVE  Displacing(t, s[1])'
<1> USE DEF ProcessedInv, HandlersInv, TypeOK
<1>1. ~CancelLost(t)
  BY DEF NoneLost, CancelLost, At
<1>2. ~LocationChanged(t)
  BY DEF LocationChanged, AfterCancel, CachedFor
<1>3. RequirementCancel(t) \/ RequirementEnd(t)
  BY <1>1, <1>2 DEF Goroutine, Observer, RequirementCheck, RequirementGet, RequirementStore,
     RequirementGone, RequirementDelete, AssetSeen, AssetKnown, AssetAssign, AssetGone,
     AssetUnassign, DeviceUpdated, DeviceStore, Cache, AssetsLost, LostCancelled, AssetsGained,
     GainedStore, FlushAssets, ReadLocation, QueryAssets, StoreAssets, FlushRequests,
     ReadAssets, QueryRequests, StoreRequests, Engine, RequirementsChanged, CacheChanged, Act,
     ServeOnce, ServePeriodic, engineVars
<1>4. s[1] \in task[t].held
  BY <1>3 DEF RequirementCancel, RequirementEnd, AfterCancel
<1>5. s[1][1] = task[t].on
  BY <1>3, <1>4 DEF HeldByName, RequirementCancel, RequirementEnd, At
<1>6. \/ task'[t] = Task("reqStore", task[t].on, {})
      \/ task'[t] = Task("reqDelete", task[t].on, {})
  BY <1>3, BecomeEffect DEF RequirementCancel, RequirementEnd
<1> QED BY <1>5, <1>6 DEF Displacing, Task

AliveInv == ProcessedInv /\ CachedRequestAlive

LEMMA GoroutineAlive ==
    ASSUME AliveInv, NoneLost, NEW t \in Tasks, Goroutine(t),
           NEW o \in CachedObjects', cancel'[o] # Nil
    PROVE  Served(o)' \/ \E u \in Tasks : Displacing(u, o)'
<1> USE DEF AliveInv
<1>a. HandlersInv /\ requests \in [Requirements -> Objects \cup {Nil}]
      /\ cancel \in [Objects -> Tasks \cup {Nil}]
  BY DEF ProcessedInv, HandlersInv, TypeOK
<1>1. ProcessedInv' /\ TypeOK'
  <2>1. [Next]_vars
    BY DEF Next
  <2> QED BY <2>1, ProcessedStep DEF ProcessedInv, HandlersInv
<1>2. o \in Objects /\ o[1] \in Requirements /\ o = requests'[o[1]]
  BY <1>1, CachedObjectsType DEF TypeOK, CachedObjects, ProcessedInv, CachedByName, Objects
<1>3. CASE cancel'[o] # cancel[o]
  <2>1. ServePeriodic(t) /\ o = task[t].on
    BY <1>2, <1>3, <1>a, CancelEffect
  <2>2. <<o, t>> \in receivers' /\ cancel'[o] = t
    BY <1>2, <1>a, <2>1 DEF ServePeriodic
  <2> QED BY <2>2 DEF Served
<1>4. CASE cancel'[o] = cancel[o]
  <2>1. cancel[o] # Nil
    BY <1>4
  <2>2. o \in CachedObjects
    <3>1. CASE requests'[o[1]] = requests[o[1]]
      BY <1>2, <3>1 DEF CachedObjects
    <3>2. CASE requests'[o[1]] # requests[o[1]]
      <4>1. o # Nil
        BY ONLY NilAssumption, <1>2
      <4>2. o = <<o[1], t[1]>> /\ ~Unstored(t[1])' /\ CacheEffect(t)
        BY <1>2, <1>a, <3>2, <4>1, GoroutineEffects DEF CacheEffect
      <4>3. Unstored(t[1])
        <5>1. RequirementStore(t) \/ GainedStore(t) \/ StoreRequests(t)
          BY <1>2, <3>2, <4>1 DEF Goroutine, Observer, RequirementCheck, RequirementGet,
             RequirementCancel, RequirementGone, RequirementEnd, RequirementDelete, AssetSeen,
             AssetKnown, AssetAssign, AssetGone, AssetUnassign, DeviceUpdated, DeviceStore,
             Cache, AssetsLost, CancelLost, LostCancelled, AssetsGained, LocationChanged,
             FlushAssets, ReadLocation, QueryAssets, StoreAssets, FlushRequests, ReadAssets,
             QueryRequests, Engine, RequirementsChanged, CacheChanged, Act, ServeOnce,
             ServePeriodic, Without, RequestID
        <5>2. CASE RequirementStore(t)
          <6>1. t = <<t[1], "observer">>
            BY <1>a, <5>2, ObserverShape DEF Observer, ObserverStep
          <6> QED BY <5>2, <6>1 DEF RequirementStore, Unstored, At
        <5>3. CASE GainedStore(t) \/ StoreRequests(t)
          <6>1. t = <<t[1], "cache">>
            BY <1>a, <5>3, CacheShape DEF Cache, CacheStep
          <6> QED BY <5>3, <6>1 DEF GainedStore, StoreRequests, Unstored, At
        <5> QED BY <5>1, <5>2, <5>3
      <4>4. cancel[o] = Nil
        <5>1. o[2] = t[1]
          BY <4>2
        <5> QED BY <1>2, <4>3, <5>1 DEF ProcessedInv, StoredOnce, Unknown
      <4> QED BY <2>1, <4>4
    <3> QED BY <3>1, <3>2
  <2>3. CASE Served(o)
    <3>1. CASE <<o, cancel[o]>> \in receivers'
      BY <1>4, <3>1 DEF Served
    <3>2. CASE <<o, cancel[o]>> \notin receivers'
      BY <2>2, <2>3, <3>2, CancelledDisplaced DEF Served
    <3> QED BY <3>1, <3>2
  <2>4. ASSUME NEW u \in Tasks, Displacing(u, o) PROVE Displacing(u, o)'
    <3>1. ASSUME requests'[o[1]] \in {Nil, <<o[1], t[1]>>}, Unstored(t[1]) PROVE FALSE
      <4>1. o # Nil
        BY ONLY NilAssumption, <1>2
      <4>2. o = <<o[1], t[1]>>
        BY <1>2, <3>1, <4>1
      <4>3. o[2] = t[1]
        BY <4>2
      <4> QED BY <1>2, <2>1, <3>1, <4>3 DEF ProcessedInv, StoredOnce, Unknown
    <3> QED BY <1>2, <2>4, <3>1, DisplacingLasts
  <2> QED BY <2>1, <2>2, <2>3, <2>4 DEF CachedRequestAlive, Served, Displacing
<1> QED BY <1>3, <1>4

LEMMA AliveStep == AliveInv /\ NoneLost /\ [Next]_vars => AliveInv'
<1> SUFFICES ASSUME AliveInv, NoneLost, [Next]_vars PROVE CachedRequestAlive'
  BY ProcessedStep DEF AliveInv
<1>1. ASSUME NEW t \in Tasks, Goroutine(t) PROVE CachedRequestAlive'
  BY <1>1, GoroutineAlive DEF CachedRequestAlive, Served, Displacing
<1>2. CASE Next /\ \A t \in Tasks : ~Goroutine(t)
  <2>1. UNCHANGED <<requests, cancel, receivers>>
    BY <1>2, OthersKeep DEF AliveInv, ProcessedInv, engineVars
  <2>2. \A u \in Tasks : task[u].pc \in {"reqStore", "reqDelete"} => task'[u] = task[u]
    <3> SUFFICES ASSUME NEW u \in Tasks, task[u].pc \in {"reqStore", "reqDelete"},
                        task'[u] # task[u]
                 PROVE  FALSE
      OBVIOUS
    <3>1. u = <<0, "start">>
      BY <1>2, OthersKeep DEF AliveInv, ProcessedInv
    <3>2. u[2] = "observer"
      BY ObserverTasks DEF AliveInv, ProcessedInv, ObserverPCs, RequirementPCs
    <3> QED BY <3>1, <3>2
  <2> QED BY <2>1, <2>2 DEF AliveInv, CachedRequestAlive, CachedObjects
<1>3. CASE UNCHANGED vars
  BY <1>3 DEF vars, engineVars, AliveInv, CachedRequestAlive, CachedObjects
<1> QED BY <1>1, <1>2, <1>3

\* As long as no asset is taken for lost, a cached request that counts as
\* processed has a running receiver, or is about to be displaced (device_cache.go,
\* events_observer.go, engine_operator.go): whatever the order of the handlers,
\* the flushes and the relocations.
THEOREM ProcessedAreServed == Spec /\ []NoneLost => []CachedRequestAlive
<1>1. Init => AliveInv
  <2>1. Init => CachedRequestAlive
    BY DEF Init, CachedRequestAlive, CachedObjects
  <2> QED BY <2>1, ProcessedInit DEF AliveInv
<1>2. AliveInv => CachedRequestAlive
  BY DEF AliveInv
<1> QED BY <1>1, <1>2, AliveStep, PTL DEF Spec

--------------------------------------------------------------------------------
(* Without removals and relocations every assigned asset is at the device's *)
(* place, and none is ever taken for lost.                                  *)

AwayPCs == {"assetUnassign", "assetsLost", "cancelLost", "deviceUpdated", "deviceStore",
            "locationChanged"}

\* What a task knows of the places is still so.
CalmTask(k) ==
    /\ k.pc \notin AwayPCs
    /\ k.pc = "queryAssets" => k.on = location
    /\ k.pc = "storeAssets" => \A a \in k.held : placeOf[a] = location
    /\ k.pc = "assetPut" => k.held = {placeOf[k.on]} /\ placeOf[k.on] # Nil
    /\ k.pc \in {"assetNear", "assetAssign"} => placeOf[k.on] = location
    /\ k.pc = "assetGone" => placeOf[k.on] \notin {location, Nil}

AssignedNearby == \A a \in assets : placeOf[a] = location
CalmInv == HandlersInv /\ AssignedNearby /\ \A t \in Tasks : CalmTask(task[t])

LEMMA CalmElsewhere ==
    ASSUME NEW k, k.pc \notin AwayPCs \cup {"queryAssets", "storeAssets", "assetPut",
                                            "assetNear", "assetAssign", "assetGone"}
    PROVE  CalmTask(k)
BY DEF CalmTask

\* Tasks that go on and handlers that become ready, all of them calm.
LEMMA CalmTasks ==
    ASSUME CalmInv, UNCHANGED <<placeOf, location>>, NEW t \in Tasks,
           \A u \in Tasks : task'[u] = task[u] \/ CalmTask(task'[u])
    PROVE  \A u \in Tasks : CalmTask(task[u])'
BY DEF CalmInv, CalmTask

LEMMA CalmBecomes ==
    ASSUME CalmInv, UNCHANGED <<placeOf, location>>, NEW t \in Tasks, NEW k,
           Become(t, k), CalmTask(k)
    PROVE  \A u \in Tasks : CalmTask(task[u])'
<1>1. \A u \in Tasks : task'[u] = task[u] \/ CalmTask(task'[u])
  BY BecomeEffect DEF CalmInv, HandlersInv, TypeOK
<1> QED BY <1>1, CalmTasks

LEMMA CalmEmits ==
    ASSUME CalmInv, UNCHANGED <<placeOf, location>>, NEW t \in Tasks, NEW k,
           NEW role \in Roles \ {t[2]}, NEW h, Emit(t, k, role, h), CalmTask(k), CalmTask(h)
    PROVE  \A u \in Tasks : CalmTask(task[u])'
<1>1. \A u \in Tasks : task'[u] = task[u] \/ CalmTask(task'[u])
  <2>1. task'[t] = k /\ \A u \in Tasks \ {t} : task'[u] = h \/ task'[u] = task[u]
    BY EmitOutcome DEF CalmInv, HandlersInv, TypeOK
  <2> QED BY <2>1
<1> QED BY <1>1, CalmTasks

LEMMA ObserverCalm ==
    ASSUME CalmInv, NEW t \in Tasks, Observer(t)
    PROVE  AssignedNearby' /\ \A u \in Tasks : CalmTask(task[u])'
<1>r. {"cache", "engine"} \subseteq Roles \ {t[2]}
  <2>1. t = <<t[1], "observer">>
    BY ObserverShape DEF CalmInv, ObserverStep
  <2>2. t[2] = "observer"
    BY <2>1
  <2> QED BY <2>2 DEF Roles
<1>k. CalmTask(task[t])
  BY DEF CalmInv
<1>1. UNCHANGED <<placeOf, location>>
  BY <1>k DEF Observer, RequirementCheck, RequirementGet, RequirementCancel, RequirementStore,
     RequirementGone, RequirementEnd, RequirementDelete, AssetSeen, AssetKnown, AssetAssign,
     AssetGone, AssetUnassign, DeviceUpdated, DeviceStore, ledgerVars, CalmTask, AwayPCs, At
<1>2. AssignedNearby'
  BY <1>k, <1>1 DEF CalmInv, AssignedNearby, Observer, RequirementCheck, RequirementGet,
     RequirementCancel, RequirementStore, RequirementGone, RequirementEnd, RequirementDelete,
     AssetSeen, AssetKnown, AssetAssign, AssetGone, AssetUnassign, DeviceUpdated, DeviceStore,
     CalmTask, AwayPCs, At
<1>i. CalmTask(Idle)
  BY CalmElsewhere DEF Idle, Task, AwayPCs
<1>3. CASE RequirementStore(t)
  <2>1. CalmTask(Task("requirementsChanged", Nil, {<<task[t].on, t[1]>>}))
    BY CalmElsewhere DEF Task, AwayPCs
  <2> QED BY <1>1, <1>2, <1>i, <1>r, <1>3, <2>1, CalmBecomes, CalmEmits
          DEF RequirementStore, ToEngine
<1>4. CASE AssetAssign(t)
  <2>1. CalmTask(Task("assetsGained", task[t].on, {}))
    BY CalmElsewhere DEF Task, AwayPCs
  <2> QED BY <1>1, <1>2, <1>i, <1>r, <1>4, <2>1, CalmBecomes, CalmEmits DEF AssetAssign, Finish
<1>5. CASE ~RequirementStore(t) /\ ~AssetAssign(t)
  <2>1. \E k : Become(t, k) /\ CalmTask(k)
    <3>1. CASE RequirementCheck(t) \/ RequirementGet(t) \/ RequirementCancel(t)
               \/ RequirementGone(t) \/ RequirementEnd(t) \/ RequirementDelete(t)
      BY <1>i, <3>1, CalmElsewhere DEF RequirementCheck, RequirementGet, RequirementCancel,
         RequirementGone, RequirementEnd, RequirementDelete, Finish, Task, AwayPCs
    <3>2. CASE AssetSeen(t)
      <4>1. task[t].held = {placeOf[task[t].on]} /\ placeOf[task[t].on] # Nil
        BY <1>k, <3>2 DEF AssetSeen, At, CalmTask
      <4> QED BY <3>2, <4>1 DEF AssetSeen, CalmTask, Task, AwayPCs
    <3>3. CASE AssetKnown(t)
      <4>1. placeOf[task[t].on] = location
        BY <1>k, <3>3 DEF AssetKnown, At, CalmTask
      <4> QED BY <3>3, <4>1 DEF AssetKnown, CalmTask, Task, AwayPCs
    <3>4. CASE AssetGone(t)
      <4>1. placeOf[task[t].on] # location
        BY <1>k, <3>4 DEF AssetGone, At, CalmTask
      <4>2. task[t].on \notin assets
        BY <4>1 DEF CalmInv, AssignedNearby
      <4> QED BY <1>i, <3>4, <4>2 DEF AssetGone, Finish
    <3>5. ~AssetUnassign(t) /\ ~DeviceUpdated(t) /\ ~DeviceStore(t)
      BY <1>k DEF AssetUnassign, DeviceUpdated, DeviceStore, At, CalmTask, AwayPCs
    <3> QED BY <1>5, <3>1, <3>2, <3>3, <3>4, <3>5 DEF Observer
  <2> QED BY <1>1, <1>2, <2>1, CalmBecomes
<1> QED BY <1>2, <1>3, <1>4, <1>5

LEMMA CacheCalm ==
    ASSUME CalmInv, NEW t \in Tasks, Cache(t)
    PROVE  AssignedNearby' /\ \A u \in Tasks : CalmTask(task[u])'
<1>r. t[2] = "cache" /\ "engine" \in Roles \ {t[2]}
  <2>1. t = <<t[1], "cache">>
    BY CacheShape DEF CalmInv, CacheStep
  <2>2. t[2] = "cache"
    BY <2>1
  <2> QED BY <2>2 DEF Roles
<1>k. CalmTask(task[t])
  BY DEF CalmInv
<1>1. UNCHANGED <<placeOf, location>>
  BY DEF Cache, AssetsLost, CancelLost, LostCancelled, AssetsGained, GainedStore,
     LocationChanged, FlushAssets, ReadLocation, QueryAssets, StoreAssets, FlushRequests,
     ReadAssets, QueryRequests, StoreRequests, ledgerVars
<1>2. AssignedNearby'
  BY <1>k, <1>1 DEF CalmInv, AssignedNearby, CalmTask, At, Cache, AssetsLost, CancelLost,
     LostCancelled, AssetsGained, GainedStore, LocationChanged, FlushAssets, ReadLocation,
     QueryAssets, StoreAssets, FlushRequests, ReadAssets, QueryRequests, StoreRequests
<1>i. CalmTask(Idle)
  BY CalmElsewhere DEF Idle, Task, AwayPCs
<1>3. CASE GainedStore(t)
  <2>1. CalmTask(Task("requirementsChanged", Nil, task[t].held \X {t[1]}))
    BY CalmElsewhere DEF Task, AwayPCs
  <2> QED BY <1>1, <1>2, <1>i, <1>r, <1>3, <2>1, CalmBecomes, CalmEmits DEF GainedStore, ToEngine
<1>4. CASE StoreRequests(t)
  <2> DEFINE g == Task("cacheChanged", Nil, {})
  <2>1. CalmTask(g)
    BY CalmElsewhere DEF Task, AwayPCs
  <2>2. \A u \in Tasks : task'[u] = task[u] \/ task'[u] = Idle \/ task'[u] = g
    <3>1. t # <<t[1], "engine">> /\ t # <<t[1], "engineAgain">>
          /\ <<t[1], "engine">> # <<t[1], "engineAgain">>
      BY <1>r
    <3>2. \/ task' = [task EXCEPT ![t] = Idle, ![<<t[1], "engine">>] = g,
                                  ![<<t[1], "engineAgain">>] = g]
          \/ task' = [task EXCEPT ![t] = Idle]
      BY <1>4 DEF StoreRequests
    <3>3. task \in [Tasks -> TaskRecords]
      BY DEF CalmInv, HandlersInv, TypeOK
    <3> HIDE DEF g
    <3> QED BY <3>1, <3>2, <3>3
  <2> QED BY <1>1, <1>2, <1>i, <2>1, <2>2, CalmTasks
<1>5. CASE ~GainedStore(t) /\ ~StoreRequests(t)
  <2>1. \E k : Become(t, k) /\ CalmTask(k)
    <3>1. CASE LostCancelled(t) \/ AssetsGained(t) \/ FlushAssets(t)
      BY <1>i, <3>1, CalmElsewhere DEF LostCancelled, AssetsGained, FlushAssets, Finish, Task,
         AwayPCs
    <3>2. CASE ReadLocation(t)
      BY <3>2 DEF ReadLocation, CalmTask, Task, AwayPCs
    <3>3. CASE QueryAssets(t)
      <4>1. task[t].on = location
        BY <1>k, <3>3 DEF QueryAssets, At, CalmTask
      <4> QED BY <3>3, <4>1 DEF QueryAssets, AssetsNear, CalmTask, Task, AwayPCs
    <3>4. CASE StoreAssets(t) \/ FlushRequests(t) \/ ReadAssets(t)
      BY <3>4, CalmElsewhere DEF StoreAssets, FlushRequests, ReadAssets, Task, AwayPCs
    <3>5. CASE QueryRequests(t)
      BY <3>5, CalmElsewhere DEF QueryRequests, Task, AwayPCs
    <3>6. ~AssetsLost(t) /\ ~CancelLost(t) /\ ~LocationChanged(t)
      BY <1>k DEF AssetsLost, CancelLost, LocationChanged, At, CalmTask, AwayPCs
    <3> QED BY <1>5, <3>1, <3>2, <3>3, <3>4, <3>5, <3>6 DEF Cache
  <2> QED BY <1>1, <1>2, <2>1, CalmBecomes
<1> QED BY <1>2, <1>3, <1>4, <1>5

LEMMA EngineCalm ==
    ASSUME CalmInv, NEW t \in Tasks, Engine(t)
    PROVE  AssignedNearby' /\ \A u \in Tasks : CalmTask(task[u])'
<1>1. UNCHANGED <<placeOf, location, assets>>
  BY DEF Engine, RequirementsChanged, CacheChanged, Act, ServeOnce, ServePeriodic, ledgerVars
<1>2. \A u \in Tasks : task'[u] = task[u] \/ CalmTask(task'[u])
  <2>1. EngineStep(t)
    BY EngineShape DEF CalmInv
  <2>2. CalmTask(task'[t])
    BY <2>1, CalmElsewhere DEF EngineStep, EnginePCs, AwayPCs
  <2> QED BY <2>1, <2>2 DEF EngineStep
<1>3. AssignedNearby'
  BY <1>1 DEF CalmInv, AssignedNearby
<1> QED BY <1>1, <1>2, <1>3, CalmTasks

LEMMA LedgerCalm ==
    ASSUME CalmInv, Disturbances \cap {"assetRemoval", "relocation"} = {}, Ledger
    PROVE  AssignedNearby' /\ \A u \in Tasks : CalmTask(task[u])'
<1> USE DEF CalmInv, HandlersInv, TypeOK
<1>t. ASSUME NEW topic, NEW h, Tell(topic, h)
      PROVE  /\ UNCHANGED <<location, assets>>
             /\ \A u \in Tasks : task'[u] = task[u] \/ task'[u] = h
  BY <1>t DEF Tell
<1>1. ASSUME NEW r \in Requirements, SubmitRequirement(r) \/ RevokeRequirement(r)
      PROVE  AssignedNearby' /\ \A u \in Tasks : CalmTask(task[u])'
  <2>1. PICK topic, h : h.pc \in {"reqPut", "reqGone"} /\ Tell(topic, h)
    BY <1>1 DEF SubmitRequirement, RevokeRequirement, Task
  <2>2. CalmTask(h)
    BY <2>1, CalmElsewhere DEF AwayPCs
  <2>3. placeOf' = placeOf
    BY <1>1 DEF SubmitRequirement, RevokeRequirement
  <2>4. UNCHANGED <<location, assets>>
        /\ \A u \in Tasks : task'[u] = task[u] \/ task'[u] = h
    BY <1>t, <2>1
  <2>5. \A u \in Tasks : CalmTask(task[u])'
    BY <2>2, <2>3, <2>4, CalmTasks
  <2> QED BY <2>3, <2>4, <2>5 DEF AssignedNearby
<1>2. ASSUME NEW a \in Assets, NEW p \in Places, PlaceAsset(a, p)
      PROVE  AssignedNearby' /\ \A u \in Tasks : CalmTask(task[u])'
  <2>1. placeOf[a] = Nil /\ placeOf' = [placeOf EXCEPT ![a] = p]
        /\ Tell("assets", Task("assetPut", a, {p}))
    BY <1>2 DEF PlaceAsset
  <2>2. p # Nil /\ location # Nil
    BY ONLY NilAssumption, p \in Places, CalmInv DEF CalmInv, HandlersInv, TypeOK
  <2>3. UNCHANGED <<location, assets>>
        /\ \A u \in Tasks : task'[u] = task[u] \/ task'[u] = Task("assetPut", a, {p})
    BY <1>t, <2>1
  <2>4. \A x : placeOf[x] # Nil => placeOf'[x] = placeOf[x]
    <3> SUFFICES ASSUME NEW x, placeOf[x] # Nil PROVE placeOf'[x] = placeOf[x]
      OBVIOUS
    <3>1. x # a
      BY <2>1
    <3> QED BY ONLY <2>1, <3>1
  <2>5. AssignedNearby'
    BY <2>2, <2>3, <2>4 DEF AssignedNearby
  <2>6. CalmTask(Task("assetPut", a, {p}))'
    <3>1. placeOf'[a] = p
      BY <2>1
    <3> QED BY <2>2, <3>1 DEF CalmTask, Task, AwayPCs
  <2>7. ASSUME NEW u \in Tasks PROVE CalmTask(task[u])'
    <3>1. CASE task'[u] = task[u]
      <4>1. CalmTask(task[u])
        OBVIOUS
      <4> QED BY <2>2, <2>3, <2>4, <3>1, <4>1 DEF CalmTask
    <3>2. CASE task'[u] = Task("assetPut", a, {p})
      BY <2>6, <3>2 DEF CalmTask
    <3> QED BY <2>3, <3>1, <3>2
  <2> QED BY <2>5, <2>7
<1>3. \A a \in Assets : ~RemoveAsset(a)
  BY DEF RemoveAsset
<1>4. \A p \in Places : ~RelocateDevice(p)
  BY DEF RelocateDevice
<1> QED BY <1>1, <1>2, <1>3, <1>4 DEF Ledger

LEMMA CalmStep ==
    ASSUME Disturbances \cap {"assetRemoval", "relocation"} = {}
    PROVE  CalmInv /\ [Next]_vars => CalmInv'
<1> SUFFICES ASSUME CalmInv, [Next]_vars
             PROVE  AssignedNearby' /\ \A u \in Tasks : CalmTask(task[u])'
  BY HandlersStep DEF CalmInv
<1>1. ASSUME NEW t \in Tasks, Goroutine(t)
      PROVE  AssignedNearby' /\ \A u \in Tasks : CalmTask(task[u])'
  BY <1>1, ObserverCalm, CacheCalm, EngineCalm DEF Goroutine
<1>2. CASE SensorsAppear
  <2>1. UNCHANGED <<placeOf, location, assets>>
        /\ \A u \in Tasks : task'[u] = task[u] \/ task'[u] = Task("cacheChanged", Nil, {})
    BY <1>2 DEF SensorsAppear, ledgerVars, CalmInv, HandlersInv, TypeOK
  <2>2. CalmTask(Task("cacheChanged", Nil, {}))
    BY CalmElsewhere DEF Task, AwayPCs
  <2>3. \A u \in Tasks : CalmTask(task[u])'
    BY <2>1, <2>2, CalmTasks
  <2> QED BY <2>1, <2>3 DEF CalmInv, AssignedNearby
<1>3. CASE (\E topic \in Topics : Watch(topic)) \/ Subscribe \/ StartRuns \/ UNCHANGED vars
  <2>1. UNCHANGED <<placeOf, location, assets, task>>
    BY <1>3 DEF Watch, Subscribe, StartRuns, vars, ledgerVars
  <2> QED BY <2>1 DEF CalmInv, AssignedNearby, CalmTask
<1> QED BY <1>1, <1>2, <1>3, LedgerCalm DEF Next

LEMMA CalmInit == Init => CalmInv
<1> SUFFICES ASSUME Init PROVE CalmInv
  OBVIOUS
<1>1. \A u \in Tasks : CalmTask(task[u])
  <2>1. \A u \in Tasks : task[u].pc \in {"idle", "flushAssets"}
    BY DEF Init, Idle, Task
  <2> QED BY <2>1, CalmElsewhere DEF AwayPCs
<1> QED BY <1>1, HandlersInit DEF CalmInv, AssignedNearby, Init

\* In a network where no asset is moved or removed and the device stays where it
\* is, a cached request that counts as processed is served, or is about to be
\* displaced, whatever else is submitted, revoked, placed or fails.
THEOREM ProcessedServed ==
    ASSUME Disturbances \cap {"assetRemoval", "relocation"} = {}
    PROVE  Spec => []CachedRequestAlive
<1>1. CalmInv => NoneLost
  BY DEF CalmInv, NoneLost, CalmTask, AwayPCs
<1>2. AliveInv /\ CalmInv /\ [Next]_vars => AliveInv' /\ CalmInv'
  BY <1>1, AliveStep, CalmStep
<1>3. Init => AliveInv /\ CalmInv
  <2>1. Init => CachedRequestAlive
    BY DEF Init, CachedRequestAlive, CachedObjects
  <2> QED BY <2>1, ProcessedInit, CalmInit DEF AliveInv
<1>4. AliveInv => CachedRequestAlive
  BY DEF AliveInv
<1> QED BY <1>2, <1>3, <1>4, PTL DEF Spec

--------------------------------------------------------------------------------
(* When nothing is taken away and nothing fails, every requirement in force *)
(* for an asset at the device's place ends in the cache, served.            *)

\* The goroutine of the start, which fills the cache.
Reload == <<0, "cache">>

LoadingPCs == {"flushAssets", "readLocation", "queryAssets", "storeAssets", "flushRequests",
               "readAssets"}
ReloadPCs  == LoadingPCs \cup {"queryRequests", "storeRequests"}
RevokedPCs == {"reqGone", "reqEnd", "reqDelete"}

Undone == \A t \in Tasks : /\ task[t].pc \notin RevokedPCs
                           /\ task[t].pc \in ReloadPCs => t = Reload

\* The start is still going to assign a, which is at the device's place.
WillReload(a) ==
    \/ task[Reload].pc \in {"flushAssets", "readLocation", "queryAssets"}
    \/ At(Reload, "storeAssets") /\ a \in task[Reload].held

\* t is going to assign a and to report it assigned, if nobody assigns it before.
Coming(t, a) ==
    /\ task[t].on = a
    /\ \/ task[t].pc \in {"assetPut", "assetNear"}
       \/ At(t, "assetAssign") /\ task[t].held # {}

\* t is going to store a request for r.
WillStore(t, r) ==
    \/ Coming(t, AssetOf[r]) /\ (AssetOf[r] \notin assets \/ At(t, "assetAssign"))
    \/ At(t, "assetsGained") /\ task[t].on = AssetOf[r]
    \/ At(t, "gainedStore") /\ r \in task[t].held
    \/ task[t].pc \in {"reqGet", "reqCancel", "reqStore"} /\ task[t].on = r
    \/ At(t, "reqPut") /\ task[t].on = r /\ AssetOf[r] \in assets
    \/ At(t, "queryRequests") /\ AssetOf[r] \in task[t].held
    \/ At(t, "storeRequests") /\ r \in task[t].held

\* An asset that is not to be reported is assigned, or is going to be.
AssignKept ==
    \A t \in Tasks : At(t, "assetAssign") /\ task[t].held = {} =>
        task[t].on \in assets \/ WillReload(task[t].on)

AssetsSettled ==
    \A a \in Assets : placeOf[a] = location =>
        WillReload(a) \/ a \in assets \/ \E t \in Tasks : Coming(t, a)

RequestsSettled ==
    \A r \in ledgerReqs :
        placeOf[AssetOf[r]] = location /\ task[Reload].pc \notin LoadingPCs =>
            requests[r] # Nil \/ \E t \in Tasks : WillStore(t, r)

SettlingInv ==
    /\ CalmInv
    /\ watching = Topics
    /\ Undone
    /\ AssignKept /\ AssetsSettled /\ RequestsSettled

\* A handler of the observer or of CacheManager goes on by its own step only.
LEMMA OwnSteps ==
    ASSUME HandlersInv, [Next]_vars, NEW u \in Tasks, task[u].pc \in ObserverPCs \cup CachePCs,
           task'[u] # task[u]
    PROVE  Observer(u) \/ Cache(u)
<1> USE DEF HandlersInv
<1>1. u[2] \in {"observer", "cache"} /\ task[u].pc # "idle" /\ u[1] \in 0..MaxEvents
      /\ u = <<u[1], u[2]>>
  BY EventOfTask DEF RolesKept, StepsOf, Roles, EnginePCs, ObserverPCs, CachePCs,
     RequirementPCs, AssetPCs, DevicePCs, ChangePCs, StorePCs
<1>2. PICK t \in Tasks : Goroutine(t)
  <2>1. CASE UNCHANGED vars
    BY <2>1 DEF vars
  <2>2. CASE Next /\ \A t \in Tasks : ~Goroutine(t)
    <3>1. u = <<0, "start">>
      BY <1>1, <2>2, OthersKeep
    <3> QED BY <1>1, <3>1
  <2> QED BY <2>1, <2>2
<1>3. u = t
  <2> SUFFICES ASSUME u # t PROVE FALSE
    OBVIOUS
  <2>1. u[2] = "cache"
    BY <1>1, <1>2, ObserverUndisturbed
  <2>2. ~Engine(t)
    BY <1>2, EngineShape DEF EngineStep
  <2>3. ~Cache(t)
    <3> SUFFICES ASSUME Cache(t) PROVE FALSE
      OBVIOUS
    <3>1. u \in Tasks \ {t, <<t[1], "engine">>, <<t[1], "engineAgain">>}
      BY <2>1
    <3> QED BY <3>1, CacheShape DEF CacheStep
  <2>4. Observer(t)
    BY <1>2, <2>2, <2>3 DEF Goroutine
  <2>5. ObserverStep(t)
    BY <2>4, ObserverShape
  <2>6. u = <<t[1], "cache">>
    <3>1. u # <<t[1], "engine">>
      BY <2>1
    <3> QED BY <2>5, <3>1 DEF ObserverStep
  <2>7. InTurn(t[1]) /\ t = <<t[1], "observer">>
    BY <2>5, EventOfTask DEF OneAfterAnother, ObserverStep
  <2>8. At(t, "deviceStore")
    BY <1>1, <2>5, <2>6, <2>7 DEF InTurn, At, ObserverStep
  <2> QED BY <2>5, <2>6, <2>8 DEF ObserverStep
<1>4. ~Engine(u)
  BY <1>1, EngineShape DEF EngineStep
<1> QED BY <1>2, <1>3, <1>4 DEF Goroutine

\* What is added to the ledger, and the handler that hears of it.
LEMMA CalmLedger ==
    ASSUME SettlingInv, Disturbances = {}, Ledger
    PROVE  /\ UNCHANGED <<location, assets, requests, watching>>
           /\ \E b \in Tasks : /\ At(b, "idle")
                /\ \/ \E r \in Requirements :
                         /\ ledgerReqs' = ledgerReqs \cup {r}
                         /\ placeOf' = placeOf
                         /\ task' = [task EXCEPT ![b] = Task("reqPut", r, {})]
                   \/ \E a \in Assets, p \in Places :
                         /\ placeOf[a] = Nil
                         /\ placeOf' = [placeOf EXCEPT ![a] = p]
                         /\ ledgerReqs' = ledgerReqs
                         /\ task' = [task EXCEPT ![b] = Task("assetPut", a, {p})]
<1> USE DEF SettlingInv, CalmInv, HandlersInv
<1> DEFINE b == <<eventCount + 1, "observer">>
<1>1. ASSUME NEW topic \in Topics, NEW h, Tell(topic, h)
      PROVE  /\ UNCHANGED <<location, assets, requests, watching>>
             /\ b \in Tasks /\ At(b, "idle")
             /\ task' = [task EXCEPT ![b] = h]
  <2>1. eventCount \in Nat /\ eventCount + 1 \in 0..MaxEvents
    BY ONLY <1>1, TypeOK, RequirementsAssumption DEF Tell, TypeOK
  <2>2. InTurn(eventCount + 1) /\ eventCount + 1 > eventCount
    BY <2>1 DEF OneAfterAnother
  <2> QED BY <1>1, <2>1, <2>2, DistinctRoles DEF InTurn, Tell, startVars
<1>2. ASSUME NEW r \in Requirements, SubmitRequirement(r)
      PROVE  /\ ledgerReqs' = ledgerReqs \cup {r} /\ placeOf' = placeOf
             /\ Tell("requirements", Task("reqPut", r, {}))
  BY <1>2 DEF SubmitRequirement
<1>3. ASSUME NEW a \in Assets, NEW p \in Places, PlaceAsset(a, p)
      PROVE  /\ placeOf[a] = Nil /\ placeOf' = [placeOf EXCEPT ![a] = p]
             /\ ledgerReqs' = ledgerReqs
             /\ Tell("assets", Task("assetPut", a, {p}))
  BY <1>3 DEF PlaceAsset
<1>4. /\ \A r \in Requirements : ~RevokeRequirement(r)
      /\ \A a \in Assets : ~RemoveAsset(a)
      /\ \A p \in Places : ~RelocateDevice(p)
  BY DEF RevokeRequirement, RemoveAsset, RelocateDevice
<1>5. {"requirements", "assets"} \subseteq Topics
  BY DEF Topics
<1>6. CASE \E r \in Requirements : SubmitRequirement(r)
  <2>1. PICK r \in Requirements : SubmitRequirement(r)
    BY <1>6
  <2>2. /\ UNCHANGED <<location, assets, requests, watching>>
        /\ b \in Tasks /\ At(b, "idle")
        /\ task' = [task EXCEPT ![b] = Task("reqPut", r, {})]
    BY <1>1, <1>2, <1>5, <2>1
  <2> QED BY <1>2, <2>1, <2>2
<1>7. CASE \E a \in Assets, p \in Places : PlaceAsset(a, p)
  <2>1. PICK a \in Assets, p \in Places : PlaceAsset(a, p)
    BY <1>7
  <2>2. /\ UNCHANGED <<location, assets, requests, watching>>
        /\ b \in Tasks /\ At(b, "idle")
        /\ task' = [task EXCEPT ![b] = Task("assetPut", a, {p})]
    BY <1>1, <1>3, <1>5, <2>1
  <2> QED BY <1>3, <2>1, <2>2
<1> QED BY <1>4, <1>6, <1>7 DEF Ledger

\* Where the steps of a calm system lead.
LEMMA UndoneStep ==
    ASSUME SettlingInv, Disturbances = {}, [Next]_vars
    PROVE  Undone'
<1> USE DEF SettlingInv, CalmInv, HandlersInv
<1> DEFINE Fine(u) == task'[u].pc \notin RevokedPCs /\ (task'[u].pc \in ReloadPCs => u = Reload)
<1> SUFFICES ASSUME NEW u \in Tasks, task'[u] # task[u] PROVE Fine(u)
  BY DEF Undone
<1>0. task \in [Tasks -> TaskRecords]
  BY DEF TypeOK
<1>1. ASSUME NEW t \in Tasks, Observer(t) PROVE Fine(u)
  <2>1. t[2] = "observer"
    <3>1. t = <<t[1], "observer">>
      BY <1>1, ObserverShape DEF ObserverStep
    <3> QED BY <3>1
  <2>2. ~RequirementGone(t) /\ ~RequirementEnd(t) /\ ~RequirementDelete(t)
    BY DEF Undone, RevokedPCs, RequirementGone, RequirementEnd, RequirementDelete, At
  <2>3. \/ \E k : Become(t, k) /\ k.pc \notin ReloadPCs \cup RevokedPCs
        \/ \E k, role, h : /\ role \in {"cache", "engine"} /\ k.pc \notin ReloadPCs \cup RevokedPCs
                           /\ h.pc \notin ReloadPCs \cup RevokedPCs /\ Emit(t, k, role, h)
    BY <1>1, <2>2 DEF Observer, RequirementCheck, RequirementGet, RequirementCancel,
       RequirementStore, AssetSeen, AssetKnown, AssetAssign, AssetGone, AssetUnassign,
       DeviceUpdated, DeviceStore, ToEngine, Finish, Task, Idle, ReloadPCs, LoadingPCs, RevokedPCs
  <2>4. {"cache", "engine"} \subseteq Roles \ {t[2]}
    BY <2>1 DEF Roles
  <2>5. task'[u].pc \notin ReloadPCs \cup RevokedPCs
    <3>1. ASSUME NEW k, Become(t, k), k.pc \notin ReloadPCs \cup RevokedPCs
          PROVE  task'[u].pc \notin ReloadPCs \cup RevokedPCs
      BY <1>0, <3>1, BecomeEffect
    <3>2. ASSUME NEW k, NEW role \in {"cache", "engine"}, NEW h, Emit(t, k, role, h),
                 k.pc \notin ReloadPCs \cup RevokedPCs, h.pc \notin ReloadPCs \cup RevokedPCs
          PROVE  task'[u].pc \notin ReloadPCs \cup RevokedPCs
      BY <1>0, <2>4, <3>2, EmitOutcome
    <3> QED BY <2>3, <3>1, <3>2
  <2> QED BY <2>5
<1>2. ASSUME NEW t \in Tasks, Cache(t) PROVE Fine(u)
  <2>1. CacheStep(t)
    BY <1>2, CacheShape
  <2>2. CASE u # t
    <3>1. task'[u].pc \in {"idle"} \cup EnginePCs
      BY <2>1, <2>2 DEF CacheStep
    <3> QED BY <3>1 DEF EnginePCs, ReloadPCs, LoadingPCs, RevokedPCs
  <2>3. CASE u = t
    <3>1. task'[u].pc \in {"idle"} \cup CachePCs
      BY <2>1, <2>3 DEF CacheStep
    <3>2. task'[u].pc \notin RevokedPCs
      BY <3>1 DEF CachePCs, ChangePCs, StorePCs, RevokedPCs
    <3>3. CASE task[t].pc \in ReloadPCs
      BY <2>3, <3>2, <3>3 DEF Undone
    <3>4. CASE task[t].pc \notin ReloadPCs
      <4>1. ~LocationChanged(t)
        BY DEF CalmTask, AwayPCs, LocationChanged, At
      <4>2. \/ AssetsLost(t) \/ CancelLost(t) \/ LostCancelled(t)
            \/ AssetsGained(t) \/ GainedStore(t)
        BY <1>2, <3>4, <4>1 DEF Cache, FlushAssets, ReadLocation, QueryAssets, StoreAssets,
           FlushRequests, ReadAssets, QueryRequests, StoreRequests, At, ReloadPCs, LoadingPCs
      <4>3. ~AssetsLost(t) /\ ~CancelLost(t) /\ ~LostCancelled(t)
        BY DEF CalmTask, AwayPCs, AssetsLost, CancelLost, LostCancelled, At
      <4>4. CASE AssetsGained(t)
        <5>1. task'[t] = Task("gainedStore", Nil, RequirementsFor({task[t].on}))
              \/ task'[t] = Idle
          BY <1>0, <4>4, BecomeEffect DEF AssetsGained, Finish
        <5> QED BY <2>3, <5>1 DEF Task, Idle, ReloadPCs, LoadingPCs, RevokedPCs
      <4>5. CASE GainedStore(t)
        <5>0. "engine" \in Roles \ {t[2]}
          <6>1. t = <<t[1], "cache">>
            BY <2>1 DEF CacheStep
          <6>2. t[2] = "cache"
            BY <6>1
          <6> QED BY <6>2 DEF Roles
        <5>1. task'[t] = Idle
          BY <1>0, <4>5, <5>0, BecomeEffect, EmitOutcome DEF GainedStore, ToEngine
        <5> QED BY <2>3, <5>1 DEF Task, Idle, ReloadPCs, LoadingPCs, RevokedPCs
      <4> QED BY <4>2, <4>3, <4>4, <4>5
    <3> QED BY <3>3, <3>4
  <2> QED BY <2>2, <2>3
<1>3. ASSUME NEW t \in Tasks, Engine(t) PROVE Fine(u)
  <2>1. task'[u].pc \in {"idle"} \cup EnginePCs
    BY <1>3, EngineShape DEF EngineStep
  <2> QED BY <2>1 DEF EnginePCs, ReloadPCs, LoadingPCs, RevokedPCs
<1>4. CASE Ledger
  <2>1. task'[u].pc \in {"reqPut", "assetPut"}
    <3>1. PICK b \in Tasks :
             \/ \E r \in Requirements : task' = [task EXCEPT ![b] = Task("reqPut", r, {})]
             \/ \E a \in Assets, p \in Places :
                   task' = [task EXCEPT ![b] = Task("assetPut", a, {p})]
      BY <1>4, CalmLedger
    <3>2. ASSUME NEW r \in Requirements, task' = [task EXCEPT ![b] = Task("reqPut", r, {})]
          PROVE  task'[u].pc = "reqPut"
      BY <1>0, <3>2 DEF Task
    <3>3. ASSUME NEW a \in Assets, NEW p \in Places,
                 task' = [task EXCEPT ![b] = Task("assetPut", a, {p})]
          PROVE  task'[u].pc = "assetPut"
      BY <1>0, <3>3 DEF Task
    <3> QED BY <3>1, <3>2, <3>3
  <2> QED BY <2>1 DEF ReloadPCs, LoadingPCs, RevokedPCs
<1>5. CASE SensorsAppear
  <2>1. task'[u] = Task("cacheChanged", Nil, {})
    BY <1>0, <1>5 DEF SensorsAppear
  <2> QED BY <2>1 DEF Task, ReloadPCs, LoadingPCs, RevokedPCs
<1>6. ~((\E topic \in Topics : Watch(topic)) \/ Subscribe \/ StartRuns \/ UNCHANGED vars)
  BY DEF Watch, Subscribe, StartRuns, vars
<1> QED BY <1>1, <1>2, <1>3, <1>4, <1>5, <1>6 DEF Next, Goroutine

\* What a step that is no goroutine's does to a calm system.
LEMMA CalmOthers ==
    ASSUME SettlingInv, Disturbances = {}, [Next]_vars, \A t \in Tasks : ~Goroutine(t)
    PROVE  /\ UNCHANGED <<location, assets, requests>>
           /\ \A t \in Tasks : task[t].pc # "idle" /\ t # <<0, "start">> => task'[t] = task[t]
<1> USE DEF SettlingInv, CalmInv, HandlersInv, TypeOK
<1>1. CASE Ledger
  <2>1. PICK b \in Tasks : /\ At(b, "idle")
                           /\ \E h : task' = [task EXCEPT ![b] = h]
    BY <1>1, CalmLedger
  <2>2. PICK h : task' = [task EXCEPT ![b] = h]
    BY <2>1
  <2> QED BY <1>1, <2>1, <2>2, CalmLedger DEF At
<1>2. CASE ~Ledger
  <2>1. UNCHANGED <<location, assets, requests>>
        /\ (task' = task \/ task' = [task EXCEPT ![<<0, "start">>] = Task("cacheChanged", Nil, {})])
    BY <1>2 DEF Next, Watch, Subscribe, StartRuns, SensorsAppear, vars
  <2> QED BY <2>1
<1> QED BY <1>1, <1>2

\* In a calm system the device stays, and what is placed or in force stays so.
LEMMA CalmKeeps ==
    ASSUME SettlingInv, Disturbances = {}, [Next]_vars
    PROVE  location' = location /\ watching' = watching
<1> USE DEF SettlingInv, CalmInv, HandlersInv
<1>1. ASSUME NEW t \in Tasks, Goroutine(t) PROVE location' = location /\ watching' = watching
  <2>1. ~DeviceStore(t)
    BY DEF CalmTask, AwayPCs, DeviceStore, At
  <2> QED BY <1>1, <2>1 DEF Goroutine, Observer, RequirementCheck, RequirementGet,
     RequirementCancel, RequirementStore, RequirementGone, RequirementEnd, RequirementDelete,
     AssetSeen, AssetKnown, AssetAssign, AssetGone, AssetUnassign, DeviceUpdated, Cache,
     AssetsLost, CancelLost, LostCancelled, AssetsGained, GainedStore, LocationChanged,
     FlushAssets, ReadLocation, QueryAssets, StoreAssets, FlushRequests, ReadAssets,
     QueryRequests, StoreRequests, Engine, RequirementsChanged, CacheChanged, Act,
     ServeOnce, ServePeriodic, startVars
<1>2. CASE Ledger
  BY <1>2, CalmLedger
<1>3. CASE ~Ledger /\ \A t \in Tasks : ~Goroutine(t)
  <2>1. SensorsAppear \/ Subscribe \/ StartRuns \/ (\E topic \in Topics : Watch(topic))
        \/ UNCHANGED vars
    BY <1>3 DEF Next
  <2>2. \A topic \in Topics : ~Watch(topic)
    BY DEF Watch
  <2> QED BY <2>1, <2>2 DEF Subscribe, StartRuns, SensorsAppear, vars, startVars
<1> QED BY <1>1, <1>2, <1>3

\* What a step of a goroutine does to the ledger: nothing.
LEMMA LedgerKept ==
    ASSUME NEW t \in Tasks, Goroutine(t) PROVE UNCHANGED <<ledgerReqs, placeOf>>
<1>1. CASE Observer(t)
  BY <1>1 DEF Observer, RequirementCheck, RequirementGet, RequirementCancel, RequirementStore,
     RequirementGone, RequirementEnd, RequirementDelete, AssetSeen, AssetKnown, AssetAssign,
     AssetGone, AssetUnassign, DeviceUpdated, DeviceStore, ledgerVars
<1>2. CASE Cache(t)
  BY <1>2 DEF Cache, AssetsLost, CancelLost, LostCancelled, AssetsGained, GainedStore,
     LocationChanged, FlushAssets, ReadLocation, QueryAssets, StoreAssets, FlushRequests,
     ReadAssets, QueryRequests, StoreRequests, ledgerVars
<1>3. CASE Engine(t)
  BY <1>3 DEF Engine, RequirementsChanged, CacheChanged, Act, ServeOnce, ServePeriodic, ledgerVars
<1> QED BY <1>1, <1>2, <1>3 DEF Goroutine

LEMMA ReloadIsTask == Reload \in Tasks
BY DEF Reload, Tasks, Roles

\* The start goes on to assign what is at the device's place.
LEMMA ReloadGoes ==
    ASSUME SettlingInv, Disturbances = {}, [Next]_vars, NEW a \in Assets,
           placeOf[a] = location, WillReload(a)
    PROVE  WillReload(a)' \/ a \in assets'
<1> USE ReloadIsTask DEF SettlingInv, CalmInv, HandlersInv, TypeOK
<1>1. CASE task'[Reload] = task[Reload]
  BY <1>1 DEF WillReload, At
<1>2. CASE task'[Reload] # task[Reload]
  <2>1. task[Reload].pc \in LoadingPCs /\ LoadingPCs \subseteq CachePCs
    BY DEF WillReload, At, LoadingPCs, CachePCs
  <2>2. Cache(Reload)
    <3>1. Observer(Reload) \/ Cache(Reload)
      BY <1>2, <2>1, OwnSteps
    <3>2. ~Observer(Reload)
      <4>1. Reload # <<Reload[1], "observer">>
        BY DEF Reload
      <4> QED BY <4>1, ObserverShape DEF ObserverStep
    <3> QED BY <3>1, <3>2
  <2>3. FlushAssets(Reload) \/ ReadLocation(Reload) \/ QueryAssets(Reload) \/ StoreAssets(Reload)
    BY <2>2 DEF WillReload, At, Cache, AssetsLost, CancelLost, LostCancelled, AssetsGained,
       GainedStore, LocationChanged, FlushRequests, ReadAssets, QueryRequests, StoreRequests
  <2>4. CASE FlushAssets(Reload) \/ ReadLocation(Reload)
    <3>1. task'[Reload].pc \in {"readLocation", "queryAssets"}
      BY <2>4, BecomeEffect DEF FlushAssets, ReadLocation, Task
    <3> QED BY <3>1 DEF WillReload
  <2>5. CASE QueryAssets(Reload)
    <3>1. task[Reload].on = location
      BY <2>5 DEF CalmTask, QueryAssets, At
    <3>2. task'[Reload] = Task("storeAssets", Nil, AssetsNear(location))
      BY <2>5, <3>1, BecomeEffect DEF QueryAssets
    <3> QED BY <3>2 DEF WillReload, At, Task, AssetsNear
  <2>6. CASE StoreAssets(Reload)
    <3>1. a \in task[Reload].held
      BY <2>6 DEF WillReload, StoreAssets, At
    <3> QED BY <2>6, <3>1 DEF StoreAssets
  <2> QED BY <2>3, <2>4, <2>5, <2>6
<1> QED BY <1>1, <1>2

\* Nobody but the start forgets an assigned asset, and the start assigns it again.
LEMMA AssetStays ==
    ASSUME SettlingInv, Disturbances = {}, [Next]_vars, NEW a \in assets
    PROVE  WillReload(a)' \/ a \in assets'
<1> USE ReloadIsTask DEF SettlingInv, CalmInv, HandlersInv, TypeOK
<1>1. CASE \A t \in Tasks : ~Goroutine(t)
  BY <1>1, CalmOthers
<1>2. ASSUME NEW t \in Tasks, Goroutine(t) PROVE WillReload(a)' \/ a \in assets'
  <2>1. ~AssetUnassign(t)
    BY DEF CalmTask, AwayPCs, AssetUnassign, At
  <2>2. CASE FlushAssets(t)
    <3>1. t = Reload
      BY <2>2 DEF Undone, ReloadPCs, LoadingPCs, FlushAssets, At
    <3>2. task'[Reload].pc = "readLocation"
      BY <2>2, <3>1, BecomeEffect DEF FlushAssets, Task
    <3> QED BY <3>2 DEF WillReload
  <2>3. CASE ~FlushAssets(t)
    BY <1>2, <2>1, <2>3 DEF Goroutine, Observer, RequirementCheck, RequirementGet,
       RequirementCancel, RequirementStore, RequirementGone, RequirementEnd, RequirementDelete,
       AssetSeen, AssetKnown, AssetAssign, AssetGone, DeviceUpdated, DeviceStore, Cache,
       AssetsLost, CancelLost, LostCancelled, AssetsGained, GainedStore, LocationChanged,
       ReadLocation, QueryAssets, StoreAssets, FlushRequests, ReadAssets, QueryRequests,
       StoreRequests, Engine, RequirementsChanged, CacheChanged, Act, ServeOnce, ServePeriodic
  <2> QED BY <2>2, <2>3
<1> QED BY <1>1, <1>2

\* Whoever comes with an asset goes on with it until it is assigned.
LEMMA ComingGoes ==
    ASSUME SettlingInv, Disturbances = {}, [Next]_vars, NEW t \in Tasks, NEW a \in Assets,
           placeOf[a] = location, Coming(t, a)
    PROVE  \/ Coming(t, a)'
           \/ At(t, "assetNear") /\ a \in assets /\ a \in assets'
           \/ AssetAssign(t) /\ task[t].held # {} /\ a \in assets'
<1> USE DEF SettlingInv, CalmInv, HandlersInv, TypeOK
<1>1. CASE task'[t] = task[t]
  BY <1>1 DEF Coming, At
<1>2. CASE task'[t] # task[t]
  <2>1. task[t].pc \in AssetPCs /\ AssetPCs \subseteq ObserverPCs
    BY DEF Coming, At, AssetPCs, ObserverPCs
  <2>2. AssetSeen(t) \/ AssetKnown(t) \/ AssetAssign(t)
    <3>1. Observer(t) \/ Cache(t)
      BY <1>2, <2>1, OwnSteps
    <3>2. ~Cache(t)
      <4>1. t[2] = "observer"
        BY <2>1, ObserverTasks
      <4>2. t # <<t[1], "cache">>
        BY <4>1
      <4> QED BY <4>2, CacheShape DEF CacheStep
    <3> QED BY <3>1, <3>2 DEF Coming, At, Observer, RequirementCheck, RequirementGet,
           RequirementCancel, RequirementStore, RequirementGone, RequirementEnd,
           RequirementDelete, AssetGone, AssetUnassign, DeviceUpdated, DeviceStore
  <2>3. CASE AssetSeen(t)
    <3>1. task[t].held = {location} /\ task[t].on = a
      BY <2>3 DEF AssetSeen, CalmTask, At, Coming
    <3>2. task'[t] = Task("assetNear", a, {})
      BY <2>3, <3>1, BecomeEffect DEF AssetSeen
    <3> QED BY <3>2 DEF Coming, Task
  <2>4. CASE AssetKnown(t)
    <3>1. task'[t] = Task("assetAssign", a, {a} \ assets) /\ assets' = assets
      BY <2>4, BecomeEffect DEF AssetKnown, Coming
    <3> QED BY <2>4, <3>1 DEF AssetKnown, Coming, Task, At
  <2>5. CASE AssetAssign(t)
    BY <2>5 DEF AssetAssign, Coming, At
  <2> QED BY <2>2, <2>3, <2>4, <2>5
<1> QED BY <1>1, <1>2

\* An asset is newly at the device's place only by being placed there.
LEMMA PlacedComes ==
    ASSUME SettlingInv, Disturbances = {}, [Next]_vars, NEW a \in Assets,
           placeOf'[a] # placeOf[a]
    PROVE  /\ \E t \in Tasks : Coming(t, a)' /\ task'[t].pc = "assetPut"
           /\ placeOf[a] = Nil /\ ledgerReqs' = ledgerReqs
           /\ UNCHANGED <<location, assets, requests>>
<1> USE DEF SettlingInv, CalmInv, HandlersInv, TypeOK
<1>1. Ledger
  BY LedgerKept DEF Next, Watch, Subscribe, StartRuns, SensorsAppear, vars, ledgerVars
<1>2. PICK b \in Tasks :
        \E x \in Assets, p \in Places :
            /\ placeOf[x] = Nil
            /\ placeOf' = [placeOf EXCEPT ![x] = p]
            /\ ledgerReqs' = ledgerReqs
            /\ task' = [task EXCEPT ![b] = Task("assetPut", x, {p})]
  BY <1>1, CalmLedger
<1>3. PICK p \in Places :
            /\ placeOf[a] = Nil
            /\ ledgerReqs' = ledgerReqs
            /\ task' = [task EXCEPT ![b] = Task("assetPut", a, {p})]
  BY <1>2
<1>4. task'[b] = Task("assetPut", a, {p})
  BY <1>3
<1> QED BY <1>1, <1>3, <1>4, CalmLedger DEF Coming, Task

\* Who is about to assign an asset has just looked whether it is assigned.
LEMMA AssignFromKnown ==
    ASSUME SettlingInv, Disturbances = {}, [Next]_vars, NEW t \in Tasks,
           task'[t] # task[t], task'[t].pc = "assetAssign"
    PROVE  AssetKnown(t)
<1> USE DEF SettlingInv, CalmInv, HandlersInv
<1>0. task \in [Tasks -> TaskRecords]
  BY DEF TypeOK
<1>1. ASSUME NEW g \in Tasks, Observer(g) PROVE AssetKnown(t)
  <2>1. {"cache", "engine"} \subseteq Roles \ {g[2]}
    <3>1. g = <<g[1], "observer">>
      BY <1>1, ObserverShape DEF ObserverStep
    <3>2. g[2] = "observer"
      BY <3>1
    <3> QED BY <3>2 DEF Roles
  <2>2. CASE AssetKnown(g)
    <3>1. g = t
      BY <1>0, <2>2, BecomeEffect DEF AssetKnown
    <3> QED BY <2>2, <3>1
  <2>3. CASE ~AssetKnown(g)
    <3>1. \/ \E k : Become(g, k) /\ k.pc # "assetAssign"
          \/ \E k, role, h : /\ role \in {"cache", "engine"} /\ k.pc # "assetAssign"
                             /\ h.pc # "assetAssign" /\ Emit(g, k, role, h)
      BY <1>1, <2>3 DEF Observer, RequirementCheck, RequirementGet, RequirementCancel,
         RequirementStore, RequirementGone, RequirementEnd, RequirementDelete, AssetSeen,
         AssetAssign, AssetGone, AssetUnassign, DeviceUpdated, DeviceStore, ToEngine, Finish,
         Task, Idle
    <3>2. ASSUME NEW k, Become(g, k), k.pc # "assetAssign" PROVE FALSE
      BY <1>0, <3>2, BecomeEffect
    <3>3. ASSUME NEW k, NEW role \in {"cache", "engine"}, NEW h, Emit(g, k, role, h),
                 k.pc # "assetAssign", h.pc # "assetAssign"
          PROVE  FALSE
      BY <1>0, <2>1, <3>3, EmitOutcome
    <3> QED BY <3>1, <3>2, <3>3
  <2> QED BY <2>2, <2>3
<1>2. ASSUME NEW g \in Tasks, Cache(g) PROVE FALSE
  <2>1. task'[t].pc \in {"idle"} \cup CachePCs \cup EnginePCs
    BY <1>2, CacheShape DEF CacheStep
  <2> QED BY <2>1 DEF CachePCs, ChangePCs, StorePCs, EnginePCs
<1>3. ASSUME NEW g \in Tasks, Engine(g) PROVE FALSE
  BY <1>3, EngineShape DEF EngineStep, EnginePCs
<1>4. CASE Next /\ \A g \in Tasks : ~Goroutine(g)
  BY <1>4, OthersKeep
<1>5. ~UNCHANGED vars
  BY DEF vars
<1> QED BY <1>1, <1>2, <1>3, <1>4, <1>5 DEF Goroutine

LEMMA AssetsSettle ==
    ASSUME SettlingInv, Disturbances = {}, [Next]_vars
    PROVE  AssetsSettled' /\ AssignKept'
<1> USE DEF SettlingInv, CalmInv, HandlersInv, TypeOK
<1>0. location' = location
  BY CalmKeeps
<1>1. AssetsSettled'
  <2> SUFFICES ASSUME NEW a \in Assets, placeOf'[a] = location'
               PROVE  WillReload(a)' \/ a \in assets' \/ \E t \in Tasks : Coming(t, a)'
    BY DEF AssetsSettled
  <2>1. CASE placeOf[a] = location
    BY <2>1, ReloadGoes, AssetStays, ComingGoes DEF AssetsSettled
  <2>2. CASE placeOf[a] # location
    BY <1>0, <2>2, PlacedComes
  <2> QED BY <2>1, <2>2
<1>2. AssignKept'
  <2> SUFFICES ASSUME NEW t \in Tasks, task'[t].pc = "assetAssign", task'[t].held = {},
                      NEW x, x = task'[t].on
               PROVE  x \in assets' \/ WillReload(x)'
    BY DEF AssignKept, At, WillReload
  <2>1. CASE task'[t] = task[t]
    <3>1. task[t].on \in Assets /\ placeOf[task[t].on] = location
      BY <2>1, TaskType DEF CalmTask, WellFormed, AssetPCs
    <3>2. PICK a \in Assets : a = task[t].on
      BY <3>1
    <3>3. a \in assets \/ WillReload(a)
      BY <2>1, <3>2 DEF AssignKept, At
    <3>4. a \in assets' \/ WillReload(a)'
      BY <3>1, <3>2, <3>3, ReloadGoes, AssetStays
    <3>5. a = x
      BY <2>1, <3>2
    <3> QED BY <3>4, <3>5
  <2>2. CASE task'[t] # task[t]
    <3>1. AssetKnown(t)
      BY <2>2, AssignFromKnown
    <3>2. task'[t] = Task("assetAssign", task[t].on, {task[t].on} \ assets) /\ assets' = assets
      BY <3>1, BecomeEffect DEF AssetKnown
    <3> QED BY <3>2 DEF Task
  <2> QED BY <2>1, <2>2
<1> QED BY <1>1, <1>2

\* Past its flush the cache loses nothing.
LEMMA CachedStays ==
    ASSUME SettlingInv, Disturbances = {}, [Next]_vars, NEW r \in Requirements,
           task[Reload].pc \notin LoadingPCs, requests[r] # Nil
    PROVE  requests'[r] # Nil
<1> USE DEF SettlingInv, CalmInv, HandlersInv
<1>1. CASE \A t \in Tasks : ~Goroutine(t)
  BY <1>1, CalmOthers
<1>2. ASSUME NEW t \in Tasks, Goroutine(t) PROVE requests'[r] # Nil
  <2>1. <<r, t[1]>> # Nil
    <3>1. <<r, t[1]>> \in Objects
      BY EventOfTask DEF Objects
    <3> QED BY ONLY <3>1, NilAssumption
  <2>2. ~FlushRequests(t)
    BY DEF FlushRequests, At, Undone, ReloadPCs, LoadingPCs
  <2>3. ~RequirementDelete(t)
    BY DEF RequirementDelete, At, Undone, RevokedPCs
  <2>4. RequestID(r) # r /\ \A o : RequestID(o) # r
    <3>1. r # Nil
      BY ONLY NilAssumption, r \in Requirements
    <3> QED BY <3>1 DEF RequestID
  <2>5. requests'[r] \in {requests[r], <<r, t[1]>>}
    <3>1. CASE Observer(t)
      BY <2>3, <3>1 DEF Observer, RequirementCheck, RequirementGet, RequirementCancel,
         RequirementStore, RequirementGone, RequirementEnd, AssetSeen, AssetKnown, AssetAssign,
         AssetGone, AssetUnassign, DeviceUpdated, DeviceStore, Stored
    <3>2. CASE Cache(t)
      BY <2>2, <2>4, <3>2 DEF Cache, AssetsLost, CancelLost, LostCancelled, AssetsGained,
         GainedStore, LocationChanged, FlushAssets, ReadLocation, QueryAssets, StoreAssets,
         ReadAssets, QueryRequests, StoreRequests, Stored, Without
    <3>3. CASE Engine(t)
      BY <2>4, <3>3 DEF Engine, RequirementsChanged, CacheChanged, Act, ServeOnce,
         ServePeriodic, Without
    <3> QED BY <1>2, <3>1, <3>2, <3>3 DEF Goroutine
  <2> QED BY <2>1, <2>5
<1> QED BY <1>1, <1>2

\* An asset that is assigned for the first time is reported to CacheManager.
LEMMA AssignReports ==
    ASSUME SettlingInv, NEW u \in Tasks, AssetAssign(u), task[u].held # {}
    PROVE  \E v \in Tasks : task'[v].pc = "assetsGained" /\ task'[v].on = task[u].on
<1> USE DEF SettlingInv, CalmInv, HandlersInv, TypeOK
<1>1. "cache" \in Roles \ {u[2]}
  <2>1. u[2] = "observer"
    BY ObserverTasks DEF AssetAssign, At, ObserverPCs, AssetPCs
  <2> QED BY <2>1 DEF Roles
<1>2. Emit(u, Idle, "cache", Task("assetsGained", task[u].on, {}))
  BY DEF AssetAssign
<1>3. <<u[1], "cache">> \in Tasks
      /\ task'[<<u[1], "cache">>] = Task("assetsGained", task[u].on, {})
  BY <1>1, <1>2, EmitEffect
<1> QED BY <1>3 DEF Task

\* Past the start an asset becomes assigned only by a task that reports it.
LEMMA AssignedByReport ==
    ASSUME SettlingInv, Disturbances = {}, [Next]_vars, task[Reload].pc \notin LoadingPCs,
           NEW a, a \notin assets, a \in assets'
    PROVE  \E u \in Tasks : AssetAssign(u) /\ task[u].held # {} /\ task[u].on = a
<1> USE DEF SettlingInv, CalmInv, HandlersInv, TypeOK
<1>1. PICK u \in Tasks : Goroutine(u)
  BY CalmOthers
<1>2. ~StoreAssets(u)
  BY DEF StoreAssets, At, Undone, ReloadPCs, LoadingPCs
<1>3. AssetAssign(u)
  <2>1. CASE Observer(u)
    BY <2>1 DEF Observer, RequirementCheck, RequirementGet, RequirementCancel,
       RequirementStore, RequirementGone, RequirementEnd, RequirementDelete, AssetSeen,
       AssetKnown, AssetGone, AssetUnassign, DeviceUpdated, DeviceStore
  <2>2. CASE Cache(u)
    BY <1>2, <2>2 DEF Cache, AssetsLost, CancelLost, LostCancelled, AssetsGained, GainedStore,
       LocationChanged, FlushAssets, ReadLocation, QueryAssets, FlushRequests, ReadAssets,
       QueryRequests, StoreRequests
  <2>3. CASE Engine(u)
    BY <2>3 DEF Engine, RequirementsChanged, CacheChanged, Act, ServeOnce, ServePeriodic
  <2> QED BY <1>1, <2>1, <2>2, <2>3 DEF Goroutine
<1>4. task[u].on = a
  BY <1>3 DEF AssetAssign
<1>5. ~WillReload(a)
  BY DEF WillReload, LoadingPCs, At
<1>6. task[u].held # {}
  BY <1>3, <1>4, <1>5 DEF AssignKept, AssetAssign
<1> QED BY <1>3, <1>4, <1>6

LEMMA ComingStores ==
    ASSUME SettlingInv, Disturbances = {}, [Next]_vars, NEW r \in ledgerReqs,
           placeOf[AssetOf[r]] = location, task[Reload].pc \notin LoadingPCs,
           NEW t \in Tasks, Coming(t, AssetOf[r]), AssetOf[r] \notin assets \/ At(t, "assetAssign")
    PROVE  \E u \in Tasks : WillStore(u, r)'
<1> USE DEF SettlingInv, CalmInv, HandlersInv, TypeOK
<1> DEFINE a == AssetOf[r]
<1>0. a \in Assets
  OBVIOUS
<1>r. ASSUME NEW u \in Tasks, AssetAssign(u), task[u].held # {}, task[u].on = a
      PROVE  \E v \in Tasks : WillStore(v, r)'
  BY <1>r, AssignReports DEF WillStore, At
<1>1. CASE task'[t] = task[t] /\ At(t, "assetAssign")
  BY <1>1 DEF Coming, WillStore, At
<1>2. CASE AssetAssign(t)
  BY <1>2, <1>r DEF AssetAssign, Coming, At
<1>3. CASE task'[t] # task[t] /\ At(t, "assetAssign")
  <2>1. Observer(t) \/ Cache(t)
    BY <1>3, OwnSteps DEF At, ObserverPCs, AssetPCs
  <2>2. AssetAssign(t)
    BY <1>3, <2>1 DEF At, Observer, RequirementCheck, RequirementGet, RequirementCancel,
       RequirementStore, RequirementGone, RequirementEnd, RequirementDelete, AssetSeen,
       AssetKnown, AssetGone, AssetUnassign, DeviceUpdated, DeviceStore, Cache, AssetsLost,
       CancelLost, LostCancelled, AssetsGained, GainedStore, LocationChanged, FlushAssets,
       ReadLocation, QueryAssets, StoreAssets, FlushRequests, ReadAssets, QueryRequests,
       StoreRequests
  <2> QED BY <1>2, <2>2
<1>4. CASE ~At(t, "assetAssign") /\ ~AssetAssign(t)
  <2>1. a \notin assets
    BY <1>4
  <2>2. Coming(t, a)'
    BY <1>0, <1>4, <2>1, ComingGoes
  <2>3. CASE a \notin assets'
    BY <2>2, <2>3 DEF WillStore
  <2>4. CASE a \in assets'
    BY <1>r, <2>1, <2>4, AssignedByReport
  <2> QED BY <2>3, <2>4
<1> QED BY <1>1, <1>2, <1>3, <1>4

\* Whoever is going to store a request goes on until it is stored.
LEMMA WillStoreGoes ==
    ASSUME SettlingInv, Disturbances = {}, [Next]_vars, NEW r \in ledgerReqs,
           placeOf[AssetOf[r]] = location,
           task[Reload].pc \notin LoadingPCs, task'[Reload].pc \notin LoadingPCs,
           NEW t \in Tasks, WillStore(t, r)
    PROVE  requests'[r] # Nil \/ \E u \in Tasks : WillStore(u, r)'
<1> USE DEF SettlingInv, CalmInv, HandlersInv, TypeOK
<1> DEFINE a == AssetOf[r]
<1>0. a \in Assets /\ r \in Requirements /\ <<r, t[1]>> # Nil
  <2>1. <<r, t[1]>> \in Objects
    BY EventOfTask DEF Objects
  <2>2. <<r, t[1]>> # Nil
    BY ONLY <2>1, NilAssumption
  <2> QED BY <2>2
<1>1. CASE Coming(t, a) /\ (a \notin assets \/ At(t, "assetAssign"))
  BY <1>1, ComingStores
<1>2. CASE ~(Coming(t, a) /\ (a \notin assets \/ At(t, "assetAssign"))) /\ task'[t] = task[t]
  <2>1. CASE At(t, "reqPut") /\ task[t].on = r /\ a \in assets
    <3>1. ~WillReload(a)'
      BY DEF WillReload, LoadingPCs, At
    <3>2. a \in assets'
      BY <2>1, <3>1, AssetStays
    <3> QED BY <1>2, <2>1, <3>2 DEF WillStore, At
  <2>2. CASE ~(At(t, "reqPut") /\ task[t].on = r /\ a \in assets)
    BY <1>2, <2>2 DEF WillStore, At
  <2> QED BY <2>1, <2>2
<1>3. CASE ~(Coming(t, a) /\ (a \notin assets \/ At(t, "assetAssign"))) /\ task'[t] # task[t]
  <2>0. Observer(t) \/ Cache(t)
    <3>1. task[t].pc \in ObserverPCs \cup CachePCs
      BY <1>3 DEF WillStore, At, ObserverPCs, RequirementPCs, CachePCs, ChangePCs, StorePCs
    <3> QED BY <1>3, <3>1, OwnSteps
  <2>1. \/ AssetsGained(t) \/ GainedStore(t) \/ QueryRequests(t) \/ StoreRequests(t)
        \/ RequirementCheck(t) \/ RequirementGet(t) \/ RequirementCancel(t)
        \/ RequirementStore(t)
    BY <1>3, <2>0 DEF WillStore, At, Observer, RequirementGone, RequirementEnd,
       RequirementDelete, AssetSeen, AssetKnown, AssetAssign, AssetGone, AssetUnassign,
       DeviceUpdated, DeviceStore, Cache, AssetsLost, CancelLost, LostCancelled,
       LocationChanged, FlushAssets, ReadLocation, QueryAssets, StoreAssets, FlushRequests,
       ReadAssets
  <2>2. CASE AssetsGained(t)
    <3>1. task[t].on = a
      BY <1>3, <2>2 DEF WillStore, AssetsGained, At
    <3>2. task'[t] = Task("gainedStore", Nil, RequirementsFor({a}))
      BY <2>2, <3>1, BecomeEffect DEF AssetsGained
    <3>3. r \in RequirementsFor({a})
      BY DEF RequirementsFor
    <3> QED BY <3>2, <3>3 DEF WillStore, At, Task
  <2>3. CASE GainedStore(t)
    <3>1. r \in task[t].held
      BY <1>3, <2>3 DEF WillStore, GainedStore, At
    <3> QED BY <1>0, <2>3, <3>1 DEF GainedStore, Stored
  <2>4. CASE QueryRequests(t)
    <3>1. a \in task[t].held
      BY <1>3, <2>4 DEF WillStore, QueryRequests, At
    <3>2. task'[t] = Task("storeRequests", Nil, RequirementsFor(task[t].held))
      BY <2>4, BecomeEffect DEF QueryRequests
    <3>3. r \in RequirementsFor(task[t].held)
      BY <3>1 DEF RequirementsFor
    <3> QED BY <3>2, <3>3 DEF WillStore, At, Task
  <2>5. CASE StoreRequests(t)
    <3>1. r \in task[t].held
      BY <1>3, <2>5 DEF WillStore, StoreRequests, At
    <3> QED BY <1>0, <2>5, <3>1 DEF StoreRequests, Stored
  <2>6. CASE RequirementCheck(t)
    <3>1. task[t].on = r /\ a \in assets
      BY <1>3, <2>6 DEF WillStore, RequirementCheck, At
    <3>2. task'[t] = Task("reqGet", r, {})
      BY <2>6, <3>1, BecomeEffect DEF RequirementCheck
    <3> QED BY <3>2 DEF WillStore, Task
  <2>7. CASE RequirementGet(t)
    <3>1. task[t].on = r
      BY <1>3, <2>7 DEF WillStore, RequirementGet, At
    <3>2. task'[t] = Task("reqStore", r, {}) \/ task'[t] = Task("reqCancel", r, {requests[r]})
      BY <2>7, <3>1, BecomeEffect DEF RequirementGet
    <3> QED BY <3>2 DEF WillStore, Task
  <2>8. CASE RequirementCancel(t)
    <3>1. task[t].on = r
      BY <1>3, <2>8 DEF WillStore, RequirementCancel, At
    <3>2. task'[t] = Task("reqStore", r, {})
      BY <2>8, <3>1, BecomeEffect DEF RequirementCancel
    <3> QED BY <3>2 DEF WillStore, Task
  <2>9. CASE RequirementStore(t)
    <3>1. task[t].on = r
      BY <1>3, <2>9 DEF WillStore, RequirementStore, At
    <3> QED BY <1>0, <2>9, <3>1 DEF RequirementStore, Stored
  <2> QED BY <2>1, <2>2, <2>3, <2>4, <2>5, <2>6, <2>7, <2>8, <2>9
<1> QED BY <1>1, <1>2, <1>3

\* What is newly submitted is heard of, and checked.
LEMMA SubmittedStores ==
    ASSUME SettlingInv, Disturbances = {}, [Next]_vars, NEW r \in ledgerReqs' \ ledgerReqs,
           placeOf[AssetOf[r]] = location, task[Reload].pc \notin LoadingPCs
    PROVE  \E u \in Tasks : WillStore(u, r)'
<1> USE DEF SettlingInv, CalmInv, HandlersInv, TypeOK
<1>1. Ledger
  BY LedgerKept DEF Next, Watch, Subscribe, StartRuns, SensorsAppear, vars, ledgerVars
<1>2. PICK b \in Tasks :
           /\ At(b, "idle") /\ r \in Requirements /\ assets' = assets
           /\ task' = [task EXCEPT ![b] = Task("reqPut", r, {})]
  <2>1. PICK b \in Tasks : /\ At(b, "idle")
           /\ \/ \E q \in Requirements :
                    /\ ledgerReqs' = ledgerReqs \cup {q}
                    /\ task' = [task EXCEPT ![b] = Task("reqPut", q, {})]
              \/ ledgerReqs' = ledgerReqs
    BY <1>1, CalmLedger
  <2>2. PICK q \in Requirements : /\ ledgerReqs' = ledgerReqs \cup {q}
                                  /\ task' = [task EXCEPT ![b] = Task("reqPut", q, {})]
    BY <2>1
  <2>3. q = r
    BY <2>2
  <2> QED BY <1>1, <2>1, <2>2, <2>3, CalmLedger
<1>3. task'[b] = Task("reqPut", r, {}) /\ \A u \in Tasks \ {b} : task'[u] = task[u]
  BY <1>2
<1>4. AssetOf[r] \in Assets /\ ~WillReload(AssetOf[r])
  BY <1>2 DEF WillReload, LoadingPCs, At
<1>5. CASE AssetOf[r] \in assets
  BY <1>2, <1>3, <1>5 DEF WillStore, At, Task
<1>6. CASE AssetOf[r] \notin assets
  <2>1. PICK u \in Tasks : Coming(u, AssetOf[r])
    BY <1>4, <1>6 DEF AssetsSettled
  <2>2. u # b
    BY <1>2, <2>1 DEF Coming, At
  <2> QED BY <1>2, <1>3, <1>6, <2>1, <2>2 DEF WillStore, Coming, At
<1> QED BY <1>5, <1>6

\* The start ends by asking for the requirements of what is assigned.
LEMMA LoadingEnds ==
    ASSUME SettlingInv, Disturbances = {}, [Next]_vars,
           task[Reload].pc \in LoadingPCs, task'[Reload].pc \notin LoadingPCs
    PROVE  ReadAssets(Reload) /\ \A u \in Tasks \ {Reload} : task'[u] = task[u]
<1> USE ReloadIsTask DEF SettlingInv, CalmInv, HandlersInv, TypeOK
<1>1. Cache(Reload)
  <2>1. task'[Reload] # task[Reload]
    OBVIOUS
  <2>2. Observer(Reload) \/ Cache(Reload)
    BY <2>1, OwnSteps DEF LoadingPCs, CachePCs
  <2>3. ~Observer(Reload)
    <3>1. Reload # <<Reload[1], "observer">>
      BY DEF Reload
    <3> QED BY <3>1, ObserverShape DEF ObserverStep
  <2> QED BY <2>2, <2>3
<1>2. ~FlushAssets(Reload) /\ ~ReadLocation(Reload) /\ ~QueryAssets(Reload)
      /\ ~StoreAssets(Reload) /\ ~FlushRequests(Reload)
  <2>1. \A k : Become(Reload, k) => task'[Reload] = k
    BY BecomeEffect
  <2> QED BY <2>1 DEF FlushAssets, ReadLocation, QueryAssets, StoreAssets, FlushRequests, Task,
         LoadingPCs
<1>3. ReadAssets(Reload)
  BY <1>1, <1>2 DEF LoadingPCs, At, Cache, AssetsLost, CancelLost, LostCancelled, AssetsGained,
     GainedStore, LocationChanged, QueryRequests, StoreRequests
<1> QED BY <1>3, BecomeEffect DEF ReadAssets

LEMMA RequestsSettle ==
    ASSUME SettlingInv, Disturbances = {}, [Next]_vars
    PROVE  RequestsSettled'
<1> USE ReloadIsTask DEF SettlingInv, CalmInv, HandlersInv, TypeOK
<1> SUFFICES ASSUME NEW r \in ledgerReqs', placeOf'[AssetOf[r]] = location',
                    task'[Reload].pc \notin LoadingPCs
             PROVE  requests'[r] # Nil \/ \E u \in Tasks : WillStore(u, r)'
  BY DEF RequestsSettled
<1> DEFINE a == AssetOf[r]
<1>0. location' = location /\ r \in Requirements /\ a \in Assets
  <2>1. TypeOK'
    BY TypeStep
  <2> QED BY <2>1, CalmKeeps
<1>1. CASE placeOf[a] # location
  <2>1. placeOf'[a] # placeOf[a]
    BY <1>0, <1>1
  <2>2. PICK t \in Tasks : Coming(t, a)' /\ task'[t].pc = "assetPut"
    BY <1>0, <2>1, PlacedComes
  <2>3. a \notin assets'
    BY <1>0, <1>1, <2>1, PlacedComes DEF AssignedNearby
  <2> QED BY <2>2, <2>3 DEF WillStore
<1>2. CASE placeOf[a] = location /\ task[Reload].pc \notin LoadingPCs /\ r \in ledgerReqs
  BY <1>0, <1>2, CachedStays, WillStoreGoes DEF RequestsSettled
<1>3. CASE placeOf[a] = location /\ task[Reload].pc \notin LoadingPCs /\ r \notin ledgerReqs
  BY <1>3, SubmittedStores
<1>4. CASE placeOf[a] = location /\ task[Reload].pc \in LoadingPCs
  <2>1. ReadAssets(Reload) /\ \A u \in Tasks \ {Reload} : task'[u] = task[u]
    BY <1>4, LoadingEnds
  <2>2. task'[Reload] = Task("queryRequests", Nil, assets) /\ assets' = assets
    BY <2>1, BecomeEffect DEF ReadAssets
  <2>3. CASE a \in assets
    BY <2>2, <2>3 DEF WillStore, At, Task
  <2>4. CASE a \notin assets
    <3>1. PICK u \in Tasks : Coming(u, a)
      BY <1>0, <1>4, <2>1, <2>4 DEF AssetsSettled, WillReload, At, ReadAssets
    <3>2. u # Reload
      BY <2>1, <3>1 DEF Coming, ReadAssets, At
    <3> QED BY <2>1, <2>2, <2>4, <3>1, <3>2 DEF WillStore, Coming, At
  <2> QED BY <2>3, <2>4
<1> QED BY <1>1, <1>2, <1>3, <1>4

LEMMA SettlingStep ==
    ASSUME Disturbances = {}
    PROVE  SettlingInv /\ [Next]_vars => SettlingInv'
<1> SUFFICES ASSUME SettlingInv, [Next]_vars PROVE SettlingInv'
  OBVIOUS
<1>1. CalmInv'
  BY CalmStep DEF SettlingInv
<1>2. watching' = Topics
  BY CalmKeeps DEF SettlingInv
<1> QED BY <1>1, <1>2, UndoneStep, AssetsSettle, RequestsSettle DEF SettlingInv

LEMMA SettlingInit ==
    ASSUME ObserverFirst PROVE Init => SettlingInv
<1> SUFFICES ASSUME Init PROVE SettlingInv
  OBVIOUS
<1>1. /\ task[Reload] = Task("flushAssets", Nil, {})
      /\ \A t \in Tasks \ {Reload} : task[t] = Idle
  BY ReloadIsTask DEF Init, Reload
<1>2. Undone
  BY <1>1 DEF Undone, RevokedPCs, ReloadPCs, LoadingPCs, Task, Idle
<1>3. \A a : WillReload(a)
  BY <1>1 DEF WillReload, Task
<1>4. AssignKept /\ AssetsSettled
  BY <1>3 DEF AssignKept, AssetsSettled
<1>5. RequestsSettled
  BY <1>1 DEF RequestsSettled, LoadingPCs, Task
<1>6. watching = Topics
  BY DEF Init
<1> QED BY <1>2, <1>4, <1>5, <1>6, CalmInit DEF SettlingInv

\* What is settled when every goroutine is done.
LEMMA QuietIsSettled ==
    SettlingInv /\ AliveInv /\ NoForgottenRequest => SettledServed
<1> SUFFICES ASSUME SettlingInv, AliveInv, NoForgottenRequest, Quiet, active,
                    NEW r \in ledgerReqs \ OneTime, placeOf[AssetOf[r]] = location
             PROVE  /\ requests[r] # Nil
                    /\ <<requests[r], cancel[requests[r]]>> \in receivers
  BY DEF SettledServed
<1>1. requests[r] # Nil
  <2>1. task[Reload].pc \notin LoadingPCs
    BY ReloadIsTask DEF Quiet, At, LoadingPCs
  <2>2. \A t \in Tasks : ~WillStore(t, r)
    BY DEF Quiet, At, WillStore, Coming
  <2> QED BY <2>1, <2>2 DEF SettlingInv, RequestsSettled
<1>2. r \in Requirements /\ requests[r] \in CachedObjects /\ requests[r][1] = r
  BY <1>1 DEF AliveInv, ProcessedInv, HandlersInv, TypeOK, CachedByName, CachedObjects
<1>3. cancel[requests[r]] # Nil
  <2>1. \A t \in Tasks : ~WillActOn(t, requests[r])
    BY DEF Quiet, At, WillActOn
  <2>2. requests[r] \notin Unserved
    BY <2>1 DEF NoForgottenRequest
  <2> QED BY <1>2, <2>2 DEF Unserved
<1> QED BY <1>1, <1>2, <1>3 DEF AliveInv, CachedRequestAlive, Quiet, At

\* The purpose of the pipeline (events_observer.go, cache_manager.go,
\* engine_operator.go): in a network where requirements and assets are only added
\* and every query is answered, once all the goroutines are done each periodic
\* requirement in force for an asset at the device's place is cached and served by
\* a receiver that was not cancelled.  The observer must have registered before the
\* cache was first filled, and EngineOperator subscribed before it and been started
\* by SensorsRegisterChanged: in the other orders changes and requests are lost.
THEOREM RequirementsServed ==
    ASSUME Disturbances = {}, ObserverFirst, EngineFirst, ~SensorsAtStart
    PROVE  Spec => []SettledServed
<1>1. Spec => []NoForgottenRequest
  BY NothingForgotten
<1>2. SettlingInv => NoneLost
  BY DEF SettlingInv, CalmInv, NoneLost, CalmTask, AwayPCs
<1>3. SettlingInv /\ AliveInv /\ [Next]_vars => SettlingInv' /\ AliveInv'
  BY <1>2, AliveStep, SettlingStep
<1>4. Init => SettlingInv /\ AliveInv
  <2>1. Init => CachedRequestAlive
    BY DEF Init, CachedRequestAlive, CachedObjects
  <2> QED BY <2>1, ProcessedInit, SettlingInit DEF AliveInv
<1> QED BY <1>1, <1>3, <1>4, QuietIsSettled, PTL DEF Spec

================================================================================
