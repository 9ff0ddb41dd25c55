---------------------------- MODULE SettledProofs ----------------------------
(* No wake-up is lost, for any constants: an object for which nothing is   *)
(* pending, queued, delayed or under way is settled; and what a reconcile  *)
(* applies and reports is what the object asks for and what is there.      *)
EXTENDS OriginProofs

\* What a change of o leaves of p when it is no change of generation.
Alike(o, p) ==
  /\ o.spec = p.spec /\ o.generation = p.generation /\ o.deleting = p.deleting
  /\ o.tfState = p.tfState
  /\ o.lastAppliedGeneration = p.lastAppliedGeneration
  /\ o.provisioningState = p.provisioningState
  /\ o.outputs = p.outputs

\* What the watches have to tell, and that with the requests that come back.
News == pending \cup queue

Work == News \cup delayed

\* A write that changes the generation, or makes an object, is an event; events
\* are only ever added by a write.
LEMMA StoreWakes ==
  ASSUME NEW r \in Resources, NEW o, Store(r, o)
  PROVE  /\ pending \subseteq pending'
         /\ obj'[r] # None /\ (~Exists(r) \/ obj'[r].generation # obj[r].generation) =>
              r \in pending' \/ obj'[r] # Persisted(o)
  BY DEF Store, GenerationChanged, Exists

LEMMA FinalizersAlike ==
  ASSUME NEW p \in Object
  PROVE  \A fs : Alike([p EXCEPT !.finalizers = fs], p)
  BY DEF Object, Alike

LEMMA StateAlike ==
  ASSUME TypeOK, NEW r \in Resources, Exists(r)
  PROVE  /\ WithState(r).spec = obj[r].spec
         /\ WithState(r).generation = obj[r].generation
         /\ WithState(r).deleting = obj[r].deleting
         /\ WithStatus(r).spec = obj[r].spec
         /\ WithStatus(r).generation = obj[r].generation
         /\ WithStatus(r).deleting = obj[r].deleting
         /\ WithStatus(r).tfState = obj[r].tfState
         /\ WithStatus(r).lastAppliedGeneration = crd[r].generation
         /\ WithStatus(r).provisioningState = "Created"
         /\ WithStatus(r).outputs = newState[r]
<1>1. obj[r] \in Object
  BY DEF TypeOK, Exists
<1>2. /\ WithState(r).spec = obj[r].spec
      /\ WithState(r).generation = obj[r].generation
      /\ WithState(r).deleting = obj[r].deleting
  BY <1>1 DEF Object, WithState
<1>3. /\ WithStatus(r).spec = obj[r].spec
      /\ WithStatus(r).generation = obj[r].generation
      /\ WithStatus(r).deleting = obj[r].deleting
      /\ WithStatus(r).tfState = obj[r].tfState
      /\ WithStatus(r).lastAppliedGeneration = crd[r].generation
      /\ WithStatus(r).provisioningState = "Created"
      /\ WithStatus(r).outputs = newState[r]
  BY <1>1 DEF Object, WithStatus
<1>4. QED
  BY <1>2, <1>3

\* What users do wakes the controller, or leaves all but other finalizers.
LEMMA UserWakes ==
  ASSUME TypeOK, NEW r \in Resources, User(r)
  PROVE  /\ UNCHANGED <<queue, delayed, drifts>> /\ pending \subseteq pending'
         /\ \/ obj'[r] = None
            \/ r \in pending'
            \/ Exists(r) /\ Alike(obj'[r], obj[r])
<1>1. UNCHANGED <<queue, delayed, drifts>>
  BY DEF User, UserCreate, UserUpdate, UserDelete, AddForeignFinalizer,
         RemoveForeignFinalizer, budget
<1>2. Exists(r) => obj[r] \in Object
  BY DEF TypeOK, Exists
\* A write that the generation tells, and one that it does not.
<1>3. ASSUME NEW o \in Object, Store(r, o),
             \/ ~Exists(r) \/ o.generation # obj[r].generation
             \/ Exists(r) /\ Alike(o, obj[r])
      PROVE  /\ pending \subseteq pending'
             /\ \/ obj'[r] = None
                \/ r \in pending'
                \/ Exists(r) /\ Alike(obj'[r], obj[r])
  <2>1. obj'[r] = Persisted(o) /\ Persisted(o) \in {o, None}
    BY <1>3, StoreType DEF Persisted
  <2>2. QED
    BY <1>3, <2>1, StoreWakes
<1>4. CASE UserCreate(r)
  <2>1. PICK s \in Specs : ~Exists(r) /\ Store(r, NewObject(s))
    BY <1>4 DEF UserCreate
  <2>2. NewObject(s) \in Object
    BY DEF NewObject, Object
  <2>3. QED
    BY <1>1, <1>3, <2>1, <2>2
<1>5. CASE UserUpdate(r)
  <2>1. PICK s \in Specs :
          /\ Exists(r)
          /\ Store(r, [obj[r] EXCEPT !.spec = s, !.generation = @ + 1])
    BY <1>5 DEF UserUpdate
  <2> DEFINE o == [obj[r] EXCEPT !.spec = s, !.generation = @ + 1]
  <2>2. o \in Object /\ o.generation = obj[r].generation + 1
    BY <1>2, <2>1, ObjectUpdates DEF Object
  <2>3. obj[r].generation \in Nat
    BY <1>2, <2>1, ObjectKeeps
  <2>4. obj[r].generation + 1 # obj[r].generation
    BY <2>3
  <2>5. QED
    BY <1>1, <1>3, <2>1, <2>2, <2>4
<1>6. CASE UserDelete(r)
  <2> DEFINE o == [obj[r] EXCEPT !.deleting = TRUE, !.generation = @ + 1]
  <2>1. Exists(r) /\ Store(r, o)
    BY <1>6 DEF UserDelete
  <2>2. o \in Object /\ o.generation = obj[r].generation + 1
    BY <1>2, <2>1, ObjectUpdates DEF Object
  <2>3. obj[r].generation \in Nat
    BY <1>2, <2>1, ObjectKeeps
  <2>4. obj[r].generation + 1 # obj[r].generation
    BY <2>3
  <2>5. QED
    BY <1>1, <1>3, <2>1, <2>2, <2>4
<1>7. CASE AddForeignFinalizer(r) \/ RemoveForeignFinalizer(r)
  <2>1. Exists(r)
    BY <1>7 DEF AddForeignFinalizer, RemoveForeignFinalizer
  <2>2. PICK fs \in SUBSET (Foreign \cup {Bridge}) :
          Store(r, [obj[r] EXCEPT !.finalizers = fs])
    <3>1. obj[r].finalizers \in SUBSET (Foreign \cup {Bridge})
      BY <1>2, <2>1 DEF Object
    <3>2. PICK f \in Foreign :
            \/ Store(r, [obj[r] EXCEPT !.finalizers = obj[r].finalizers \cup {f}])
            \/ Store(r, [obj[r] EXCEPT !.finalizers = obj[r].finalizers \ {f}])
      BY <1>7 DEF AddForeignFinalizer, RemoveForeignFinalizer
    <3>3. QED
      BY <3>1, <3>2
  <2>3. [obj[r] EXCEPT !.finalizers = fs] \in Object
    BY <1>2, <2>1, ObjectUpdates
  <2>4. QED
    BY <1>1, <1>2, <1>3, <2>1, <2>2, <2>3, FinalizersAlike
<1>8. QED
  BY <1>4, <1>5, <1>6, <1>7 DEF User

-----------------------------------------------------------------------------
(* The invariant.                                                          *)

\* Without news for r, its reconcile works on what the object asks for.
InStep(r) ==
  Exists(r) /\ r \notin News /\ pc[r] # "idle" =>
    /\ obj[r].spec = crd[r].spec
    /\ obj[r].generation = crd[r].generation
    /\ obj[r].deleting = deleting[r]
    /\ pc[r] \in {"save", "finish"} /\ ~deleting[r] => newState[r] = crd[r].spec

AtRest(r) ==
  Exists(r) /\ r \notin Work /\ pc[r] = "idle" =>
    IF obj[r].deleting THEN ~HasFinalizer(obj[r]) /\ ~HasIdentity(obj[r])
                       ELSE Converged(r)

Awake(r) == InStep(r) /\ AtRest(r)

SInv == RInv /\ \A r \in Resources : Awake(r)

\* The work of the others stays, or there is more of it.
Steady(q) ==
  /\ Untouched(q)
  /\ q \in News => q \in News'
  /\ q \in Work => q \in Work'

LEMMA AwakeFrame ==
  ASSUME NEW q \in Resources, Awake(q), Steady(q)
  PROVE  Awake(q)'
<1> USE DEF Steady, Untouched, Exists
<1>1. InStep(q)'
  BY DEF Awake, InStep
<1>2. AtRest(q)'
  BY DEF Awake, AtRest, Converged, HasFinalizer, HasIdentity, Recorded
<1>3. QED
  BY <1>1, <1>2 DEF Awake

\* A reconcile that ends with the object in the work queue.
LEMMA AwakeAtEnd ==
  ASSUME NEW r \in Resources, pc'[r] = "idle", obj'[r] = None \/ r \in Work'
  PROVE  Awake(r)'
  BY DEF Awake, InStep, AtRest, News, Work, Exists

\* A step of a reconcile takes nothing from the work queue.
LEMMA StepKeepsWork ==
  ASSUME TypeOK, NEW r \in Resources, ReconcileStep(r), ~Panics(r)
  PROVE  News \subseteq News' /\ Work \subseteq Work'
<1> USE DEF News, Work, budget
<1>1. ASSUME NEW o, Store(r, o)
      PROVE  pending \subseteq pending'
  BY <1>1 DEF Store
<1>2. ASSUME NEW accepted, NEW o, PatchFails(r, accepted, o)
      PROVE  pending \subseteq pending'
  BY <1>1, <1>2 DEF PatchFails
<1>3. CASE EnsureFinalizer(r) \/ SaveTerraformState(r)
  BY <1>1, <1>3 DEF EnsureFinalizer, SaveTerraformState
<1>4. CASE EnsureFinalizerFails(r)
  BY <1>2, <1>4 DEF EnsureFinalizerFails, ReturnError
<1>5. CASE SaveTerraformStateFails(r)
  BY <1>2, <1>5 DEF SaveTerraformStateFails, ReturnError
<1>6. CASE RemoveFinalizerFails(r)
  BY <1>2, <1>6 DEF RemoveFinalizerFails, ReturnError
<1>7. CASE SaveResourceStatusFails(r)
  BY <1>2, <1>7 DEF SaveResourceStatusFails, ReturnError
<1>8. CASE RemoveFinalizerAndSave(r) \/ SaveResourceStatus(r)
  BY <1>1, <1>8 DEF RemoveFinalizerAndSave, SaveResourceStatus, ReturnSuccess
<1>9. CASE \/ ResolveReference(r) \/ ReferenceNotReady(r) \/ MapSpec(r)
           \/ MapSpecFails(r) \/ PlanAndApply(r) \/ PlanAndApplyRefused(r)
           \/ PlanAndApplyFails(r)
  BY <1>9
  DEF ResolveReference, ReferenceNotReady, MapSpec, MapSpecFails, PlanAndApply,
      PlanAndApplyRefused, PlanAndApplyFails, ReturnError, ReturnRequeueAfter,
      work
<1>10. QED
  BY <1>3, <1>4, <1>5, <1>6, <1>7, <1>8, <1>9 DEF ReconcileStep

LEMMA OthersSteady ==
  ASSUME IInv, NEW r \in Resources,
         \/ User(r) \/ CloudDrift(r) \/ DeliverEvent(r) \/ DelayExpires(r)
         \/ StartReconcile(r) \/ (ReconcileStep(r) /\ ~Panics(r))
  PROVE  \A q \in Resources \ {r} : Steady(q)
<1>1. TypeOK /\ \A q \in Resources \ {r} : Untouched(q)
  BY OneMoves DEF IInv
<1>2. CASE User(r)
  BY <1>1, <1>2, UserWakes DEF Steady, News, Work
<1>3. CASE CloudDrift(r)
  BY <1>1, <1>3 DEF CloudDrift, Steady, News, Work, TypeOK, work
<1>4. CASE DeliverEvent(r) \/ DelayExpires(r) \/ StartReconcile(r)
  BY <1>1, <1>4
  DEF DeliverEvent, DelayExpires, StartReconcile, ReconcileGone,
      ReconcileGetFails, ReconcileBegins, Dequeue, Steady, News, Work, budget
<1>5. CASE ReconcileStep(r) /\ ~Panics(r)
  BY <1>1, <1>5, StepKeepsWork DEF Steady
<1>6. QED
  BY <1>2, <1>3, <1>4, <1>5

LEMMA Awake_User ==
  ASSUME IInv, NEW r \in Resources, Awake(r), User(r)
  PROVE  Awake(r)'
<1>1. /\ TypeOK /\ UNCHANGED <<cloud, local, diverged>>
      /\ Work \subseteq Work' /\ News \subseteq News'
      /\ pending' \subseteq News' /\ News' \subseteq Work'
  BY UserEffect, UserWakes DEF IInv, News, Work
<1>2. CASE obj'[r] = None \/ r \in pending'
  BY <1>1, <1>2 DEF Awake, InStep, AtRest, Exists
<1>3. CASE obj'[r] # None /\ Exists(r) /\ Alike(obj'[r], obj[r])
  <2>1. InStep(r)'
    BY <1>1, <1>3 DEF Awake, InStep, Alike, local
  <2>2. HasIdentity(obj'[r]) <=> HasIdentity(obj[r])
    BY <1>3 DEF Alike, HasIdentity, Recorded, Exists
  <2>3. Recorded(obj'[r]) = Recorded(obj[r])
    BY <1>3 DEF Alike, Recorded, Exists
  <2>4. HasFinalizer(obj'[r]) <=> HasFinalizer(obj[r])
    BY <1>1, <1>3, UserEffect
  <2>5. AtRest(r)'
    BY <1>1, <1>3, <2>2, <2>3, <2>4
    DEF Awake, AtRest, Alike, Converged, Exists, local
  <2>6. QED
    BY <2>1, <2>5 DEF Awake
<1>4. QED
  BY <1>1, <1>2, <1>3, UserWakes

LEMMA Awake_Queue ==
  ASSUME IInv, NEW r \in Resources, Awake(r),
         CloudDrift(r) \/ DeliverEvent(r) \/ DelayExpires(r) \/ StartReconcile(r)
  PROVE  Awake(r)'
<1>1. TypeOK
  BY DEF IInv
<1>2. CASE CloudDrift(r)
  <2>1. /\ UNCHANGED <<obj, pc, crd, deleting, newState, pending, queue, delayed>>
        /\ diverged'[r]
    BY <1>1, <1>2 DEF CloudDrift, TypeOK, work, local
  <2>2. QED
    BY <2>1
    DEF Awake, InStep, AtRest, Converged, News, Work, Exists,
        HasFinalizer, HasIdentity, Recorded
<1>3. CASE DeliverEvent(r) \/ DelayExpires(r)
  <2>1. Steady(r)
    BY <1>3
    DEF DeliverEvent, DelayExpires, Steady, Untouched, News, Work, local, budget,
        history
  <2>2. QED
    BY <2>1, AwakeFrame
<1>4. CASE ReconcileGone(r)
  <2>1. obj'[r] = None /\ pc'[r] = "idle"
    BY <1>4 DEF ReconcileGone, Dequeue, Exists, local
  <2>2. QED
    BY <2>1, AwakeAtEnd
<1>5. CASE ReconcileGetFails(r)
  <2>1. r \in Work' /\ pc'[r] = "idle"
    BY <1>5 DEF ReconcileGetFails, Dequeue, News, Work, local
  <2>2. QED
    BY <2>1, AwakeAtEnd
<1>6. CASE ReconcileBegins(r)
  <2>1. /\ crd'[r] = obj[r] /\ deleting'[r] = obj[r].deleting
        /\ pc'[r] \in {"finalizer", "apply"} /\ UNCHANGED obj
    BY <1>1, <1>6 DEF ReconcileBegins, TypeOK
  <2>2. QED
    BY <2>1 DEF Awake, InStep, AtRest, Exists
<1>7. QED
  BY <1>2, <1>3, <1>4, <1>5, <1>6 DEF StartReconcile

\* The steps up to the apply.
LEMMA Awake_Map ==
  ASSUME IInv, NEW r \in Resources, Awake(r), ~Panics(r),
         EnsureFinalizer(r) \/ ResolveReference(r) \/ MapSpec(r)
  PROVE  Awake(r)'
<1>1. TypeOK /\ LocalsSet /\ News \subseteq News' /\ Work \subseteq Work'
  BY StepKeepsWork DEF IInv, IndInv, ReconcileStep
<1>2. CASE /\ UNCHANGED <<obj, crd, deleting>> /\ pc[r] # "idle"
           /\ pc'[r] \in {"map", "apply"}
  BY <1>1, <1>2 DEF Awake, InStep, AtRest, Exists
<1>3. CASE EnsureFinalizer(r)
  <2>1. pc[r] = "finalizer" /\ pc'[r] = "map" /\ UNCHANGED deleting
    BY <1>1, <1>3 DEF EnsureFinalizer, TypeOK
  <2>2. CASE HasFinalizer(crd[r])
    BY <1>2, <1>3, <2>1, <2>2 DEF EnsureFinalizer
  <2>3. CASE ~HasFinalizer(crd[r])
    <3> DEFINE o == [obj[r] EXCEPT !.finalizers = WithFinalizer(r)]
    <3>1. Exists(r) /\ Store(r, o) /\ crd'[r] = obj'[r]
      BY <1>1, <1>3, <2>3 DEF EnsureFinalizer, FinalizersAccepted, TypeOK
    <3>2. /\ o \in Object /\ o.finalizers = WithFinalizer(r)
          /\ Alike(o, obj[r])
      BY <1>1, <2>1, <3>1, PatchTypes, PatchFields, FinalizersAlike
      DEF TypeOK, Exists
    <3>3. obj'[r] = o
      BY <1>1, <3>1, <3>2, StoreType, StoredObject DEF WithFinalizer, HasFinalizer
    <3>4. InStep(r)'
      BY <1>1, <2>1, <3>1, <3>2, <3>3 DEF Awake, InStep, Alike
    <3>5. QED
      BY <2>1, <3>4 DEF Awake, AtRest
  <2>4. QED
    BY <2>2, <2>3
<1>4. CASE ResolveReference(r)
  BY <1>2, <1>4 DEF ResolveReference
<1>5. CASE MapSpec(r)
  BY <1>1, <1>2, <1>5 DEF MapSpec, TypeOK
<1>6. QED
  BY <1>3, <1>4, <1>5

\* The apply and the save.
LEMMA Awake_Save ==
  ASSUME IInv, NEW r \in Resources, Awake(r), ~Panics(r),
         PlanAndApply(r) \/ SaveTerraformState(r)
  PROVE  Awake(r)'
<1>1. /\ TypeOK /\ LocalsSet /\ Held(r)
      /\ News \subseteq News' /\ Work \subseteq Work'
  BY HeldAll, StepKeepsWork DEF IInv, IndInv, ReconcileStep
<1>2. CASE PlanAndApply(r)
  <2>1. /\ pc[r] = "apply" /\ pc'[r] = "save"
        /\ newState'[r] = terraformConfig(r)
        /\ UNCHANGED <<obj, crd, deleting>>
    BY <1>1, <1>2 DEF PlanAndApply, TypeOK
  <2>2. crd[r].spec # NullVal
    BY <1>1, <2>1, SpecAssumption DEF Held, Object
  <2>3. ~deleting[r] => terraformConfig(r) = crd[r].spec
    BY <2>2 DEF terraformConfig
  <2>4. QED
    BY <1>1, <2>1, <2>3 DEF Awake, InStep, AtRest, Exists
<1>3. CASE SaveTerraformState(r)
  <2>1. /\ pc[r] = "save" /\ pc'[r] = "finish" /\ Exists(r)
        /\ Store(r, WithState(r)) /\ crd'[r] = WithState(r)
        /\ UNCHANGED <<cloud, deleting, newState>>
    BY <1>1, <1>3 DEF SaveTerraformState, StateAccepted, TypeOK
  <2>2. WithState(r) \in Object
    BY <1>1, <2>1, PatchTypes
  <2>3. obj'[r] \in {None, WithState(r)}
    BY <1>1, <2>1, <2>2, StoreType DEF Persisted
  <2>4. InStep(r)'
    <3>1. ASSUME r \notin News', obj'[r] # None
          PROVE  /\ obj'[r] = crd'[r] /\ obj'[r].deleting = deleting'[r]
                 /\ ~deleting'[r] => newState'[r] = crd'[r].spec
      BY <1>1, <2>1, <2>3, <3>1, StateAlike DEF Awake, InStep
    <3>2. QED
      BY <3>1 DEF InStep, Exists
  <2>5. QED
    BY <2>1, <2>4 DEF Awake, AtRest
<1>4. QED
  BY <1>2, <1>3

\* What does not succeed comes back.
LEMMA Awake_Error ==
  ASSUME IInv, NEW r \in Resources,
         \/ EnsureFinalizerFails(r) \/ ReferenceNotReady(r) \/ MapSpecFails(r)
         \/ PlanAndApplyRefused(r) \/ PlanAndApplyFails(r)
         \/ SaveTerraformStateFails(r) \/ RemoveFinalizerFails(r)
         \/ SaveResourceStatusFails(r)
  PROVE  Awake(r)'
<1>1. TypeOK
  BY DEF IInv
<1>2. r \in Work' /\ pc'[r] = "idle"
  BY <1>1, EndReconcileType
  DEF EnsureFinalizerFails, ReferenceNotReady, MapSpecFails, PlanAndApplyRefused,
      PlanAndApplyFails, SaveTerraformStateFails, RemoveFinalizerFails,
      SaveResourceStatusFails, ReturnError, ReturnRequeueAfter, News, Work
<1>3. QED
  BY <1>2, AwakeAtEnd

\* What succeeds without news for the object leaves it settled.
LEMMA Awake_Success ==
  ASSUME IInv, NEW r \in Resources, Awake(r), Recording(r), ~Panics(r),
         RemoveFinalizerAndSave(r) \/ SaveResourceStatus(r)
  PROVE  Awake(r)'
<1>1. /\ TypeOK /\ LocalsSet /\ Held(r) /\ pc[r] = "finish" /\ Exists(r)
      /\ Work \subseteq Work' /\ pc'[r] = "idle"
      /\ UNCHANGED cloud /\ diverged'[r] = diverged[r]
  BY HeldAll, StepKeepsWork, EndReconcileType
  DEF IInv, IndInv, ReconcileStep, RemoveFinalizerAndSave, SaveResourceStatus,
      StatusAccepted, ReturnSuccess, FinalizersAccepted, history
<1>2. SUFFICES ASSUME r \notin Work, obj'[r] # None
               PROVE  IF obj'[r].deleting
                      THEN ~HasFinalizer(obj'[r]) /\ ~HasIdentity(obj'[r])
                      ELSE Converged(r)'
  BY <1>1 DEF Awake, InStep, AtRest, Exists
<1>3. /\ obj[r].spec = crd[r].spec /\ obj[r].generation = crd[r].generation
      /\ obj[r].deleting = deleting[r]
      /\ ~deleting[r] => newState[r] = crd[r].spec
  BY <1>1, <1>2 DEF Awake, InStep, Work
<1>4. CASE RemoveFinalizerAndSave(r)
  <2> DEFINE o == [obj[r] EXCEPT !.finalizers = WithoutFinalizer(r)]
  <2>1. deleting[r] /\ Store(r, o)
    BY <1>4 DEF RemoveFinalizerAndSave
  <2>2. /\ o \in Object /\ o.finalizers = WithoutFinalizer(r)
        /\ Alike(o, obj[r])
    BY <1>1, PatchTypes, PatchFields, FinalizersAlike DEF TypeOK, Exists
  <2>3. obj'[r] = o
    BY <1>1, <1>2, <2>1, <2>2, StoreType DEF Persisted
  <2>4. ~HasFinalizer(o)
    BY <2>2 DEF WithoutFinalizer, HasFinalizer
  <2>5. ~HasIdentity(obj[r])
    BY <1>1, <2>1, SpecAssumption DEF Held, HasIdentity
  <2>6. ~HasIdentity(o)
    BY <1>1, <1>2, <2>2, <2>3, <2>5 DEF Alike, HasIdentity, Recorded, Exists
  <2>7. o.deleting
    BY <1>3, <2>1, <2>2 DEF Alike
  <2>8. QED
    BY <2>3, <2>4, <2>6, <2>7
<1>5. CASE SaveResourceStatus(r)
  <2>1. ~deleting[r] /\ Store(r, WithStatus(r)) /\ WithStatus(r) \in Object
    BY <1>1, <1>5, PatchTypes DEF SaveResourceStatus
  <2>2. obj'[r] = WithStatus(r)
    BY <1>1, <1>2, <2>1, StoreType DEF Persisted
  <2>3. /\ WithStatus(r).spec = crd[r].spec
        /\ WithStatus(r).generation = crd[r].generation
        /\ ~WithStatus(r).deleting
        /\ WithStatus(r).lastAppliedGeneration = crd[r].generation
        /\ WithStatus(r).provisioningState = "Created"
        /\ WithStatus(r).outputs = crd[r].spec
    BY <1>1, <1>3, <2>1, StateAlike
  <2>4. Recorded(WithStatus(r)) = crd[r].spec
    <3>1. HasFinalizer(obj[r]) /\ Recorded(obj[r]) = newState[r]
      BY <1>1, <2>1 DEF Held, Steps
    <3>2. WithStatus(r).tfState = obj[r].tfState
      BY <1>1, StateAlike
    <3>3. QED
      BY <1>1, <1>2, <1>3, <2>1, <2>2, <3>1, <3>2 DEF Recorded, Exists
  <2>5. ~diverged'[r] => cloud'[r] = crd[r].spec
    <3>1. HasIdentity(obj[r]) /\ Recorded(obj[r]) = newState[r]
      BY <1>1, <2>1 DEF Held, Steps, HasIdentity
    <3>2. QED
      BY <1>1, <1>3, <2>1, <3>1 DEF Recording
  <2>6. QED
    BY <1>1, <1>2, <2>2, <2>3, <2>4, <2>5 DEF Converged, Exists
<1>6. QED
  BY <1>4, <1>5

-----------------------------------------------------------------------------
LEMMA SpecSInv == Spec => []SInv
<1>1. Init => SInv
  BY InitRInv DEF Init, SInv, Awake, InStep, AtRest, Exists
<1>2. SInv /\ [Next]_vars => SInv'
  <2> SUFFICES ASSUME SInv, [Next]_vars PROVE SInv'
    OBVIOUS
  <2>1. RInv /\ RInv' /\ IInv /\ TypeOK
    BY NextRInv DEF SInv, RInv, IInv
  <2>2. ASSUME NEW r \in Resources,
               \/ User(r) \/ CloudDrift(r) \/ DeliverEvent(r) \/ DelayExpires(r)
               \/ StartReconcile(r) \/ (ReconcileStep(r) /\ ~Panics(r))
        PROVE  SInv'
    <3>1. Awake(r)'
      <4>1. CASE \/ User(r) \/ CloudDrift(r) \/ DeliverEvent(r)
                 \/ DelayExpires(r) \/ StartReconcile(r)
        BY <2>1, <4>1, Awake_User, Awake_Queue DEF SInv
      <4>2. CASE ReconcileStep(r) /\ ~Panics(r)
        BY <2>1, <4>2, Awake_Map, Awake_Save, Awake_Error, Awake_Success
        DEF SInv, RInv, ReconcileStep
      <4>3. QED
        BY <2>2, <4>1, <4>2
    <3>2. \A q \in Resources \ {r} : Awake(q)'
      BY <2>1, <2>2, OthersSteady, AwakeFrame DEF SInv
    <3>3. QED
      BY <2>1, <3>1, <3>2 DEF SInv
  <2>3. ASSUME NEW k, NEW v, Restart(k, v)
        PROVE  SInv'
    <3>1. ASSUME NEW r \in Resources
          PROVE  pc'[r] = "idle" /\ (obj'[r] = None \/ r \in Work')
      BY <2>3 DEF Restart, Exists, News, Work
    <3>2. \A r \in Resources : Awake(r)'
      BY <3>1, AwakeAtEnd
    <3>3. QED
      BY <2>1, <3>2 DEF SInv
  <2>4. CASE UNCHANGED vars
    <3>1. \A r \in Resources : Steady(r)
      BY <2>4 DEF Steady, Untouched, News, Work, vars, work, local, budget, history
    <3>2. QED
      BY <2>1, <3>1, AwakeFrame DEF SInv
  <2>5. QED
    BY <2>2, <2>3, <2>4
    DEF Next, CrashRestart, Panics, DecryptPanic, MapSpecPanic, StatusPanic
<1>3. QED
  BY <1>1, <1>2, PTL DEF Spec

\* Nothing pending, queued, delayed or under way for an object: it is settled.
THEOREM SettledHolds == Spec => []Settled
<1>1. SInv => Settled
  BY DEF SInv, Awake, AtRest, News, Work, Settled, Resting
<1>2. QED
  BY <1>1, SpecSInv, PTL

\* What is applied is what the object asks for, or news of it is on its way,
\* although the copy may be old.
THEOREM AppliesWhatIsWantedHolds == Spec => AppliesWhatIsWanted
<1>1. ASSUME CInv, SInv, [Next]_vars
      PROVE  [\A r \in Resources :
                drifts' = drifts /\ cloud'[r] # cloud[r] =>
                  /\ Exists(r)
                  /\ \/ cloud'[r] = IF obj[r].deleting THEN None ELSE obj[r].spec
                     \/ r \in pending \cup queue]_vars
  <2> SUFFICES ASSUME Next, NEW r \in Resources,
                      drifts' = drifts, cloud'[r] # cloud[r]
               PROVE  /\ Exists(r)
                      /\ r \notin News =>
                           cloud'[r] = IF obj[r].deleting THEN None
                                                          ELSE obj[r].spec
    BY <1>1 DEF News
  <2>1. IInv /\ TypeOK /\ Held(r) /\ Copied(r) /\ InStep(r)
    BY <1>1, HeldAll DEF CInv, IInv, SInv, Awake
  <2>2. pc[r] = "apply" /\ cloud'[r] = Applied(r)
    BY <1>1, <2>1, CloudChange
  <2>3. crd[r].spec \in Specs
    BY <2>1, <2>2 DEF Held, Object
  <2>4. CASE deleting[r]
    <3>1. HasIdentity(crd[r]) /\ cloud'[r] = None
      BY <2>2, <2>4 DEF Applied, terraformConfig
    <3>2. Exists(r)
      BY <2>1, <2>2, <3>1 DEF Copied, SameObject
    <3>3. QED
      BY <2>1, <2>2, <2>4, <3>1, <3>2 DEF InStep
  <2>5. CASE ~deleting[r]
    <3>1. cloud'[r] = crd[r].spec
      BY <2>2, <2>3, <2>5, SpecAssumption DEF Applied, terraformConfig
    <3>2. Exists(r)
      BY <2>1, <2>2, <2>5 DEF Held, Steps
    <3>3. QED
      BY <2>1, <2>2, <2>5, <3>1, <3>2 DEF InStep, TypeOK
  <2>6. QED
    BY <2>4, <2>5
<1>2. QED
  BY <1>1, SpecCInv, SpecSInv, PTL DEF Spec, AppliesWhatIsWanted

\* What an object starts to report, it records, and is in the cloud.
THEOREM ReportedIsAppliedHolds == Spec => ReportedIsApplied
<1>1. ASSUME RInv, [Next]_vars
      PROVE  [\A r \in Resources :
                Exists(r) /\ obj'[r] # None /\ obj'[r].outputs # obj[r].outputs =>
                  /\ obj'[r].outputs = Recorded(obj[r])
                  /\ ~diverged[r] => obj'[r].outputs = cloud[r]]_vars
  <2> SUFFICES ASSUME Next, NEW r \in Resources,
                      Exists(r), obj'[r] # None, obj'[r].outputs # obj[r].outputs
               PROVE  /\ obj'[r].outputs = Recorded(obj[r])
                      /\ ~diverged[r] => obj'[r].outputs = cloud[r]
    BY <1>1
  <2>1. IInv /\ TypeOK /\ LocalsSet /\ Held(r) /\ Recording(r)
    BY <1>1, HeldAll DEF RInv, IInv, IndInv
  <2>2. ~(pc[r] = "save" /\ obj'[r] = WithState(r))
    BY <2>1, StatusKeeps
  <2>3. pc[r] = "finish" /\ ~deleting[r] /\ obj'[r] = WithStatus(r)
    BY <2>1, <2>2, ObjectChange DEF Keeps
  <2>4. obj'[r].outputs = newState[r]
    BY <2>1, <2>3, StatusKeeps
  <2>5. Recorded(obj[r]) = newState[r]
    BY <2>1, <2>3 DEF Held, Steps
  <2>6. newState[r] \in Specs
    BY <2>1, <2>3 DEF Held
  <2>7. QED
    BY <2>1, <2>3, <2>4, <2>5, <2>6 DEF Recording, HasIdentity
<1>2. QED
  BY <1>1, SpecRInv, PTL DEF Spec, ReportedIsApplied

=============================================================================
