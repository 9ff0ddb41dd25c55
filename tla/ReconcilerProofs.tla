-------------------------- MODULE ReconcilerProofs --------------------------
(* Proofs about Reconciler, for any resources, specs, references, keys,    *)
(* finalizers, kinds and bounds.                                           *)
EXTENDS Reconciler, TLAPS

\* What each writer does to an object keeps its type.
LEMMA ObjectUpdates ==
  ASSUME NEW o \in Object
  PROVE  /\ \A s \in Specs, g \in Nat :
              [o EXCEPT !.spec = s, !.generation = g] \in Object
         /\ \A g \in Nat :
              [o EXCEPT !.deleting = TRUE, !.generation = g] \in Object
         /\ o.generation + 1 \in Nat
         /\ \A fs \in SUBSET (Foreign \cup {Bridge}) :
              [o EXCEPT !.finalizers = fs] \in Object
         /\ \A t \in TfState : [o EXCEPT !.tfState = t] \in Object
         /\ \A g \in Nat, s \in Specs, v \in Versions \cup {None} :
              [o EXCEPT !.lastAppliedGeneration = g,
                        !.provisioningState = "Created",
                        !.outputs = s,
                        !.provider = v] \in Object
  <1>0. o.generation + 1 \in Nat
    <2>1. o.generation \in Nat
      BY DEF Object
    <2>2. QED
      BY <2>1
  <1>1. ASSUME NEW s \in Specs, NEW g \in Nat
        PROVE  [o EXCEPT !.spec = s, !.generation = g] \in Object
    BY DEF Object
  <1>2. ASSUME NEW g \in Nat
        PROVE  [o EXCEPT !.deleting = TRUE, !.generation = g] \in Object
    BY DEF Object
  <1>3. ASSUME NEW fs \in SUBSET (Foreign \cup {Bridge})
        PROVE  [o EXCEPT !.finalizers = fs] \in Object
    BY DEF Object
  <1>4. ASSUME NEW t \in TfState
        PROVE  [o EXCEPT !.tfState = t] \in Object
    BY DEF Object
  <1>5. ASSUME NEW g \in Nat, NEW s \in Specs, NEW v \in Versions \cup {None}
        PROVE  [o EXCEPT !.lastAppliedGeneration = g,
                         !.provisioningState = "Created",
                         !.outputs = s,
                         !.provider = v] \in Object
    BY DEF Object
  <1>6. QED
    BY <1>0, <1>1, <1>2, <1>3, <1>4, <1>5

\* Writing an object of the right type, or removing it, keeps the API server's
\* types; nothing but the one object and the events changes.
LEMMA StoreType ==
  ASSUME TypeOK, NEW r \in Resources, NEW o \in Object, Store(r, o)
  PROVE  /\ obj' \in [Resources -> Object \cup {None}]
         /\ pending' \subseteq Resources
         /\ obj'[r] = Persisted(o)
         /\ \A q \in Resources \ {r} : obj'[q] = obj[q]
  BY DEF TypeOK, Store, Persisted

\* A patch that is reported as failed does the same or nothing.
LEMMA PatchFailsType ==
  ASSUME TypeOK, NEW r \in Resources, NEW o, NEW accepted \in BOOLEAN,
         accepted => o \in Object, PatchFails(r, accepted, o)
  PROVE  /\ obj' \in [Resources -> Object \cup {None}]
         /\ pending' \subseteq Resources
         /\ faults' \in Nat
         /\ obj'[r] = obj[r] \/ (accepted /\ obj'[r] = Persisted(o))
         /\ \A q \in Resources \ {r} : obj'[q] = obj[q]
  <1>1. CASE accepted /\ Fault /\ Store(r, o)
    BY <1>1, StoreType DEF Fault, TypeOK
  <1>2. CASE UNCHANGED <<obj, pending>> /\ (UNCHANGED faults \/ Fault)
    BY <1>2 DEF Fault, TypeOK
  <1>3. QED
    BY <1>1, <1>2 DEF PatchFails

\* The end of a reconcile resets its locals and touches no other's.
LEMMA EndReconcileType ==
  ASSUME TypeOK, NEW r \in Resources, EndReconcile(r)
  PROVE  /\ pc' \in [Resources -> Steps]
         /\ crd' \in [Resources -> Object \cup {None}]
         /\ deleting' \in [Resources -> BOOLEAN]
         /\ todo' \in [Resources -> SUBSET Resources]
         /\ newState' \in [Resources -> Specs \cup {None, NullVal}]
         /\ pc'[r] = "idle"
         /\ \A q \in Resources \ {r} :
              /\ pc'[q] = pc[q] /\ crd'[q] = crd[q]
              /\ deleting'[q] = deleting[q] /\ newState'[q] = newState[q]
  BY DEF TypeOK, EndReconcile, Steps

\* Whether a patch is acceptable is a Boolean.
LEMMA BooleanAccepted ==
  ASSUME NEW r \in Resources
  PROVE  /\ Exists(r) \in BOOLEAN
         /\ StateAccepted(r) \in BOOLEAN /\ (StateAccepted(r) => Exists(r))
         /\ StatusAccepted(r) \in BOOLEAN /\ (StatusAccepted(r) => Exists(r))
         /\ \A fs : FinalizersAccepted(r, fs) \in BOOLEAN
  BY DEF Exists, StateAccepted, StatusAccepted, FinalizersAccepted

\* A restart keeps the types, but for the counters, which it leaves to others.
LEMMA RestartType ==
  ASSUME TypeOK, NEW k \in Keys, NEW v \in Versions, Restart(k, v),
         faults' \in Nat, crashes' \in Nat, drifts' \in Nat
  PROVE  TypeOK'
  BY DEF TypeOK, Restart, Steps, Lost, Outdated, Exists

-----------------------------------------------------------------------------
(* Type correctness.                                                       *)

\* The steps of users and other controllers keep the types.
LEMMA TypeOK_User ==
  ASSUME TypeOK, NEW r \in Resources, User(r)
  PROVE  TypeOK'
<1> USE DEF Exists
<1>1. CASE UserCreate(r)
  <2>1. PICK s \in Specs : Store(r, NewObject(s))
    BY <1>1 DEF UserCreate
  <2>2. NewObject(s) \in Object
    BY DEF NewObject, Object
  <2>3. QED
    BY <1>1, <2>1, <2>2, StoreType
    DEF UserCreate, TypeOK, local, process, budget, history
<1>2. CASE UserUpdate(r)
  <2>1. PICK s \in Specs :
          Store(r, [obj[r] EXCEPT !.spec = s, !.generation = @ + 1])
    BY <1>2 DEF UserUpdate
  <2>2. [obj[r] EXCEPT !.spec = s, !.generation = @ + 1] \in Object
    BY <1>2, ObjectUpdates DEF UserUpdate, TypeOK
  <2>3. QED
    BY <1>2, <2>1, <2>2, StoreType
    DEF UserUpdate, TypeOK, local, process, budget, history
<1>3. CASE UserDelete(r)
  <2>1. [obj[r] EXCEPT !.deleting = TRUE, !.generation = @ + 1] \in Object
    BY <1>3, ObjectUpdates DEF UserDelete, TypeOK
  <2>2. QED
    BY <1>3, <2>1, StoreType
    DEF UserDelete, TypeOK, local, process, budget, history
<1>4. CASE AddForeignFinalizer(r)
  <2>1. PICK f \in Foreign :
          Store(r, [obj[r] EXCEPT !.finalizers = @ \cup {f}])
    BY <1>4 DEF AddForeignFinalizer
  <2>2. obj[r].finalizers \cup {f} \in SUBSET (Foreign \cup {Bridge})
    BY <1>4 DEF AddForeignFinalizer, TypeOK, Object
  <2>3. [obj[r] EXCEPT !.finalizers = @ \cup {f}] \in Object
    BY <1>4, <2>2, ObjectUpdates DEF AddForeignFinalizer, TypeOK
  <2>4. QED
    BY <1>4, <2>1, <2>3, StoreType
    DEF AddForeignFinalizer, TypeOK, local, process, budget, history
<1>5. CASE RemoveForeignFinalizer(r)
  <2>1. PICK f \in Foreign :
          Store(r, [obj[r] EXCEPT !.finalizers = @ \ {f}])
    BY <1>5 DEF RemoveForeignFinalizer
  <2>2. obj[r].finalizers \ {f} \in SUBSET (Foreign \cup {Bridge})
    BY <1>5 DEF RemoveForeignFinalizer, TypeOK, Object
  <2>3. [obj[r] EXCEPT !.finalizers = @ \ {f}] \in Object
    BY <1>5, <2>2, ObjectUpdates DEF RemoveForeignFinalizer, TypeOK
  <2>4. QED
    BY <1>5, <2>1, <2>3, StoreType
    DEF RemoveForeignFinalizer, TypeOK, local, process, budget, history
<1>6. QED
  BY <1>1, <1>2, <1>3, <1>4, <1>5 DEF User

\* So do drift, the work queue and the start of a reconcile.
LEMMA TypeOK_Queue ==
  ASSUME TypeOK, NEW r \in Resources,
         CloudDrift(r) \/ DeliverEvent(r) \/ DelayExpires(r) \/ StartReconcile(r)
  PROVE  TypeOK'
<1> USE DEF TypeOK, work, local, process, budget, history
<1>1. CASE CloudDrift(r)
  BY <1>1 DEF CloudDrift
<1>2. CASE DeliverEvent(r)
  BY <1>2 DEF DeliverEvent
<1>3. CASE DelayExpires(r)
  BY <1>3 DEF DelayExpires
<1>4. CASE ReconcileGone(r)
  BY <1>4 DEF ReconcileGone, Dequeue
<1>5. CASE ReconcileGetFails(r)
  BY <1>5 DEF ReconcileGetFails, Dequeue, Fault
<1>6. CASE ReconcileBegins(r)
  BY <1>6 DEF ReconcileBegins, Dequeue, Exists, Steps, Object
<1>7. QED
  BY <1>1, <1>2, <1>3, <1>4, <1>5, <1>6 DEF StartReconcile

\* The object after each patch of the bridge has the type of an object.
LEMMA PatchTypes ==
  ASSUME TypeOK, LocalsSet, NEW r \in Resources, pc[r] # "idle", Exists(r)
  PROVE  /\ [obj[r] EXCEPT !.finalizers = WithFinalizer(r)] \in Object
         /\ [obj[r] EXCEPT !.finalizers = WithoutFinalizer(r)] \in Object
         /\ pc[r] = "save" => WithState(r) \in Object
         /\ pc[r] = "finish" /\ ~deleting[r] => WithStatus(r) \in Object
<1>1. obj[r] \in Object /\ crd[r] \in Object
  BY DEF TypeOK, LocalsSet, Exists
<1>2. WithFinalizer(r) \in SUBSET (Foreign \cup {Bridge})
  BY <1>1 DEF Object, WithFinalizer
<1>3. WithoutFinalizer(r) \in SUBSET (Foreign \cup {Bridge})
  BY <1>1 DEF Object, WithoutFinalizer
<1>4. ASSUME pc[r] = "save"
      PROVE  WithState(r) \in Object
  <2>1. Encoded(newState[r]) \in TfState
    BY <1>4 DEF Encoded, TfState, LocalsSet, TypeOK
  <2>2. QED
    BY <1>1, <2>1, ObjectUpdates DEF WithState
<1>5. ASSUME pc[r] = "finish", ~deleting[r]
      PROVE  WithStatus(r) \in Object
  <2>1. newState[r] \in Specs
    BY <1>5 DEF LocalsSet
  <2>2. crd[r].generation \in Nat
    BY <1>1 DEF Object
  <2>3. (IF crd[r].provider = None THEN version ELSE crd[r].provider)
          \in Versions \cup {None}
    BY <1>1 DEF Object, TypeOK
  <2>4. QED
    BY <1>1, <2>1, <2>2, <2>3, ObjectUpdates DEF WithStatus
<1>6. QED
  BY <1>1, <1>2, <1>3, <1>4, <1>5, ObjectUpdates

\* An apply does what Applied says, or nothing where the state says what the
\* configuration says; a deletion always does what Applied says.
LEMMA ApplyOutcome ==
  ASSUME TypeOK, NEW r \in Resources, PlanAndApply(r)
  PROVE  /\ \/ cloud'[r] = Applied(r)
            \/ /\ cloud'[r] = cloud[r] /\ ~deleting[r]
               /\ Recorded(crd[r]) = crd[r].spec
         /\ cloud' \in [Resources -> Specs \cup {None}]
         /\ newState'[r] = terraformConfig(r)
         /\ newState' \in [Resources -> Specs \cup {None, NullVal}]
         /\ diverged'[r] = (diverged[r] /\ cloud'[r] # terraformConfig(r))
         /\ diverged' \in [Resources -> BOOLEAN]
<1>1. PICK c \in Outcomes(r) :
        /\ cloud' = [cloud EXCEPT ![r] = c]
        /\ diverged' = [diverged EXCEPT ![r] = @ /\ c # terraformConfig(r)]
  BY DEF PlanAndApply
<1>2. terraformConfig(r) \in Specs \cup {NullVal}
  BY SpecAssumption DEF PlanAndApply
<1>3. Applied(r) \in Specs \cup {None}
  BY <1>2 DEF Applied, TypeOK
<1>4. c = Applied(r) \/ (c = cloud[r] /\ Recorded(crd[r]) = terraformConfig(r))
  BY DEF Outcomes
<1>5. deleting[r] /\ Recorded(crd[r]) = terraformConfig(r) => Applied(r) = cloud[r]
  BY SpecAssumption DEF Applied, terraformConfig, HasIdentity
<1>6. cloud'[r] = c
  BY <1>1 DEF TypeOK
<1>7. c \in Specs \cup {None}
  BY <1>3, <1>4 DEF TypeOK
<1>8. /\ newState'[r] = terraformConfig(r)
      /\ newState' \in [Resources -> Specs \cup {None, NullVal}]
  BY <1>2 DEF PlanAndApply, TypeOK
<1>9. \/ c = Applied(r)
      \/ c = cloud[r] /\ ~deleting[r] /\ Recorded(crd[r]) = crd[r].spec
  BY <1>4, <1>5 DEF terraformConfig
<1>10. /\ diverged'[r] = (diverged[r] /\ c # terraformConfig(r))
       /\ diverged' \in [Resources -> BOOLEAN]
  BY <1>1 DEF TypeOK
<1>11. cloud' \in [Resources -> Specs \cup {None}]
  BY <1>1, <1>7 DEF TypeOK
<1>12. QED
  BY <1>6, <1>8, <1>9, <1>10, <1>11

\* The steps of a reconcile keep the types, given its locals are set.
LEMMA TypeOK_Step ==
  ASSUME TypeOK, LocalsSet, NEW r \in Resources, ReconcileStep(r)
  PROVE  TypeOK'
<1> USE DEF local, work, process, budget, history
<1>1. CASE EnsureFinalizer(r)
  <2>1. CASE HasFinalizer(crd[r])
    BY <1>1, <2>1, ReferenceAssumption DEF EnsureFinalizer, TypeOK, Steps
  <2>2. CASE ~HasFinalizer(crd[r])
    <3>1. [obj[r] EXCEPT !.finalizers = WithFinalizer(r)] \in Object
      BY <1>1, <2>2, PatchTypes DEF EnsureFinalizer, FinalizersAccepted
    <3>2. Store(r, [obj[r] EXCEPT !.finalizers = WithFinalizer(r)])
      BY <1>1, <2>2 DEF EnsureFinalizer
    <3>3. /\ obj' \in [Resources -> Object \cup {None}]
          /\ pending' \subseteq Resources
      BY <3>1, <3>2, StoreType
    <3>4. QED
      BY <1>1, <2>2, <3>3, ReferenceAssumption DEF EnsureFinalizer, TypeOK, Steps
  <2>3. QED
    BY <2>1, <2>2
<1>2. CASE EnsureFinalizerFails(r)
  <2>1. FinalizersAccepted(r, WithFinalizer(r)) =>
          [obj[r] EXCEPT !.finalizers = WithFinalizer(r)] \in Object
    BY <1>2, PatchTypes DEF EnsureFinalizerFails, FinalizersAccepted
  <2>2. /\ obj' \in [Resources -> Object \cup {None}]
        /\ pending' \subseteq Resources /\ faults' \in Nat
    BY <1>2, <2>1, PatchFailsType, BooleanAccepted DEF EnsureFinalizerFails
  <2>3. QED
    BY <1>2, <2>2, EndReconcileType DEF EnsureFinalizerFails, ReturnError, TypeOK
<1>3. CASE ResolveReference(r)
  BY <1>3 DEF ResolveReference, TypeOK
<1>4. CASE ReferenceNotReady(r)
  BY <1>4, EndReconcileType DEF ReferenceNotReady, ReturnRequeueAfter, TypeOK
<1>5. CASE MapSpec(r)
  BY <1>5 DEF MapSpec, TypeOK, Steps
<1>6. CASE MapSpecFails(r)
  BY <1>6, EndReconcileType DEF MapSpecFails, ReturnError, Fault, TypeOK
<1>7. CASE PlanAndApply(r)
  BY <1>7, ApplyOutcome DEF PlanAndApply, TypeOK, Steps
<1>8. CASE PlanAndApplyRefused(r)
  BY <1>8, EndReconcileType DEF PlanAndApplyRefused, ReturnError, TypeOK
<1>9. CASE PlanAndApplyFails(r)
  <2>1. terraformConfig(r) \in Specs \cup {NullVal}
    BY <1>9, SpecAssumption DEF PlanAndApplyFails
  <2>2. Applied(r) \in Specs \cup {None}
    BY <2>1 DEF Applied, TypeOK
  <2>3. /\ cloud' \in [Resources -> Specs \cup {None}]
        /\ unrecorded' \in [Resources -> BOOLEAN]
    <3>1. CASE UNCHANGED <<cloud, unrecorded, diverged>>
      BY <3>1 DEF TypeOK
    <3>2. CASE /\ cloud' = [cloud EXCEPT ![r] = Applied(r)]
               /\ unrecorded' = [unrecorded EXCEPT
                    ![r] = @ \/ (terraformConfig(r) # NullVal /\ ~HasIdentity(crd[r]))]
      <4>1. cloud' \in [Resources -> Specs \cup {None}]
        BY <2>2, <3>2 DEF TypeOK
      <4>2. (unrecorded[r] \/ (terraformConfig(r) # NullVal /\ ~HasIdentity(crd[r])))
              \in BOOLEAN
        BY DEF TypeOK
      <4>3. QED
        BY <3>2, <4>1, <4>2 DEF TypeOK
    <3>3. QED
      BY <1>9, <3>1, <3>2 DEF PlanAndApplyFails
  <2>4. (diverged[r] \/ Applied(r) # cloud[r]) \in BOOLEAN
    BY DEF TypeOK
  <2>5. diverged' \in [Resources -> BOOLEAN]
    BY <1>9, <2>4 DEF PlanAndApplyFails, TypeOK
  <2>6. QED
    BY <1>9, <2>3, <2>5, EndReconcileType
    DEF PlanAndApplyFails, ReturnError, Fault, TypeOK
<1>10. CASE Panics(r)
  BY <1>10, RestartType DEF Panics, DecryptPanic, MapSpecPanic, StatusPanic, TypeOK
<1>11. CASE SaveTerraformState(r)
  <2>1. WithState(r) \in Object
    BY <1>11, PatchTypes DEF SaveTerraformState, StateAccepted
  <2>2. QED
    BY <1>11, <2>1, StoreType DEF SaveTerraformState, TypeOK, Steps
<1>12. CASE SaveTerraformStateFails(r)
  <2>1. Exists(r) => WithState(r) \in Object
    BY <1>12, PatchTypes DEF SaveTerraformStateFails
  <2>2. /\ obj' \in [Resources -> Object \cup {None}]
        /\ pending' \subseteq Resources /\ faults' \in Nat
    BY <1>12, <2>1, PatchFailsType, BooleanAccepted DEF SaveTerraformStateFails
  <2>3. unrecorded' \in [Resources -> BOOLEAN] /\ diverged' \in [Resources -> BOOLEAN]
    BY <1>12 DEF SaveTerraformStateFails, TypeOK, Lost, Outdated
  <2>4. QED
    BY <1>12, <2>2, <2>3, EndReconcileType
    DEF SaveTerraformStateFails, ReturnError, TypeOK
<1>13. CASE RemoveFinalizerAndSave(r)
  <2>1. [obj[r] EXCEPT !.finalizers = WithoutFinalizer(r)] \in Object
    BY <1>13, PatchTypes DEF RemoveFinalizerAndSave, FinalizersAccepted
  <2>2. QED
    BY <1>13, <2>1, StoreType, EndReconcileType
    DEF RemoveFinalizerAndSave, ReturnSuccess, TypeOK
<1>14. CASE RemoveFinalizerFails(r)
  <2>1. FinalizersAccepted(r, WithoutFinalizer(r)) =>
          [obj[r] EXCEPT !.finalizers = WithoutFinalizer(r)] \in Object
    BY <1>14, PatchTypes DEF RemoveFinalizerFails, FinalizersAccepted
  <2>2. /\ obj' \in [Resources -> Object \cup {None}]
        /\ pending' \subseteq Resources /\ faults' \in Nat
    BY <1>14, <2>1, PatchFailsType, BooleanAccepted
    DEF RemoveFinalizerFails, TypeOK
  <2>3. QED
    BY <1>14, <2>2, EndReconcileType DEF RemoveFinalizerFails, ReturnError, TypeOK
<1>15. CASE SaveResourceStatus(r)
  <2>1. WithStatus(r) \in Object
    BY <1>15, PatchTypes DEF SaveResourceStatus, StatusAccepted
  <2>2. QED
    BY <1>15, <2>1, StoreType, EndReconcileType
    DEF SaveResourceStatus, ReturnSuccess, TypeOK
<1>16. CASE SaveResourceStatusFails(r)
  <2>1. Exists(r) => WithStatus(r) \in Object
    BY <1>16, PatchTypes DEF SaveResourceStatusFails
  <2>2. /\ obj' \in [Resources -> Object \cup {None}]
        /\ pending' \subseteq Resources /\ faults' \in Nat
    BY <1>16, <2>1, PatchFailsType, BooleanAccepted DEF SaveResourceStatusFails
  <2>3. QED
    BY <1>16, <2>2, EndReconcileType
    DEF SaveResourceStatusFails, ReturnError, TypeOK
<1>17. QED
  BY <1>1, <1>2, <1>3, <1>4, <1>5, <1>6, <1>7, <1>8, <1>9, <1>10, <1>11, <1>12,
     <1>13, <1>14, <1>15, <1>16
  DEF ReconcileStep

-----------------------------------------------------------------------------
(* The inductive invariant, one resource at a time.                        *)

Held(r) ==
  /\ pc[r] # "idle" => crd[r] \in Object
  /\ pc[r] \in {"finalizer", "map"} => ~deleting[r]
  /\ pc[r] \in {"save", "finish"} =>
       newState[r] \in IF deleting[r] THEN {NullVal} ELSE Specs
  /\ HasIdentity(obj[r]) => HasFinalizer(obj[r])
  /\ /\ pc[r] \in Steps \ {"idle"} /\ ~deleting[r]
     /\ pc[r] = "finalizer" => HasFinalizer(crd[r])
     => Exists(r) /\ HasFinalizer(obj[r])
  /\ /\ pc[r] \in {"finalizer", "map", "apply", "save"}
     /\ Exists(r) /\ HasFinalizer(obj[r])
     => obj[r].tfState = crd[r].tfState
  /\ pc[r] \in {"save", "finish"} /\ deleting[r] =>
       cloud[r] = None \/ unrecorded[r]
  /\ pc[r] = "finish" /\ Exists(r) /\ HasFinalizer(obj[r]) =>
       Recorded(obj[r]) = newState[r]
  /\ cloud[r] # None /\ ~unrecorded[r] =>
       /\ Exists(r)
       /\ HasFinalizer(obj[r])
       /\ HasIdentity(obj[r]) \/ (pc[r] = "save" /\ newState[r] \in Specs)

LEMMA HeldAll == IndInv <=> \A r \in Resources : Held(r)
  BY DEF IndInv, Held, LocalsSet, IdentityHeld, Pinned, StateCurrent,
         DestroyedFirst, SavedState, Tracked

LEMMA HeldAllNext == IndInv' <=> \A r \in Resources : Held(r)'
  BY DEF IndInv, Held, LocalsSet, IdentityHeld, Pinned, StateCurrent,
         DestroyedFirst, SavedState, Tracked

\* Steps for one resource leave the others as they are.
Untouched(q) ==
  UNCHANGED <<obj[q], cloud[q], pc[q], crd[q], deleting[q], newState[q],
              unrecorded[q], diverged[q]>>

LEMMA HeldFrame ==
  ASSUME NEW q \in Resources, Held(q), Untouched(q)
  PROVE  Held(q)'
  BY DEF Held, Untouched, Exists, HasIdentity, Recorded, HasFinalizer

\* What users and other controllers can do to an object: create it without a
\* state and without the bridge's finalizer, or leave both alone; it goes away
\* only if the bridge's finalizer is not there.
LEMMA UserEffect ==
  ASSUME TypeOK, NEW r \in Resources, User(r)
  PROVE  /\ \/ /\ ~Exists(r)
               /\ obj'[r] # None
               /\ obj'[r].tfState = None /\ ~HasFinalizer(obj'[r])
            \/ Exists(r) /\ obj'[r] = None /\ ~HasFinalizer(obj[r])
            \/ /\ Exists(r) /\ obj'[r] # None
               /\ obj'[r].tfState = obj[r].tfState
               /\ HasFinalizer(obj'[r]) <=> HasFinalizer(obj[r])
         /\ UNCHANGED <<cloud, local, unrecorded, diverged>>
         /\ \A q \in Resources \ {r} : obj'[q] = obj[q]
<1> USE DEF Exists, HasFinalizer, history
<1>1. CASE UserCreate(r)
  <2>1. PICK s \in Specs : Store(r, NewObject(s))
    BY <1>1 DEF UserCreate
  <2>2. obj'[r] = NewObject(s) /\ NewObject(s) \in Object
    BY <2>1, StoreType DEF NewObject, Object, Persisted
  <2>3. \A q \in Resources \ {r} : obj'[q] = obj[q]
    BY <2>1, <2>2, StoreType
  <2>4. obj'[r] # None
    BY <2>2, ObjectAssumption
  <2>5. obj'[r].tfState = None /\ obj'[r].finalizers = {}
    <3>1. NewObject(s).tfState = None /\ NewObject(s).finalizers = {}
      BY DEF NewObject
    <3>2. QED
      BY <2>2, <3>1
  <2>6. UNCHANGED <<cloud, local, unrecorded, diverged>> /\ obj[r] = None
    BY <1>1 DEF UserCreate
  <2>7. ~HasFinalizer(obj'[r])
    BY <2>5
  <2>8. QED
    BY <2>3, <2>4, <2>5, <2>6, <2>7
<1>2. ASSUME NEW o \in Object, Exists(r), Store(r, o),
             o.tfState = obj[r].tfState,
             HasFinalizer(o) <=> HasFinalizer(obj[r])
      PROVE  /\ \/ obj'[r] = None /\ ~HasFinalizer(obj[r])
                \/ /\ obj'[r] # None
                   /\ obj'[r].tfState = obj[r].tfState
                   /\ HasFinalizer(obj'[r]) <=> HasFinalizer(obj[r])
             /\ \A q \in Resources \ {r} : obj'[q] = obj[q]
  BY <1>2, StoreType, ObjectAssumption DEF Persisted
<1>3. obj[r] # None => obj[r] \in Object
  BY DEF TypeOK
<1>4. CASE UserUpdate(r)
  <2>1. PICK s \in Specs :
          Store(r, [obj[r] EXCEPT !.spec = s, !.generation = @ + 1])
    BY <1>4 DEF UserUpdate
  <2> DEFINE o == [obj[r] EXCEPT !.spec = s, !.generation = @ + 1]
  <2>2. o \in Object /\ o.tfState = obj[r].tfState
          /\ o.finalizers = obj[r].finalizers
    BY <1>3, <1>4, ObjectUpdates DEF UserUpdate, Object
  <2>3. QED
    BY <1>2, <1>4, <2>1, <2>2 DEF UserUpdate
<1>5. CASE UserDelete(r)
  <2> DEFINE o == [obj[r] EXCEPT !.deleting = TRUE, !.generation = @ + 1]
  <2>1. o \in Object /\ o.tfState = obj[r].tfState
          /\ o.finalizers = obj[r].finalizers
    BY <1>3, <1>5, ObjectUpdates DEF UserDelete, Object
  <2>2. QED
    BY <1>2, <1>5, <2>1 DEF UserDelete
<1>6. CASE AddForeignFinalizer(r)
  <2>1. PICK f \in Foreign :
          Store(r, [obj[r] EXCEPT !.finalizers = @ \cup {f}])
    BY <1>6 DEF AddForeignFinalizer
  <2> DEFINE fs == obj[r].finalizers \cup {f}
             o  == [obj[r] EXCEPT !.finalizers = @ \cup {f}]
  <2>2. fs \in SUBSET (Foreign \cup {Bridge})
    BY <1>3, <1>6 DEF AddForeignFinalizer, Object
  <2>3. o \in Object /\ o.tfState = obj[r].tfState /\ o.finalizers = fs
    BY <1>3, <1>6, <2>2, ObjectUpdates DEF AddForeignFinalizer, Object
  <2>4. Bridge # f
    BY ObjectAssumption
  <2>5. QED
    BY <1>2, <1>6, <2>1, <2>3, <2>4 DEF AddForeignFinalizer
<1>7. CASE RemoveForeignFinalizer(r)
  <2>1. PICK f \in Foreign :
          Store(r, [obj[r] EXCEPT !.finalizers = @ \ {f}])
    BY <1>7 DEF RemoveForeignFinalizer
  <2> DEFINE fs == obj[r].finalizers \ {f}
             o  == [obj[r] EXCEPT !.finalizers = @ \ {f}]
  <2>2. fs \in SUBSET (Foreign \cup {Bridge})
    BY <1>3, <1>7 DEF RemoveForeignFinalizer, Object
  <2>3. o \in Object /\ o.tfState = obj[r].tfState /\ o.finalizers = fs
    BY <1>3, <1>7, <2>2, ObjectUpdates DEF RemoveForeignFinalizer, Object
  <2>4. Bridge # f
    BY ObjectAssumption
  <2>5. QED
    BY <1>2, <1>7, <2>1, <2>3, <2>4 DEF RemoveForeignFinalizer
<1>8. QED
  BY <1>1, <1>4, <1>5, <1>6, <1>7 DEF User

LEMMA Held_User ==
  ASSUME TypeOK, IndInv, NEW r \in Resources, User(r)
  PROVE  IndInv'
<1>1. \A q \in Resources \ {r} : Held(q)'
  BY UserEffect, HeldAll, HeldFrame DEF Untouched, local
<1>2. Held(r)
  BY HeldAll
<1>3. Held(r)'
  <2> USE DEF Held, local, Exists, HasIdentity, Recorded
  <2>1. UNCHANGED <<cloud, local, unrecorded>>
    BY UserEffect
  <2>2. CASE /\ obj[r] = None /\ obj'[r] # None
             /\ obj'[r].tfState = None /\ ~HasFinalizer(obj'[r])
    BY <1>2, <2>1, <2>2, SpecAssumption
  <2>3. CASE obj[r] # None /\ obj'[r] = None /\ ~HasFinalizer(obj[r])
    BY <1>2, <2>1, <2>3, SpecAssumption
  <2>4. CASE /\ obj[r] # None /\ obj'[r] # None
             /\ obj'[r].tfState = obj[r].tfState
             /\ HasFinalizer(obj'[r]) <=> HasFinalizer(obj[r])
    BY <1>2, <2>1, <2>4
  <2>5. QED
    BY <2>2, <2>3, <2>4, UserEffect
<1>4. \A q \in Resources : Held(q)'
  BY <1>1, <1>3
<1>5. QED
  BY <1>4, HeldAllNext

LEMMA Held_Queue ==
  ASSUME TypeOK, IndInv, NEW r \in Resources,
         CloudDrift(r) \/ DeliverEvent(r) \/ DelayExpires(r) \/ StartReconcile(r)
  PROVE  IndInv'
<1> USE DEF local
<1>1. Held(r)
  BY HeldAll
<1>2. CASE CloudDrift(r)
  <2>1. \A q \in Resources \ {r} : Held(q)'
    BY <1>2, HeldAll, HeldFrame DEF CloudDrift, Untouched, TypeOK
  <2>2. Held(r)'
    <3>1. /\ cloud[r] # None
          /\ unrecorded'[r] = (unrecorded[r] /\ cloud'[r] # None)
          /\ UNCHANGED <<obj, local>>
      BY <1>2 DEF CloudDrift, TypeOK
    <3>2. QED
      BY <1>1, <3>1 DEF Held, Exists, HasIdentity, Recorded, HasFinalizer
  <2>3. QED
    BY <2>1, <2>2, HeldAllNext
<1>3. CASE DeliverEvent(r) \/ DelayExpires(r) \/ ReconcileGone(r)
             \/ ReconcileGetFails(r)
  <2>1. \A q \in Resources : Untouched(q)
    BY <1>3
    DEF DeliverEvent, DelayExpires, ReconcileGone, ReconcileGetFails, Untouched,
        history
  <2>2. QED
    BY <2>1, HeldAll, HeldAllNext, HeldFrame
<1>4. CASE ReconcileBegins(r)
  <2>1. \A q \in Resources \ {r} : Held(q)'
    BY <1>4, HeldAll, HeldFrame DEF ReconcileBegins, Untouched, TypeOK, history
  <2>2. /\ crd'[r] = obj[r] /\ obj[r] \in Object
        /\ pc[r] = "idle"
        /\ pc'[r] = IF obj[r].deleting THEN "apply" ELSE "finalizer"
        /\ deleting'[r] = obj[r].deleting
        /\ UNCHANGED <<obj, cloud, unrecorded>>
    BY <1>4 DEF ReconcileBegins, Dequeue, TypeOK, Exists, history
  <2>3. Held(r)'
    <3>1. HasFinalizer(obj'[r]) <=> HasFinalizer(obj[r])
      BY <2>2
    <3>2. Exists(r)' /\ (HasIdentity(obj'[r]) <=> HasIdentity(obj[r]))
      BY <1>4, <2>2 DEF ReconcileBegins, Exists
    <3>3. pc'[r] \in {"apply", "finalizer"}
            /\ (pc'[r] = "apply" <=> obj[r].deleting)
      BY <2>2
    <3>4. obj'[r].tfState = crd'[r].tfState /\ crd'[r] \in Object
            /\ (HasFinalizer(crd'[r]) <=> HasFinalizer(obj'[r]))
      BY <2>2
    <3>5. QED
      BY <1>1, <2>2, <3>1, <3>2, <3>3, <3>4 DEF Held
  <2>4. QED
    BY <2>1, <2>3, HeldAllNext
<1>5. QED
  BY <1>2, <1>3, <1>4 DEF StartReconcile

\* A restart loses every local; what was created and not yet saved is lost.
LEMMA Held_Restart ==
  ASSUME TypeOK, IndInv, NEW k, NEW v, Restart(k, v)
  PROVE  IndInv'
<1>1. ASSUME NEW r \in Resources
      PROVE  Held(r)'
  <2>1. Held(r)
    BY HeldAll
  <2>2. /\ pc'[r] = "idle"
        /\ UNCHANGED <<obj, cloud>>
        /\ unrecorded'[r] = (unrecorded[r] \/ (pc[r] = "save" /\ Lost(r, obj[r])))
    BY DEF Restart
  <2>3. QED
    BY <2>1, <2>2
    DEF Held, Lost, Exists, HasIdentity, Recorded, HasFinalizer
<1>2. QED
  BY <1>1, HeldAllNext

\* Each patch of the bridge writes its own fields and keeps the others.
LEMMA PatchFields ==
  ASSUME TypeOK, LocalsSet, NEW r \in Resources, pc[r] # "idle", Exists(r)
  PROVE  /\ \A fs : /\ [obj[r] EXCEPT !.finalizers = fs].tfState = obj[r].tfState
                   /\ [obj[r] EXCEPT !.finalizers = fs].finalizers = fs
         /\ WithState(r).finalizers = obj[r].finalizers
         /\ WithStatus(r).finalizers = obj[r].finalizers
         /\ WithStatus(r).tfState = obj[r].tfState
<1>1. obj[r] \in Object
  BY DEF TypeOK, Exists
<1>2. \A fs : /\ [obj[r] EXCEPT !.finalizers = fs].tfState = obj[r].tfState
             /\ [obj[r] EXCEPT !.finalizers = fs].finalizers = fs
  BY <1>1 DEF Object
<1>3. WithState(r).finalizers = obj[r].finalizers
  BY <1>1 DEF Object, WithState
<1>4. /\ WithStatus(r).finalizers = obj[r].finalizers
      /\ WithStatus(r).tfState = obj[r].tfState
  BY <1>1 DEF Object, WithStatus
<1>5. QED
  BY <1>2, <1>3, <1>4

\* After the state has been saved, an object that holds the finalizer records
\* what the provider returned.
LEMMA StateWritten ==
  ASSUME TypeOK, IndInv, NEW r \in Resources, pc[r] = "save", Exists(r)
  PROVE  /\ HasFinalizer(obj[r]) => Recorded(WithState(r)) = newState[r]
         /\ newState[r] = NullVal /\ ~HasFinalizer(obj[r]) =>
              ~HasIdentity(WithState(r))
<1>1. obj[r] \in Object /\ Held(r) /\ LocalsSet
  BY HeldAll DEF TypeOK, Exists, IndInv
<1>2. Encoded(newState[r]) \in TfState /\ WithState(r) \in Object
  BY <1>1, PatchTypes DEF Encoded, TfState, TypeOK, Held
<1>3. CASE key = NoKey /\ crd[r].tfState = Encoded(newState[r])
  <2>1. WithState(r) = obj[r]
    BY <1>3 DEF WithState
  <2>2. HasFinalizer(obj[r]) => obj[r].tfState = Encoded(newState[r])
    BY <1>1, <1>3 DEF Held
  <2>3. Encoded(newState[r]) # None /\ Encoded(newState[r]).plain = newState[r]
    BY <1>2, ObjectAssumption DEF Encoded
  <2>4. ~HasFinalizer(obj[r]) => ~HasIdentity(obj[r])
    BY <1>1 DEF Held
  <2>5. QED
    BY <1>1, <2>1, <2>2, <2>3, <2>4, ObjectAssumption DEF Recorded
<1>4. CASE ~(key = NoKey /\ crd[r].tfState = Encoded(newState[r]))
  <2>1. WithState(r).tfState = Encoded(newState[r])
    BY <1>1, <1>4 DEF WithState, Object
  <2>2. Encoded(newState[r]) # None /\ Encoded(newState[r]).plain = newState[r]
    BY <1>2, ObjectAssumption DEF Encoded
  <2>3. Recorded(WithState(r)) = newState[r]
    BY <1>2, <2>1, <2>2, ObjectAssumption DEF Recorded
  <2>4. QED
    BY <2>3, SpecAssumption DEF HasIdentity
<1>5. QED
  BY <1>3, <1>4

\* The object of r stays as it is or, if the patch was acceptable, becomes o;
\* no other object changes.
Patched(r, accepted, o) ==
  /\ obj'[r] = obj[r] \/ (accepted /\ obj'[r] = Persisted(o))
  /\ \A q \in Resources \ {r} : obj'[q] = obj[q]

LEMMA FailedFinalizerPatch ==
  ASSUME TypeOK, LocalsSet, NEW r \in Resources, pc[r] # "idle",
         NEW fs \in {WithFinalizer(r), WithoutFinalizer(r)},
         PatchFails(r, FinalizersAccepted(r, fs),
                    [obj[r] EXCEPT !.finalizers = fs])
  PROVE  Patched(r, FinalizersAccepted(r, fs), [obj[r] EXCEPT !.finalizers = fs])
<1>1. FinalizersAccepted(r, fs) => [obj[r] EXCEPT !.finalizers = fs] \in Object
  BY PatchTypes DEF FinalizersAccepted
<1>2. FinalizersAccepted(r, fs) \in BOOLEAN
  BY BooleanAccepted
<1>3. QED
  BY <1>1, <1>2, PatchFailsType DEF Patched

LEMMA FailedStatePatch ==
  ASSUME TypeOK, LocalsSet, NEW r \in Resources, pc[r] = "save",
         PatchFails(r, StateAccepted(r), WithState(r))
  PROVE  Patched(r, Exists(r), WithState(r))
  BY PatchTypes, PatchFailsType, BooleanAccepted DEF Patched

LEMMA FailedStatusPatch ==
  ASSUME TypeOK, LocalsSet, NEW r \in Resources, pc[r] = "finish", ~deleting[r],
         PatchFails(r, StatusAccepted(r), WithStatus(r))
  PROVE  Patched(r, Exists(r), WithStatus(r))
  BY PatchTypes, PatchFailsType, BooleanAccepted DEF Patched

\* An object with a finalizer is stored as it is; one without may be removed.
LEMMA StoredObject ==
  ASSUME NEW o \in Object
  PROVE  /\ Persisted(o) = o \/ (Persisted(o) = None /\ ~HasFinalizer(o))
         /\ o # None
  BY ObjectAssumption DEF Persisted, HasFinalizer

\* A step of a reconcile touches no other resource, unless it is a panic.
LEMMA StepUntouched ==
  ASSUME TypeOK, LocalsSet, NEW r \in Resources, ReconcileStep(r),
         ~Panics(r)
  PROVE  \A q \in Resources \ {r} : Untouched(q)
<1> USE DEF Untouched, TypeOK, local, work, history
<1>1. CASE EnsureFinalizer(r)
  <2>1. CASE HasFinalizer(crd[r])
    BY <1>1, <2>1 DEF EnsureFinalizer
  <2>2. CASE ~HasFinalizer(crd[r])
    BY <1>1, <2>2, PatchTypes, StoreType
    DEF EnsureFinalizer, FinalizersAccepted
  <2>3. QED
    BY <2>1, <2>2
<1>2. CASE EnsureFinalizerFails(r)
  BY <1>2, FailedFinalizerPatch, EndReconcileType
  DEF EnsureFinalizerFails, ReturnError, Patched
<1>3. CASE ResolveReference(r) \/ MapSpec(r) \/ PlanAndApply(r)
  BY <1>3 DEF ResolveReference, MapSpec, PlanAndApply
<1>4. CASE ReferenceNotReady(r) \/ MapSpecFails(r)
  BY <1>4, EndReconcileType
  DEF ReferenceNotReady, MapSpecFails, ReturnError, ReturnRequeueAfter
<1>5. CASE PlanAndApplyRefused(r) \/ PlanAndApplyFails(r)
  BY <1>5, EndReconcileType
  DEF PlanAndApplyRefused, PlanAndApplyFails, ReturnError
<1>6. CASE SaveTerraformState(r)
  BY <1>6, PatchTypes, StoreType DEF SaveTerraformState, StateAccepted
<1>7. CASE SaveTerraformStateFails(r)
  BY <1>7, FailedStatePatch, EndReconcileType
  DEF SaveTerraformStateFails, ReturnError, Patched
<1>8. CASE RemoveFinalizerAndSave(r)
  BY <1>8, PatchTypes, StoreType, EndReconcileType
  DEF RemoveFinalizerAndSave, FinalizersAccepted, ReturnSuccess
<1>9. CASE RemoveFinalizerFails(r)
  BY <1>9, FailedFinalizerPatch, EndReconcileType
  DEF RemoveFinalizerFails, ReturnError, Patched
<1>10. CASE SaveResourceStatus(r)
  BY <1>10, PatchTypes, StoreType, EndReconcileType
  DEF SaveResourceStatus, StatusAccepted, ReturnSuccess
<1>11. CASE SaveResourceStatusFails(r)
  BY <1>11, FailedStatusPatch, EndReconcileType
  DEF SaveResourceStatusFails, ReturnError, Patched
<1>12. QED
  BY <1>1, <1>2, <1>3, <1>4, <1>5, <1>6, <1>7, <1>8, <1>9, <1>10, <1>11
  DEF ReconcileStep

\* What has to hold of the object when a reconcile ends.
LEMMA HeldAtEnd ==
  ASSUME NEW r \in Resources, pc'[r] = "idle",
         HasIdentity(obj'[r]) => HasFinalizer(obj'[r]),
         cloud'[r] # None /\ ~unrecorded'[r] =>
           obj'[r] # None /\ HasFinalizer(obj'[r]) /\ HasIdentity(obj'[r])
  PROVE  Held(r)'
  BY DEF Held, Exists

\* The steps up to the mapping of the spec.
LEMMA Held_Map ==
  ASSUME TypeOK, IndInv, NEW r \in Resources,
         \/ EnsureFinalizer(r) \/ EnsureFinalizerFails(r) \/ ResolveReference(r)
         \/ ReferenceNotReady(r) \/ MapSpec(r) \/ MapSpecFails(r)
  PROVE  Held(r)'
<1>1. Held(r) /\ LocalsSet
  BY HeldAll DEF IndInv
<1>2. CASE EnsureFinalizer(r)
  <2>1. /\ pc[r] = "finalizer" /\ ~deleting[r]
        /\ pc'[r] = "map"
        /\ UNCHANGED <<cloud, deleting, newState, unrecorded>>
    BY <1>1, <1>2 DEF EnsureFinalizer, Held, TypeOK, history
  <2>2. CASE HasFinalizer(crd[r])
    <3>1. UNCHANGED <<obj, crd>>
      BY <1>2, <2>2 DEF EnsureFinalizer
    <3>2. QED
      BY <1>1, <2>1, <2>2, <3>1 DEF Held, Exists, Steps
  <2>3. CASE ~HasFinalizer(crd[r])
    <3> DEFINE o == [obj[r] EXCEPT !.finalizers = WithFinalizer(r)]
    <3>1. Exists(r) /\ Store(r, o) /\ crd' = [crd EXCEPT ![r] = obj'[r]]
      BY <1>2, <2>3 DEF EnsureFinalizer, FinalizersAccepted
    <3>2. /\ o \in Object
          /\ o.tfState = obj[r].tfState /\ o.finalizers = WithFinalizer(r)
      BY <1>1, <2>1, <3>1, PatchTypes, PatchFields
    <3>3. HasFinalizer(o)
      BY <3>2 DEF WithFinalizer, HasFinalizer
    <3>4. obj'[r] = o /\ o # None
      BY <3>1, <3>2, <3>3, StoreType, StoredObject
    <3>5. crd'[r] = o
      BY <3>1, <3>4 DEF TypeOK
    <3>6. HasIdentity(o) <=> HasIdentity(obj[r])
      BY <3>1, <3>2, <3>4 DEF HasIdentity, Recorded, Exists
    <3>7. QED
      BY <1>1, <2>1, <3>2, <3>3, <3>4, <3>5, <3>6 DEF Held, Exists
  <2>4. QED
    BY <2>2, <2>3
<1>3. CASE EnsureFinalizerFails(r)
  <2>1. /\ pc[r] = "finalizer" /\ pc'[r] = "idle"
        /\ UNCHANGED <<cloud, unrecorded>>
    BY <1>3, EndReconcileType DEF EnsureFinalizerFails, ReturnError, history
  <2> DEFINE o == [obj[r] EXCEPT !.finalizers = WithFinalizer(r)]
  <2>2. Patched(r, FinalizersAccepted(r, WithFinalizer(r)), o)
    BY <1>1, <1>3, <2>1, FailedFinalizerPatch DEF EnsureFinalizerFails
  <2>3. CASE obj'[r] = obj[r]
    BY <1>1, <2>1, <2>3, HeldAtEnd DEF Held, Exists
  <2>4. CASE Exists(r) /\ obj'[r] = Persisted(o)
    <3>1. /\ o \in Object
          /\ o.tfState = obj[r].tfState /\ o.finalizers = WithFinalizer(r)
      BY <1>1, <2>1, <2>4, PatchTypes, PatchFields
    <3>2. HasFinalizer(o)
      BY <3>1 DEF WithFinalizer, HasFinalizer
    <3>3. obj'[r] = o /\ o # None
      BY <2>4, <3>1, <3>2, StoredObject
    <3>4. HasIdentity(o) <=> HasIdentity(obj[r])
      BY <2>4, <3>1, <3>3 DEF HasIdentity, Recorded, Exists
    <3>5. QED
      BY <1>1, <2>1, <3>2, <3>3, <3>4, HeldAtEnd DEF Held
  <2>5. QED
    BY <2>2, <2>3, <2>4 DEF Patched, FinalizersAccepted
<1>4. CASE ResolveReference(r)
  BY <1>1, <1>4
  DEF ResolveReference, Held, Exists, history
<1>5. CASE MapSpec(r)
  <2>1. /\ pc[r] = "map" /\ pc'[r] = "apply"
        /\ UNCHANGED <<obj, cloud, crd, deleting, newState, unrecorded>>
    BY <1>5 DEF MapSpec, TypeOK, history
  <2>2. QED
    BY <1>1, <2>1 DEF Held, Exists, Steps
<1>6. CASE ReferenceNotReady(r) \/ MapSpecFails(r)
  <2>1. pc[r] = "map" /\ pc'[r] = "idle" /\ UNCHANGED <<obj, cloud, unrecorded>>
    BY <1>6, EndReconcileType
    DEF ReferenceNotReady, MapSpecFails, ReturnError, ReturnRequeueAfter, history
  <2>2. QED
    BY <1>1, <2>1, HeldAtEnd DEF Held, Exists
<1>7. QED
  BY <1>2, <1>3, <1>4, <1>5, <1>6

\* Planning and applying.
LEMMA Held_Apply ==
  ASSUME TypeOK, IndInv, NEW r \in Resources,
         PlanAndApply(r) \/ PlanAndApplyRefused(r) \/ PlanAndApplyFails(r)
  PROVE  Held(r)'
<1>1. Held(r) /\ LocalsSet /\ pc[r] = "apply" /\ crd[r] \in Object
  BY HeldAll
  DEF IndInv, LocalsSet, PlanAndApply, PlanAndApplyRefused, PlanAndApplyFails
<1>2. terraformConfig(r) = IF deleting[r] THEN NullVal ELSE crd[r].spec
  BY DEF terraformConfig
<1>3. crd[r].spec \in Specs /\ crd[r] # None
  BY <1>1, ObjectAssumption DEF Object
<1>4. HasFinalizer(obj[r]) /\ Exists(r) =>
        (HasIdentity(crd[r]) <=> HasIdentity(obj[r]))
  BY <1>1, <1>3 DEF Held, Exists, HasIdentity, Recorded
\* Afterwards the cloud holds nothing the object does not know, or something
\* that was created just now.
<1>5. ASSUME deleting[r] => cloud'[r] = Applied(r)
      PROVE  /\ deleting[r] => cloud'[r] = None \/ unrecorded[r]
             /\ cloud'[r] # None /\ ~unrecorded[r] =>
                  /\ Exists(r) /\ HasFinalizer(obj[r])
                  /\ ~deleting[r] \/ HasIdentity(obj[r])
  <2>1. CASE deleting[r]
    <3>1. Applied(r) = IF HasIdentity(crd[r]) THEN None ELSE cloud[r]
      BY <1>2, <2>1 DEF Applied
    <3>2. cloud[r] # None /\ ~unrecorded[r] => HasIdentity(crd[r])
      BY <1>1, <1>4 DEF Held
    <3>3. QED
      BY <1>5, <2>1, <3>1, <3>2
  <2>2. CASE ~deleting[r]
    BY <1>1, <2>2 DEF Held, Steps
  <2>3. QED
    BY <2>1, <2>2
<1>6. CASE PlanAndApply(r)
  <2>1. /\ deleting[r] => cloud'[r] = Applied(r)
        /\ newState'[r] = terraformConfig(r)
    BY <1>6, ApplyOutcome
  <2>0. pc'[r] = "save" /\ UNCHANGED <<obj, crd, deleting, unrecorded>>
    BY <1>6 DEF PlanAndApply, TypeOK
  <2>2. QED
    BY <1>1, <1>2, <1>3, <1>5, <2>0, <2>1 DEF Held, Exists, Steps
<1>7. CASE PlanAndApplyRefused(r)
  <2>1. pc'[r] = "idle" /\ UNCHANGED <<obj, cloud, unrecorded>>
    BY <1>7, EndReconcileType DEF PlanAndApplyRefused, ReturnError, history
  <2>2. QED
    BY <1>1, <2>1, HeldAtEnd DEF Held, Exists
<1>8. CASE PlanAndApplyFails(r)
  <2>1. pc'[r] = "idle" /\ UNCHANGED obj
    BY <1>8, EndReconcileType DEF PlanAndApplyFails, ReturnError
  <2>2. CASE UNCHANGED <<cloud, unrecorded>>
    BY <1>1, <2>1, <2>2, HeldAtEnd DEF Held, Exists
  <2>3. CASE ~UNCHANGED <<cloud, unrecorded>>
    <3>1. /\ cloud'[r] = Applied(r)
          /\ unrecorded'[r] = (\/ unrecorded[r]
                               \/ terraformConfig(r) # NullVal /\ ~HasIdentity(crd[r]))
      BY <1>8, <2>3 DEF PlanAndApplyFails, TypeOK
    <3>2. ~deleting[r] => terraformConfig(r) # NullVal
      BY <1>2, <1>3, SpecAssumption
    <3>3. cloud'[r] # None /\ ~unrecorded'[r] =>
            Exists(r) /\ HasFinalizer(obj[r]) /\ HasIdentity(obj[r])
      BY <1>4, <1>5, <3>1, <3>2
    <3>4. QED
      BY <1>1, <2>1, <3>3, HeldAtEnd DEF Held, Exists
  <2>4. QED
    BY <2>2, <2>3
<1>9. QED
  BY <1>6, <1>7, <1>8

\* Saving the state.
LEMMA Held_Save ==
  ASSUME TypeOK, IndInv, NEW r \in Resources,
         SaveTerraformState(r) \/ SaveTerraformStateFails(r)
  PROVE  Held(r)'
<1>1. Held(r) /\ LocalsSet /\ pc[r] = "save"
  BY HeldAll DEF IndInv, SaveTerraformState, SaveTerraformStateFails
<1>2. newState[r] \in IF deleting[r] THEN {NullVal} ELSE Specs
  BY <1>1 DEF Held
\* The object once it has been written.
<1>3. ASSUME Exists(r), obj'[r] = Persisted(WithState(r))
      PROVE  /\ obj'[r] = WithState(r) \/ (obj'[r] = None /\ ~HasFinalizer(obj[r]))
             /\ HasFinalizer(WithState(r)) <=> HasFinalizer(obj[r])
             /\ HasFinalizer(obj[r]) => Recorded(WithState(r)) = newState[r]
             /\ HasIdentity(WithState(r)) => HasFinalizer(WithState(r))
             /\ WithState(r) \in Object /\ WithState(r) # None
  <2>1. WithState(r) \in Object
    BY <1>1, <1>3, PatchTypes
  <2>2. WithState(r).finalizers = obj[r].finalizers
    BY <1>1, <1>3, PatchFields
  <2>3. HasFinalizer(WithState(r)) <=> HasFinalizer(obj[r])
    BY <2>2 DEF HasFinalizer
  <2>4. ~HasFinalizer(obj[r]) => ~HasIdentity(WithState(r))
    <3>1. ~HasFinalizer(obj[r]) => deleting[r]
      BY <1>1 DEF Held, Steps
    <3>2. QED
      BY <1>1, <1>2, <1>3, <3>1, StateWritten
  <2>5. QED
    BY <1>1, <1>3, <2>1, <2>3, <2>4, StateWritten, StoredObject
<1>4. ~deleting[r] => Exists(r) /\ HasFinalizer(obj[r])
  BY <1>1 DEF Held, Steps
<1>5. deleting[r] => cloud[r] = None \/ unrecorded[r]
  BY <1>1 DEF Held
<1>6. CASE SaveTerraformState(r)
  <2>1. /\ Exists(r) /\ Store(r, WithState(r)) /\ WithState(r) \in Object
        /\ crd'[r] = WithState(r) /\ pc'[r] = "finish"
        /\ UNCHANGED <<cloud, deleting, newState, unrecorded>>
    BY <1>1, <1>6, PatchTypes
    DEF SaveTerraformState, StateAccepted, TypeOK, history
  <2>2. obj'[r] = Persisted(WithState(r))
    BY <2>1, StoreType
  <2>3. HasIdentity(None) = FALSE
    BY SpecAssumption DEF HasIdentity, Recorded
  <2>4. /\ HasIdentity(obj'[r]) => HasFinalizer(obj'[r])
        /\ ~deleting[r] => obj'[r] # None /\ HasFinalizer(obj'[r])
        /\ obj'[r] # None /\ HasFinalizer(obj'[r]) =>
             Recorded(obj'[r]) = newState[r]
    BY <1>3, <1>4, <2>1, <2>2, <2>3
  <2>5. cloud[r] # None /\ ~unrecorded[r] =>
          obj'[r] # None /\ HasFinalizer(obj'[r]) /\ HasIdentity(obj'[r])
    BY <1>2, <1>4, <1>5, <2>4 DEF HasIdentity
  <2>6. QED
    BY <1>2, <1>3, <1>5, <2>1, <2>2, <2>4, <2>5 DEF Held, Exists
<1>7. CASE SaveTerraformStateFails(r)
  <2>1. /\ pc'[r] = "idle"
        /\ unrecorded'[r] = (unrecorded[r] \/ Lost(r, obj'[r]))
        /\ UNCHANGED cloud
    BY <1>7, EndReconcileType DEF SaveTerraformStateFails, ReturnError, TypeOK
  <2>2. Patched(r, Exists(r), WithState(r))
    BY <1>1, <1>7, FailedStatePatch DEF SaveTerraformStateFails
  <2>3. HasIdentity(None) = FALSE
    BY SpecAssumption DEF HasIdentity, Recorded
  <2>4. /\ HasIdentity(obj'[r]) => HasFinalizer(obj'[r])
        /\ ~deleting[r] => obj'[r] # None /\ HasFinalizer(obj'[r])
    <3>1. CASE obj'[r] = obj[r]
      BY <1>1, <1>4, <3>1 DEF Held, Exists
    <3>2. CASE Exists(r) /\ obj'[r] = Persisted(WithState(r))
      BY <1>3, <1>4, <2>3, <3>2
    <3>3. QED
      BY <2>2, <3>1, <3>2 DEF Patched
  <2>5. cloud'[r] # None /\ ~unrecorded'[r] => ~deleting[r] /\ HasIdentity(obj'[r])
    BY <1>2, <1>5, <2>1 DEF Lost
  <2>6. QED
    BY <2>1, <2>4, <2>5, HeldAtEnd
<1>8. QED
  BY <1>6, <1>7

\* The end of a reconcile.
LEMMA Held_Finish ==
  ASSUME TypeOK, IndInv, NEW r \in Resources,
         \/ RemoveFinalizerAndSave(r) \/ RemoveFinalizerFails(r)
         \/ SaveResourceStatus(r) \/ SaveResourceStatusFails(r)
  PROVE  Held(r)'
<1>1. Held(r) /\ LocalsSet /\ pc[r] = "finish"
  BY HeldAll
  DEF IndInv, RemoveFinalizerAndSave, RemoveFinalizerFails, SaveResourceStatus,
      SaveResourceStatusFails
<1>2. /\ pc'[r] = "idle"
      /\ UNCHANGED <<cloud, unrecorded>>
  BY EndReconcileType
  DEF RemoveFinalizerAndSave, RemoveFinalizerFails, SaveResourceStatus,
      SaveResourceStatusFails, ReturnSuccess, ReturnError, history
<1>3. HasIdentity(None) = FALSE
  BY SpecAssumption DEF HasIdentity, Recorded
<1>4. CASE obj'[r] = obj[r]
  BY <1>1, <1>2, <1>4, HeldAtEnd DEF Held, Exists
<1>5. ASSUME deleting[r], Exists(r),
             obj'[r] = Persisted([obj[r] EXCEPT !.finalizers = WithoutFinalizer(r)])
      PROVE  Held(r)'
  <2> DEFINE o == [obj[r] EXCEPT !.finalizers = WithoutFinalizer(r)]
  <2>1. o \in Object /\ o.tfState = obj[r].tfState
    BY <1>1, <1>5, PatchTypes, PatchFields
  <2>2. obj'[r] = None \/ obj'[r].tfState = obj[r].tfState
    BY <1>5, <2>1, StoredObject
  <2>3. ~HasIdentity(obj[r])
    BY <1>1, <1>5, SpecAssumption DEF Held, HasIdentity
  <2>4. ~HasIdentity(obj'[r])
    BY <1>3, <1>5, <2>2, <2>3 DEF HasIdentity, Recorded, Exists
  <2>5. cloud[r] = None \/ unrecorded[r]
    BY <1>1, <1>5 DEF Held
  <2>6. QED
    BY <1>2, <2>4, <2>5, HeldAtEnd
<1>6. ASSUME ~deleting[r], Exists(r), obj'[r] = Persisted(WithStatus(r))
      PROVE  Held(r)'
  <2>1. /\ WithStatus(r) \in Object
        /\ WithStatus(r).finalizers = obj[r].finalizers
        /\ WithStatus(r).tfState = obj[r].tfState
    BY <1>1, <1>6, PatchTypes, PatchFields
  <2>2. HasFinalizer(obj[r]) /\ (HasFinalizer(WithStatus(r)) <=> HasFinalizer(obj[r]))
    BY <1>1, <1>6, <2>1 DEF Held, HasFinalizer, Steps
  <2>3. obj'[r] = WithStatus(r) /\ WithStatus(r) # None
    BY <1>6, <2>1, <2>2, StoredObject
  <2>4. HasIdentity(obj'[r]) <=> HasIdentity(obj[r])
    BY <1>6, <2>1, <2>3 DEF HasIdentity, Recorded, Exists
  <2>5. QED
    BY <1>1, <1>2, <2>2, <2>3, <2>4, HeldAtEnd DEF Held
<1>7. CASE RemoveFinalizerAndSave(r)
  <2>1. /\ deleting[r] /\ Exists(r)
        /\ [obj[r] EXCEPT !.finalizers = WithoutFinalizer(r)] \in Object
    BY <1>1, <1>7, PatchTypes DEF RemoveFinalizerAndSave, FinalizersAccepted
  <2>2. obj'[r] = Persisted([obj[r] EXCEPT !.finalizers = WithoutFinalizer(r)])
    BY <1>7, <2>1, StoreType DEF RemoveFinalizerAndSave
  <2>3. QED
    BY <1>5, <2>1, <2>2
<1>8. CASE RemoveFinalizerFails(r)
  BY <1>1, <1>4, <1>5, <1>8, FailedFinalizerPatch
  DEF RemoveFinalizerFails, Patched, FinalizersAccepted
<1>9. CASE SaveResourceStatus(r)
  <2>1. ~deleting[r] /\ Exists(r) /\ WithStatus(r) \in Object
    BY <1>1, <1>9, PatchTypes DEF SaveResourceStatus, StatusAccepted
  <2>2. obj'[r] = Persisted(WithStatus(r))
    BY <1>9, <2>1, StoreType DEF SaveResourceStatus
  <2>3. QED
    BY <1>6, <2>1, <2>2
<1>10. CASE SaveResourceStatusFails(r)
  BY <1>1, <1>4, <1>6, <1>10, FailedStatusPatch
  DEF SaveResourceStatusFails, Patched
<1>11. QED
  BY <1>7, <1>8, <1>9, <1>10

LEMMA Held_Step ==
  ASSUME TypeOK, IndInv, NEW r \in Resources, ReconcileStep(r)
  PROVE  IndInv'
<1>1. CASE Panics(r)
  BY <1>1, Held_Restart DEF Panics, DecryptPanic, MapSpecPanic, StatusPanic
<1>2. CASE ~Panics(r)
  <2>1. \A q \in Resources \ {r} : Held(q)'
    BY <1>2, StepUntouched, HeldAll, HeldFrame DEF IndInv
  <2>2. Held(r)'
    BY <1>2, Held_Map, Held_Apply, Held_Save, Held_Finish DEF ReconcileStep
  <2>3. \A q \in Resources : Held(q)'
    BY <2>1, <2>2
  <2>4. QED
    BY <2>3, HeldAllNext
<1>3. QED
  BY <1>1, <1>2

-----------------------------------------------------------------------------
(* The theorems.                                                           *)

\* The two invariants hold together: the type of what a patch writes depends
\* on the locals that LocalsSet describes.
IInv == TypeOK /\ IndInv

LEMMA InitIInv == Init => IInv
<1> SUFFICES ASSUME Init PROVE IInv
  OBVIOUS
<1>1. TypeOK
  BY DEF Init, TypeOK, Steps
<1>2. ASSUME NEW r \in Resources PROVE Held(r)
  BY SpecAssumption DEF Init, Held, Steps, HasIdentity, Recorded
<1>3. QED
  BY <1>1, <1>2, HeldAll DEF IInv

LEMMA NextIInv == IInv /\ [Next]_vars => IInv'
<1> SUFFICES ASSUME IInv, [Next]_vars PROVE IInv'
  OBVIOUS
<1>1. TypeOK /\ IndInv /\ LocalsSet
  BY DEF IInv, IndInv
<1>2. ASSUME NEW r \in Resources, User(r)
      PROVE  IInv'
  BY <1>1, <1>2, TypeOK_User, Held_User DEF IInv
<1>3. ASSUME NEW r \in Resources,
             CloudDrift(r) \/ DeliverEvent(r) \/ DelayExpires(r) \/ StartReconcile(r)
      PROVE  IInv'
  BY <1>1, <1>3, TypeOK_Queue, Held_Queue DEF IInv
<1>4. ASSUME NEW r \in Resources, ReconcileStep(r)
      PROVE  IInv'
  BY <1>1, <1>4, TypeOK_Step, Held_Step DEF IInv
<1>5. CASE CrashRestart
  <2>1. PICK k \in Keys, v \in Versions : Restart(k, v)
    BY <1>5 DEF CrashRestart
  <2>2. faults' \in Nat /\ crashes' \in Nat /\ drifts' \in Nat
    BY <1>1, <1>5 DEF CrashRestart, TypeOK
  <2>3. QED
    BY <1>1, <2>1, <2>2, RestartType, Held_Restart DEF IInv
<1>6. CASE UNCHANGED vars
  <2>1. UNCHANGED TypeOK
    BY <1>6 DEF TypeOK, vars, work, local, process, budget, history
  <2>2. \A r \in Resources : Untouched(r)
    BY <1>6 DEF Untouched, vars, local, history
  <2>3. IndInv'
    BY <1>1, <2>2, HeldAll, HeldAllNext, HeldFrame
  <2>4. QED
    BY <1>1, <2>1, <2>3 DEF IInv
<1>7. QED
  BY <1>2, <1>3, <1>4, <1>5, <1>6 DEF Next

LEMMA SpecIInv == Spec => []IInv
  BY InitIInv, NextIInv, PTL DEF Spec

\* Every variable keeps its type, whatever the constants.
THEOREM TypeCorrectness == Spec => []TypeOK
  BY SpecIInv, PTL DEF IInv

\* The finalizer and the order of the patches keep every cloud resource known
\* to its object, unless its identity was lost.
THEOREM Invariance == Spec => []IndInv
  BY SpecIInv, PTL DEF IInv

\* No object disappears before its cloud resource, unless the identity of the
\* resource was lost between apply and save.
THEOREM NoOrphanHolds == Spec => []NoOrphan
<1>1. IInv => NoOrphan
  BY DEF IInv, IndInv, Tracked, NoOrphan
<1>2. QED
  BY <1>1, SpecIInv, PTL

\* The provider refuses a create only after an identity was lost.
THEOREM ConflictOnlyAfterLossHolds == Spec => []ConflictOnlyAfterLoss
<1>1. IInv => ConflictOnlyAfterLoss
  <2> SUFFICES ASSUME IInv, NEW r \in Resources,
                      pc[r] = "apply", AlreadyExists(r), ~unrecorded[r]
               PROVE  FALSE
    BY DEF ConflictOnlyAfterLoss, IInv, TypeOK
  <2>1. Held(r)
    BY HeldAll DEF IInv
  <2>2. Exists(r) /\ HasFinalizer(obj[r]) /\ HasIdentity(obj[r])
    BY <2>1 DEF Held, AlreadyExists
  <2>3. crd[r] # None /\ obj[r].tfState = crd[r].tfState
    BY <2>1, <2>2, ObjectAssumption DEF Held
  <2>4. HasIdentity(crd[r])
    BY <2>2, <2>3 DEF HasIdentity, Recorded, Exists
  <2>5. QED
    BY <2>4 DEF AlreadyExists
<1>2. QED
  BY <1>1, SpecIInv, PTL

\* Only an apply and drift reach the cloud.
LEMMA CloudChange ==
  ASSUME IInv, Next, NEW r \in Resources, cloud'[r] # cloud[r], drifts' = drifts
  PROVE  pc[r] = "apply" /\ cloud'[r] = Applied(r)
<1>0. TypeOK /\ LocalsSet
  BY DEF IInv, IndInv
<1>1. ~CrashRestart
  BY DEF CrashRestart, Restart
<1>2. PICK q \in Resources :
        \/ User(q) \/ CloudDrift(q) \/ DeliverEvent(q) \/ DelayExpires(q)
        \/ StartReconcile(q) \/ ReconcileStep(q)
  BY <1>1 DEF Next
<1>3. ~User(q)
  BY <1>0, UserEffect
<1>4. ~CloudDrift(q)
  BY <1>0 DEF CloudDrift, TypeOK
<1>5. ~(DeliverEvent(q) \/ DelayExpires(q) \/ StartReconcile(q))
  BY DEF DeliverEvent, DelayExpires, StartReconcile, ReconcileGone,
         ReconcileGetFails, ReconcileBegins
<1>6. PlanAndApply(q) \/ PlanAndApplyFails(q)
  BY <1>2, <1>3, <1>4, <1>5
  DEF ReconcileStep, EnsureFinalizer, EnsureFinalizerFails, ResolveReference,
      ReferenceNotReady, MapSpec, MapSpecFails, PlanAndApplyRefused, Panics,
      DecryptPanic, MapSpecPanic, StatusPanic, Restart, SaveTerraformState, SaveTerraformStateFails,
      RemoveFinalizerAndSave, RemoveFinalizerFails, SaveResourceStatus,
      SaveResourceStatusFails
<1>7. CASE PlanAndApply(q)
  <2>1. q = r /\ pc[r] = "apply"
    BY <1>0, <1>7 DEF PlanAndApply, TypeOK
  <2>2. QED
    BY <1>0, <1>7, <2>1, ApplyOutcome
<1>8. QED
  BY <1>0, <1>6, <1>7 DEF PlanAndApplyFails, TypeOK

\* Nothing is created but for an object that holds the bridge's finalizer.
THEOREM FinalizerBeforeCreateHolds == Spec => FinalizerBeforeCreate
<1>1. ASSUME IInv, [Next]_vars
      PROVE  [\A r \in Resources :
                drifts' = drifts /\ cloud[r] = None /\ cloud'[r] # None =>
                  Exists(r) /\ HasFinalizer(obj[r])]_vars
  <2> SUFFICES ASSUME Next, NEW r \in Resources,
                      drifts' = drifts, cloud[r] = None, cloud'[r] # None
               PROVE  Exists(r) /\ HasFinalizer(obj[r])
    BY <1>1
  <2>1. Held(r)
    BY <1>1, HeldAll DEF IInv
  <2>2. pc[r] = "apply" /\ cloud'[r] = Applied(r)
    BY <1>1, CloudChange
  <2>3. ~deleting[r]
    <3>1. deleting[r] => Applied(r) \in {None, cloud[r]}
      BY DEF Applied, terraformConfig
    <3>2. QED
      BY <2>2, <3>1
  <2>4. QED
    BY <2>1, <2>2, <2>3 DEF Held, Steps
<1>2. QED
  BY <1>1, SpecIInv, PTL DEF Spec, FinalizerBeforeCreate

\* The step that ends what an object records is the save or the end of a
\* deletion.
LEMMA IdentityChange ==
  ASSUME IInv, Next, NEW r \in Resources,
         HasIdentity(obj[r]), ~HasIdentity(obj'[r])
  PROVE  pc[r] \in {"save", "finish"} /\ deleting[r]
<1>1. TypeOK /\ LocalsSet /\ Held(r) /\ IndInv
  BY HeldAll DEF IInv, IndInv
<1>2. Exists(r) /\ obj[r].tfState # None /\ HasFinalizer(obj[r])
  BY <1>1, SpecAssumption DEF HasIdentity, Recorded, Exists, Held
<1>3. obj'[r] # obj[r]
  OBVIOUS
\* A patch that keeps the state and the finalizer keeps the identity.
<1>4. ASSUME NEW o \in Object, o.tfState = obj[r].tfState, HasFinalizer(o),
             obj'[r] = Persisted(o)
      PROVE  FALSE
  BY <1>2, <1>4, StoredObject DEF HasIdentity, Recorded, Exists
<1>5. ~CrashRestart
  BY <1>3 DEF CrashRestart, Restart
<1>6. PICK q \in Resources :
        \/ User(q) \/ CloudDrift(q) \/ DeliverEvent(q) \/ DelayExpires(q)
        \/ StartReconcile(q) \/ ReconcileStep(q)
  BY <1>5 DEF Next
<1>7. ~(CloudDrift(q) \/ DeliverEvent(q) \/ DelayExpires(q) \/ StartReconcile(q))
  BY <1>3
  DEF CloudDrift, DeliverEvent, DelayExpires, StartReconcile, ReconcileGone,
      ReconcileGetFails, ReconcileBegins
<1>8. ~Panics(q)
  BY <1>3 DEF Panics, DecryptPanic, MapSpecPanic, StatusPanic, Restart
<1>9. q = r
  BY <1>1, <1>3, <1>6, <1>7, <1>8, UserEffect, StepUntouched DEF Untouched
<1>10. ~User(r)
  BY <1>1, <1>2, UserEffect DEF HasIdentity, Recorded, Exists
<1>11. \/ EnsureFinalizer(r) \/ EnsureFinalizerFails(r)
       \/ pc[r] \in {"save", "finish"}
  BY <1>3, <1>6, <1>7, <1>9, <1>10
  DEF ReconcileStep, ResolveReference, ReferenceNotReady, MapSpec, MapSpecFails,
      PlanAndApply, PlanAndApplyRefused, PlanAndApplyFails, Panics,
      DecryptPanic, MapSpecPanic, StatusPanic, Restart,
      SaveTerraformState, SaveTerraformStateFails, RemoveFinalizerAndSave,
      RemoveFinalizerFails, SaveResourceStatus, SaveResourceStatusFails
<1>12. CASE EnsureFinalizer(r) \/ EnsureFinalizerFails(r)
  <2> DEFINE o == [obj[r] EXCEPT !.finalizers = WithFinalizer(r)]
  <2>1. pc[r] = "finalizer"
    BY <1>12 DEF EnsureFinalizer, EnsureFinalizerFails
  <2>2. o \in Object /\ o.tfState = obj[r].tfState /\ o.finalizers = WithFinalizer(r)
    BY <1>1, <1>2, <2>1, PatchTypes, PatchFields
  <2>3. HasFinalizer(o)
    BY <2>2 DEF WithFinalizer, HasFinalizer
  <2>4. CASE EnsureFinalizer(r)
    BY <1>1, <1>3, <1>4, <2>2, <2>3, <2>4, StoreType DEF EnsureFinalizer
  <2>5. CASE EnsureFinalizerFails(r)
    <3>1. Patched(r, FinalizersAccepted(r, WithFinalizer(r)), o)
      BY <1>1, <2>1, <2>5, FailedFinalizerPatch DEF EnsureFinalizerFails
    <3>2. QED
      BY <1>3, <1>4, <2>2, <2>3, <3>1 DEF Patched
  <2>6. QED
    BY <1>12, <2>4, <2>5
<1>13. CASE pc[r] = "save" /\ ~deleting[r]
  <2>1. WithState(r) \in Object /\ WithState(r).finalizers = obj[r].finalizers
    BY <1>1, <1>2, <1>13, PatchTypes, PatchFields
  <2>2. HasIdentity(WithState(r)) /\ HasFinalizer(WithState(r))
    BY <1>1, <1>2, <1>13, <2>1, StateWritten DEF Held, HasIdentity, HasFinalizer
  <2>3. obj'[r] = Persisted(WithState(r))
    <3>1. SaveTerraformState(r) \/ SaveTerraformStateFails(r)
      BY <1>6, <1>7, <1>8, <1>9, <1>10, <1>13
      DEF ReconcileStep, EnsureFinalizer, EnsureFinalizerFails, ResolveReference,
          ReferenceNotReady, MapSpec, MapSpecFails, PlanAndApply,
          PlanAndApplyRefused, PlanAndApplyFails, RemoveFinalizerAndSave,
          RemoveFinalizerFails, SaveResourceStatus, SaveResourceStatusFails
    <3>2. CASE SaveTerraformState(r)
      BY <1>1, <2>1, <3>2, StoreType DEF SaveTerraformState, StateAccepted
    <3>3. CASE SaveTerraformStateFails(r)
      BY <1>1, <1>3, <1>13, <3>3, FailedStatePatch
      DEF SaveTerraformStateFails, Patched
    <3>4. QED
      BY <3>1, <3>2, <3>3
  <2>4. QED
    BY <2>1, <2>2, <2>3, StoredObject
<1>14. CASE pc[r] = "finish" /\ ~deleting[r]
  <2>1. /\ WithStatus(r) \in Object
        /\ WithStatus(r).finalizers = obj[r].finalizers
        /\ WithStatus(r).tfState = obj[r].tfState
    BY <1>1, <1>2, <1>14, PatchTypes, PatchFields
  <2>2. HasFinalizer(WithStatus(r))
    BY <1>2, <2>1 DEF HasFinalizer
  <2>3. obj'[r] = Persisted(WithStatus(r))
    <3>1. SaveResourceStatus(r) \/ SaveResourceStatusFails(r)
      BY <1>6, <1>7, <1>8, <1>9, <1>10, <1>14
      DEF ReconcileStep, EnsureFinalizer, EnsureFinalizerFails, ResolveReference,
          ReferenceNotReady, MapSpec, MapSpecFails, PlanAndApply,
          PlanAndApplyRefused, PlanAndApplyFails, SaveTerraformState,
          SaveTerraformStateFails, RemoveFinalizerAndSave, RemoveFinalizerFails
    <3>2. CASE SaveResourceStatus(r)
      BY <1>1, <2>1, <3>2, StoreType DEF SaveResourceStatus
    <3>3. CASE SaveResourceStatusFails(r)
      BY <1>1, <1>3, <1>14, <3>3, FailedStatusPatch
      DEF SaveResourceStatusFails, Patched
    <3>4. QED
      BY <3>1, <3>2, <3>3
  <2>4. QED
    BY <1>4, <2>1, <2>2, <2>3
<1>15. QED
  BY <1>11, <1>12, <1>13, <1>14

\* A recorded identity is given up only when the resource is gone.
THEOREM IdentityGivenUpLastHolds == Spec => IdentityGivenUpLast
<1>1. ASSUME IInv, [Next]_vars
      PROVE  [\A r \in Resources :
                HasIdentity(obj[r]) /\ ~HasIdentity(obj'[r]) =>
                  cloud[r] = None \/ unrecorded[r]]_vars
  <2> SUFFICES ASSUME NEW r \in Resources, Next,
                      HasIdentity(obj[r]), ~HasIdentity(obj'[r])
               PROVE  cloud[r] = None \/ unrecorded[r]
    BY <1>1
  <2>1. Held(r)
    BY <1>1, HeldAll DEF IInv
  <2>2. pc[r] \in {"save", "finish"} /\ deleting[r]
    BY <1>1, IdentityChange
  <2>3. QED
    BY <2>1, <2>2 DEF Held
<1>2. QED
  BY <1>1, SpecIInv, PTL DEF Spec, IdentityGivenUpLast

=============================================================================
